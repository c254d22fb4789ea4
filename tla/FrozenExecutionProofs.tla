------------------------ MODULE FrozenExecutionProofs ------------------------
(***************************************************************************)
(* Theorems about the administrator-approved execution path for any number *)
(* of proposals, symbols, overlapping workers and restarts.                *)
(*                                                                         *)
(* AtMostOneEntry and LedgerNeverFlatters are not inductive: that a worker *)
(* may post rests on the claim it holds, and that a row may be written     *)
(* REJECTED or FILLED_PROTECTED rests on what the exchange can still do    *)
(* with the order.  ClaimInv states both.                                  *)
(***************************************************************************)
EXTENDS FrozenExecution, FiniteSetTheorems, TLAPS

(***************************************************************************)
(* Type correctness                                                        *)
(***************************************************************************)

\* The initial state has the right types (empty tables, idle processes).
LEMMA InitTypeOK == Init => TypeOK
<1> SUFFICES ASSUME Init PROVE TypeOK
  OBVIOUS
<1>1. /\ status \in [Proposals -> ProposalStatus]
      /\ approval \in [Proposals -> ApprovalAge]
      /\ fillRecorded \in [Proposals -> BOOLEAN]
      /\ ledger \in [Proposals -> LedgerStatus]
  BY DEF Init, RepoInit, ProposalStatus, ApprovalAge, LedgerStatus
<1>2. /\ killSwitch \in BOOLEAN
      /\ inProgress \in BOOLEAN
      /\ executed \in BOOLEAN
      /\ automatic \in BOOLEAN
      /\ notified \in BOOLEAN
  BY Zenon DEF Init, RepoInit
<1>3. ExchangeTypeOK
  BY DEF Init, ExchangeInit, ExchangeTypeOK, OrderStatus, PositionStatus
<1>4. /\ phase \in PhaseStatus
      /\ slot \in Proposals \cup {NoProposal}
      /\ startedAfter \subseteq Workers
      /\ pc \in [Workers -> WorkerPc]
      /\ job \in [Workers -> Proposals \cup {NoProposal}]
      /\ wasAutomatic \in [Workers -> BOOLEAN]
      /\ tg \in TelegramPc
      /\ tgJob \in Proposals \cup {NoProposal}
      /\ restarts \in Nat
      /\ lateEntries \in Nat
      /\ cancelConfirmed \subseteq Proposals
  BY DEF Init, PhaseStatus, WorkerPc, TelegramPc
<1> QED
  BY <1>1, <1>2, <1>3, <1>4 DEF TypeOK, RepoTypeOK

\* A worker's move to a known label keeps the worker variables well typed.
LEMMA GotoTypeOK ==
    ASSUME TypeOK, NEW w \in Workers, NEW label \in WorkerPc, Goto(w, label)
    PROVE  /\ pc' \in [Workers -> WorkerPc]
           /\ job' \in [Workers -> Proposals \cup {NoProposal}]
           /\ wasAutomatic' \in [Workers -> BOOLEAN]
  BY DEF Goto, TypeOK
\* Every transaction of ControlledLiveRepository keeps its tables well typed.
LEMMA RepoTransactionsTypeOK ==
    ASSUME RepoTypeOK, NEW p, NEW auto,
           \/ UNCHANGED repoVars
           \/ InsertProposal(p, auto) \/ ApproveCommit(p) \/ CancelCommit(p)
           \/ ApprovalExpires(p) \/ ClaimCommit(p)
           \/ MarkFilled(p) \/ MarkProtected(p) \/ MarkEmergencyClosed(p)
           \/ MarkUnknown(p) \/ MarkRejected(p)
           \/ ActivateKillSwitch \/ EnableAutomatic
    PROVE  RepoTypeOK'
<1> USE DEF RepoTypeOK, ProposalStatus, ApprovalAge, LedgerStatus, flagVars, recordVars,
            repoVars
<1>1. CASE UNCHANGED repoVars
  BY <1>1
<1>2. CASE InsertProposal(p, auto)
  BY <1>2 DEF InsertProposal
<1>3. CASE ApproveCommit(p)
  BY <1>3 DEF ApproveCommit
<1>4. CASE CancelCommit(p)
  BY <1>4 DEF CancelCommit
<1>5. CASE ApprovalExpires(p)
  BY <1>5 DEF ApprovalExpires
<1>6. CASE ClaimCommit(p)
  BY <1>6 DEF ClaimCommit
<1>7. CASE MarkFilled(p)
  BY <1>7 DEF MarkFilled, UpdateExecution
<1>8. CASE MarkProtected(p)
  BY <1>8 DEF MarkProtected, UpdateExecution, FinishFirstOrder
<1>9. CASE MarkEmergencyClosed(p)
  BY <1>9 DEF MarkEmergencyClosed, UpdateExecution, FinishFirstOrder
<1>10. CASE MarkUnknown(p)
  BY <1>10 DEF MarkUnknown, UpdateExecution
<1>11. CASE MarkRejected(p)
  BY <1>11 DEF MarkRejected, UpdateExecution
<1>12. CASE ActivateKillSwitch
  BY <1>12 DEF ActivateKillSwitch
<1>13. CASE EnableAutomatic
  BY <1>13 DEF EnableAutomatic
<1> QED
  BY <1>1, <1>2, <1>3, <1>4, <1>5, <1>6, <1>7, <1>8, <1>9, <1>10, <1>11, <1>12, <1>13

\* So does every request to the exchange and every step of its own.
LEMMA ExchangeStepsTypeOK ==
    ASSUME ExchangeTypeOK, NEW p,
           UNCHANGED exchangeVars \/ PostCreate(p) \/ SetTradingStop(p) \/ ExchangeStep(p)
    PROVE  ExchangeTypeOK'
<1> USE DEF ExchangeTypeOK, OrderStatus, PositionStatus, exchangeVars
<1>1. CASE UNCHANGED exchangeVars
  BY <1>1
<1>2. CASE PostCreate(p)
  <2>1. CASE p \in Proposals
    BY <1>2, <2>1 DEF PostCreate
  <2>2. CASE p \notin Proposals
    <3>1. posts' = posts /\ order' = order
      BY <1>2, <2>2 DEF PostCreate
    <3> QED
      BY <1>2, <3>1 DEF PostCreate
  <2> QED
    BY <2>1, <2>2
<1>3. CASE SetTradingStop(p)
  BY <1>3 DEF SetTradingStop
<1>4. CASE ExchangeStep(p)
  BY <1>4 DEF ExchangeStep, CreateArrives, OrderFills, OrderEndsUnfilled, PositionCloses
<1> QED
  BY <1>1, <1>2, <1>3, <1>4
\* A write of the phase record keeps it well typed.
LEMMA PhaseTypeOK ==
    ASSUME TypeOK, NEW s \in PhaseStatus,
           UNCHANGED phaseVars \/ SetPhase(s) \/ MarkExecutionStatus(s)
    PROVE  /\ phase' \in PhaseStatus
           /\ slot' \in Proposals \cup {NoProposal}
           /\ notified' \in BOOLEAN
           /\ startedAfter' \in SUBSET Workers
  BY DEF TypeOK, SetPhase, MarkExecutionStatus, phaseVars

\* The coordinator's steps keep the types.
LEMMA CoordinatorTypeOK ==
    ASSUME TypeOK, NEW w \in Workers, CoordinatorStep(w) \/ ScanStep(w)
    PROVE  TypeOK'
<1> USE DEF phaseVars, workerVars, tgVars
<1>1. CASE Notify(w)
  BY <1>1, RepoTransactionsTypeOK, ExchangeStepsTypeOK DEF Notify, TypeOK
<1>2. ASSUME NEW p \in Proposals, ReadAccount(w, p) PROVE TypeOK'
  BY <1>2, RepoTransactionsTypeOK, ExchangeStepsTypeOK DEF ReadAccount, TypeOK, WorkerPc
<1>3. CASE ReleaseSlot(w)
  BY <1>3, RepoTransactionsTypeOK, ExchangeStepsTypeOK DEF ReleaseSlot, TypeOK, PhaseStatus
<1>4. CASE SignalWins(w)
  BY <1>4, RepoTransactionsTypeOK, ExchangeStepsTypeOK
     DEF SignalWins, TypeOK, RepoTypeOK, WorkerPc
<1>5. CASE SaveReady(w)
  BY <1>5, RepoTransactionsTypeOK, ExchangeStepsTypeOK, GotoTypeOK
     DEF SaveReady, TypeOK, WorkerPc, PhaseStatus
<1>6. CASE ScanEnds(w)
  BY <1>6, RepoTransactionsTypeOK, ExchangeStepsTypeOK, GotoTypeOK
     DEF ScanEnds, TypeOK, WorkerPc
<1> QED
  BY <1>1, <1>2, <1>3, <1>4, <1>5, <1>6 DEF CoordinatorStep, ScanStep
\* The steps of claim_submission keep the types.
LEMMA ClaimTypeOK ==
    ASSUME TypeOK, NEW w \in Workers, ClaimStep(w)
    PROVE  TypeOK'
<1> USE DEF phaseVars, workerVars, tgVars
<1>1. CASE BeginExecution(w)
  BY <1>1, RepoTransactionsTypeOK, ExchangeStepsTypeOK
     DEF BeginExecution, TypeOK, RepoTypeOK, WorkerPc
<1>2. CASE ReadClaim(w)
  BY <1>2, RepoTransactionsTypeOK, ExchangeStepsTypeOK, GotoTypeOK
     DEF ReadClaim, TypeOK, WorkerPc
<1>3. CASE CommitClaim(w)
  BY <1>3, RepoTransactionsTypeOK, ExchangeStepsTypeOK, GotoTypeOK
     DEF CommitClaim, TypeOK, WorkerPc, SubmitStage
<1>4. CASE ClaimFails(w)
  BY <1>4, RepoTransactionsTypeOK, ExchangeStepsTypeOK, GotoTypeOK
     DEF ClaimFails, TypeOK, WorkerPc
<1> QED
  BY <1>1, <1>2, <1>3, <1>4 DEF ClaimStep

\* The steps of submit_market and its outcomes keep the types.
LEMMA SubmitTypeOK ==
    ASSUME TypeOK, NEW w \in Workers, SubmitStep(w)
    PROVE  TypeOK'
<1> USE DEF phaseVars, workerVars, tgVars
<1>1. CASE StageAdvances(w)
  BY <1>1, RepoTransactionsTypeOK, ExchangeStepsTypeOK, GotoTypeOK
     DEF StageAdvances, TypeOK, WorkerPc, SubmitStage, AfterStage
<1>2. CASE StageFails(w)
  BY <1>2, RepoTransactionsTypeOK, ExchangeStepsTypeOK, GotoTypeOK
     DEF StageFails, TypeOK, WorkerPc
<1>3. CASE LeverageRefused(w)
  BY <1>3, RepoTransactionsTypeOK, ExchangeStepsTypeOK, GotoTypeOK
     DEF LeverageRefused, TypeOK, WorkerPc
<1>4. CASE LossLimitReached(w)
  BY <1>4, RepoTransactionsTypeOK, ExchangeStepsTypeOK, GotoTypeOK
     DEF LossLimitReached, TypeOK, WorkerPc, SubmitStage
<1>5. CASE PostEntry(w)
  BY <1>5, RepoTransactionsTypeOK, ExchangeStepsTypeOK, GotoTypeOK
     DEF PostEntry, TypeOK, WorkerPc
<1>6. CASE EntryRefused(w)
  BY <1>6, RepoTransactionsTypeOK, ExchangeStepsTypeOK, GotoTypeOK
     DEF EntryRefused, TypeOK, WorkerPc
<1>7. CASE EntryTimesOut(w)
  BY <1>7, RepoTransactionsTypeOK, ExchangeStepsTypeOK, GotoTypeOK
     DEF EntryTimesOut, TypeOK, WorkerPc
<1>8. CASE EntryAccepted(w)
  BY <1>8, RepoTransactionsTypeOK, ExchangeStepsTypeOK, GotoTypeOK
     DEF EntryAccepted, TypeOK, WorkerPc
<1>9. CASE FillConfirmed(w)
  BY <1>9, RepoTransactionsTypeOK, ExchangeStepsTypeOK, GotoTypeOK
     DEF FillConfirmed, TypeOK, WorkerPc
<1>10. CASE PollRejected(w)
  BY <1>10, RepoTransactionsTypeOK, ExchangeStepsTypeOK, GotoTypeOK
     DEF PollRejected, TypeOK, WorkerPc
<1>11. CASE FillNotConfirmed(w)
  BY <1>11, RepoTransactionsTypeOK, ExchangeStepsTypeOK, GotoTypeOK
     DEF FillNotConfirmed, TypeOK, WorkerPc
<1> QED
  BY <1>1, <1>2, <1>3, <1>4, <1>5, <1>6, <1>7, <1>8, <1>9, <1>10, <1>11 DEF SubmitStep

\* Protection and emergency close keep the types.
LEMMA SecureTypeOK ==
    ASSUME TypeOK, NEW w \in Workers, SecureStep(w)
    PROVE  TypeOK'
<1> USE DEF phaseVars, workerVars, tgVars
<1>1. CASE ProtectionInstalled(w)
  BY <1>1, RepoTransactionsTypeOK, ExchangeStepsTypeOK, GotoTypeOK
     DEF ProtectionInstalled, TypeOK, WorkerPc
<1>2. CASE RecordProtection(w)
  BY <1>2, RepoTransactionsTypeOK, ExchangeStepsTypeOK, GotoTypeOK
     DEF RecordProtection, TypeOK, WorkerPc
<1>3. CASE ProtectionUnanswered(w)
  BY <1>3, RepoTransactionsTypeOK, ExchangeStepsTypeOK, GotoTypeOK
     DEF ProtectionUnanswered, TypeOK, WorkerPc
<1>4. CASE ProtectionFails(w)
  BY <1>4, RepoTransactionsTypeOK, ExchangeStepsTypeOK, GotoTypeOK
     DEF ProtectionFails, TypeOK, WorkerPc
<1>5. CASE EmergencyCloseAccepted(w)
  BY <1>5, RepoTransactionsTypeOK, ExchangeStepsTypeOK, GotoTypeOK
     DEF EmergencyCloseAccepted, TypeOK, WorkerPc
<1>6. CASE EmergencyCloseFails(w)
  BY <1>6, RepoTransactionsTypeOK, ExchangeStepsTypeOK, GotoTypeOK
     DEF EmergencyCloseFails, TypeOK, WorkerPc
<1> QED
  BY <1>1, <1>2, <1>3, <1>4, <1>5, <1>6 DEF SecureStep

\* Reconciliation, halting and validation keep the types.
LEMMA OutcomeTypeOK ==
    ASSUME TypeOK, NEW w \in Workers, OutcomeStep(w)
    PROVE  TypeOK'
<1> USE DEF phaseVars, workerVars, tgVars
<1>1. CASE ReconcileMatches(w)
  BY <1>1, RepoTransactionsTypeOK, ExchangeStepsTypeOK, PhaseTypeOK, GotoTypeOK
     DEF ReconcileMatches, TypeOK, WorkerPc, PhaseStatus
<1>2. CASE ReconcileFails(w)
  BY <1>2, RepoTransactionsTypeOK, ExchangeStepsTypeOK, GotoTypeOK
     DEF ReconcileFails, TypeOK, WorkerPc
<1>3. CASE KillAfterFailure(w)
  BY <1>3, RepoTransactionsTypeOK, ExchangeStepsTypeOK, GotoTypeOK
     DEF KillAfterFailure, TypeOK, WorkerPc
<1>4. CASE HaltPhase(w)
  BY <1>4, RepoTransactionsTypeOK, ExchangeStepsTypeOK, PhaseTypeOK, GotoTypeOK
     DEF HaltPhase, TypeOK, WorkerPc, PhaseStatus
<1>5. CASE ValidateFirstTrade(w)
  BY <1>5, RepoTransactionsTypeOK, ExchangeStepsTypeOK
     DEF ValidateFirstTrade, TypeOK, WorkerPc
<1>6. CASE EnableAutomaticMode(w)
  BY <1>6, RepoTransactionsTypeOK, ExchangeStepsTypeOK, GotoTypeOK
     DEF EnableAutomaticMode, TypeOK, WorkerPc
<1>7. CASE MarkValidated(w)
  BY <1>7, RepoTransactionsTypeOK, ExchangeStepsTypeOK, PhaseTypeOK, GotoTypeOK
     DEF MarkValidated, TypeOK, WorkerPc, PhaseStatus
<1> QED
  BY <1>1, <1>2, <1>3, <1>4, <1>5, <1>6, <1>7 DEF OutcomeStep

\* A Telegram handler in progress works on a proposal.  TypeOK alone is not
\* inductive: the confirmed cancellations grow by the handler's proposal.
HandlerKnown == tg # "IDLE" => tgJob \in Proposals

\* The Telegram handlers keep the types.
LEMMA TelegramTypeOK ==
    ASSUME TypeOK, HandlerKnown, TelegramStep
    PROVE  TypeOK' /\ HandlerKnown'
<1> USE DEF phaseVars, workerVars, tgVars, HandlerKnown
<1>1. CASE TelegramApproves
  BY <1>1, RepoTransactionsTypeOK, ExchangeStepsTypeOK
     DEF TelegramApproves, TypeOK, TgGoto, TelegramPc
<1>2. CASE TelegramApprovesPhase
  BY <1>2, RepoTransactionsTypeOK, ExchangeStepsTypeOK, PhaseTypeOK
     DEF TelegramApprovesPhase, TypeOK, TgDone, TelegramPc, PhaseStatus
<1>3. CASE TelegramCancels
  BY <1>3, RepoTransactionsTypeOK, ExchangeStepsTypeOK
     DEF TelegramCancels, TypeOK, TgGoto, TelegramPc
<1>4. CASE TelegramCancelsPhase
  BY <1>4, RepoTransactionsTypeOK, ExchangeStepsTypeOK, PhaseTypeOK, FrozenAssumption
     DEF TelegramCancelsPhase, TypeOK, TgDone, TelegramPc, PhaseStatus
<1>5. CASE TelegramEmergency
  BY <1>5, RepoTransactionsTypeOK, ExchangeStepsTypeOK
     DEF TelegramEmergency, TypeOK
<1>6. CASE RestartTelegram
  BY <1>6, RepoTransactionsTypeOK, ExchangeStepsTypeOK
     DEF RestartTelegram, TypeOK, TgDone, TelegramPc
<1>7. CASE \E p \in Proposals : TelegramReads(p)
  BY <1>7, RepoTransactionsTypeOK, ExchangeStepsTypeOK
     DEF TelegramReads, TgBegin, TelegramPc, TypeOK
<1> QED
  BY <1>1, <1>2, <1>3, <1>4, <1>5, <1>6, <1>7 DEF TelegramStep

\* A restart of a worker keeps the types.
LEMMA RestartTypeOK ==
    ASSUME TypeOK, NEW w \in Workers, RestartWorker(w)
    PROVE  TypeOK'
  BY RepoTransactionsTypeOK, ExchangeStepsTypeOK DEF RestartWorker, TypeOK, WorkerPc, tgVars

\* A step of the exchange and the ageing of an approval keep the types.
LEMMA EnvironmentTypeOK ==
    ASSUME TypeOK, NEW p, BybitStep(p) \/ ApprovalAges(p)
    PROVE  TypeOK'
<1> USE DEF phaseVars, workerVars, tgVars
<1>1. CASE BybitStep(p)
  BY <1>1, RepoTransactionsTypeOK, ExchangeStepsTypeOK DEF BybitStep, TypeOK
<1>2. CASE ApprovalAges(p)
  BY <1>2, RepoTransactionsTypeOK, ExchangeStepsTypeOK DEF ApprovalAges, TypeOK
<1> QED
  BY <1>1, <1>2

\* Only the Telegram bot's own steps touch its handler.
LEMMA HandlerUntouched ==
    ASSUME NEW w, NEW p,
           \/ CoordinatorStep(w) \/ ExecutionStep(w) \/ RestartWorker(w)
           \/ BybitStep(p) \/ ApprovalAges(p)
    PROVE  UNCHANGED tgVars
<1>1. CASE CoordinatorStep(w) \/ ScanStep(w)
  BY <1>1 DEF CoordinatorStep, ScanStep, Notify, ReadAccount, ReleaseSlot, SignalWins,
     SaveReady, ScanEnds
<1>2. CASE ClaimStep(w)
  BY <1>2 DEF ClaimStep, BeginExecution, ReadClaim, CommitClaim, ClaimFails
<1>3. CASE SubmitStep(w)
  BY <1>3 DEF SubmitStep, StageAdvances, StageFails, LeverageRefused, LossLimitReached,
     PostEntry, EntryRefused, EntryTimesOut, EntryAccepted, FillConfirmed, PollRejected,
     FillNotConfirmed
<1>4. CASE SecureStep(w)
  BY <1>4 DEF SecureStep, ProtectionInstalled, RecordProtection, ProtectionUnanswered,
     ProtectionFails, EmergencyCloseAccepted, EmergencyCloseFails
<1>5. CASE OutcomeStep(w)
  BY <1>5 DEF OutcomeStep, ReconcileMatches, ReconcileFails, KillAfterFailure, HaltPhase,
     ValidateFirstTrade, EnableAutomaticMode, MarkValidated
<1>6. CASE RestartWorker(w) \/ BybitStep(p) \/ ApprovalAges(p)
  BY <1>6 DEF RestartWorker, BybitStep, ApprovalAges
<1> QED
  BY <1>1, <1>2, <1>3, <1>4, <1>5, <1>6 DEF ExecutionStep
\* Every step of every process keeps the types.
LEMMA NextTypeOK ==
    ASSUME TypeOK, HandlerKnown, [Next]_vars
    PROVE  TypeOK' /\ HandlerKnown'
<1>1. ASSUME NEW w \in Workers, CoordinatorStep(w) PROVE TypeOK' /\ HandlerKnown'
  BY <1>1, CoordinatorTypeOK, HandlerUntouched DEF HandlerKnown, tgVars
<1>2. ASSUME NEW w \in Workers, ExecutionStep(w) PROVE TypeOK' /\ HandlerKnown'
  <2>1. TypeOK'
    BY <1>2, CoordinatorTypeOK, ClaimTypeOK, SubmitTypeOK, SecureTypeOK, OutcomeTypeOK
       DEF ExecutionStep
  <2> QED
    BY <1>2, <2>1, HandlerUntouched DEF HandlerKnown, tgVars
<1>3. ASSUME NEW w \in Workers, RestartWorker(w) PROVE TypeOK' /\ HandlerKnown'
  BY <1>3, RestartTypeOK, HandlerUntouched DEF HandlerKnown, tgVars
<1>4. CASE TelegramStep
  BY <1>4, TelegramTypeOK
<1>5. ASSUME NEW p \in Proposals, BybitStep(p) \/ ApprovalAges(p)
      PROVE  TypeOK' /\ HandlerKnown'
  BY <1>5, EnvironmentTypeOK, HandlerUntouched DEF HandlerKnown, tgVars
<1>6. CASE UNCHANGED vars
  BY <1>6, RepoTransactionsTypeOK, ExchangeStepsTypeOK
     DEF vars, TypeOK, HandlerKnown, phaseVars, workerVars, tgVars
<1> QED
  BY <1>1, <1>2, <1>3, <1>4, <1>5, <1>6 DEF Next

\* The database rows, the phase record, the workers, the bot and the exchange stay
\* within their types, for any number of proposals and overlapping workers.
THEOREM TypeCorrect == Spec => []TypeOK
<1>1. Init => TypeOK /\ HandlerKnown
  BY InitTypeOK DEF Init, HandlerKnown
<1>2. TypeOK /\ HandlerKnown /\ [Next]_vars => (TypeOK /\ HandlerKnown)'
  BY NextTypeOK
<1> QED
  BY <1>1, <1>2, PTL DEF Spec

(***************************************************************************)
(* Claims, entries and what the ledger says of them                        *)
(***************************************************************************)

\* A worker between its claim and its outcome; one that has not posted yet; one
\* that handles a recorded fill.
Claimed   == SubmitStage \cup {"CREATE", "RESPONSE", "POLL", "PROTECT", "SECURED", "CLOSE"}
PreSend   == SubmitStage \cup {"CREATE"}
AfterFill == {"PROTECT", "SECURED", "CLOSE"}
Filled    == {"FILLED", "PARTIAL"}

JobKnown ==
    \A w \in Workers :
        pc[w] \in Claimed \cup {"CLAIM", "CLAIM_COMMIT"} => job[w] \in Proposals

\* A claim is held by one worker and keeps its ledger row unresolved.
ClaimOwned ==
    \A w \in Workers : pc[w] \in Claimed => ledger[job[w]] \in {"PENDING", "SUBMITTED"}

ClaimUnique ==
    \A v, w \in Workers :
        pc[v] \in Claimed /\ pc[w] \in Claimed /\ job[v] = job[w] => v = w

\* Nothing is sent before the claim, nor by its holder before CREATE.
SentOnlyClaimed == \A p \in Proposals : ledger[p] = "NONE" => posts[p] = 0

NotYetSent == \A w \in Workers : pc[w] \in PreSend => posts[job[w]] = 0

\* The exchange acts only on what was posted, and opens a position only by a fill.
OrderNeedsPost == \A p \in Proposals : posts[p] = 0 => order[p] = "NONE"

PositionNeedsFill ==
    \A p \in Proposals :
        position[p] # "NONE" \/ ledger[p] = "FILLED_PROTECTED" => order[p] \in Filled

\* What a worker has learnt about its order stays true.
FillKnown == \A w \in Workers : pc[w] \in AfterFill => order[job[w]] \in Filled

StopKnown ==
    \A w \in Workers :
        pc[w] = "SECURED" /\ position[job[w]] = "OPEN" => protected[job[w]]

ClaimInv ==
    /\ TypeOK
    /\ HandlerKnown
    /\ JobKnown
    /\ ClaimOwned
    /\ ClaimUnique
    /\ SentOnlyClaimed
    /\ NotYetSent
    /\ OrderNeedsPost
    /\ PositionNeedsFill
    /\ FillKnown
    /\ StopKnown
    /\ AtMostOneEntry
    /\ LedgerNeverFlatters

\* The invariant holds in empty tables with idle workers.
LEMMA InitClaimInv == Init => ClaimInv
<1> SUFFICES ASSUME Init PROVE ClaimInv
  OBVIOUS
<1>1. TypeOK /\ HandlerKnown
  BY InitTypeOK DEF Init, HandlerKnown
<1>2. \A w \in Workers : pc[w] \notin Claimed \cup {"CLAIM", "CLAIM_COMMIT"}
  BY DEF Init, Claimed, SubmitStage
<1>3. JobKnown /\ ClaimOwned /\ ClaimUnique /\ NotYetSent /\ FillKnown /\ StopKnown
  BY <1>2 DEF JobKnown, ClaimOwned, ClaimUnique, NotYetSent, FillKnown, StopKnown, Claimed,
     PreSend, AfterFill
<1>4. \A p \in Proposals : /\ ledger[p] = "NONE" /\ posts[p] = 0
                           /\ order[p] = "NONE" /\ position[p] = "NONE"
  BY DEF Init, RepoInit, ExchangeInit
<1>5. SentOnlyClaimed /\ OrderNeedsPost /\ PositionNeedsFill
  BY <1>4 DEF SentOnlyClaimed, OrderNeedsPost, PositionNeedsFill
<1>6. AtMostOneEntry /\ LedgerNeverFlatters
  BY <1>4 DEF AtMostOneEntry, LedgerNeverFlatters
<1> QED
  BY <1>1, <1>3, <1>5, <1>6 DEF ClaimInv

\* Worker v knows no more after the step than before it.
NoNewKnowledge(v) ==
    /\ pc'[v] \in Claimed =>
           /\ pc[v] \in Claimed /\ job'[v] = job[v]
           /\ pc'[v] \in PreSend => pc[v] \in PreSend
           /\ pc'[v] \in AfterFill => pc[v] \in AfterFill
           /\ pc'[v] = "SECURED" => pc[v] = "SECURED"
    /\ pc'[v] \in {"CLAIM", "CLAIM_COMMIT"} => job'[v] \in Proposals

\* A step that touches neither the ledger nor the exchange, and teaches no worker
\* anything, keeps the invariant.
LEMMA QuietStep ==
    ASSUME ClaimInv, TypeOK', HandlerKnown', UNCHANGED ledger, UNCHANGED exchangeVars,
           \A v \in Workers : NoNewKnowledge(v)
    PROVE  ClaimInv'
<1> USE DEF ClaimInv, exchangeVars
<1>1. JobKnown' /\ ClaimOwned' /\ ClaimUnique'
  BY DEF JobKnown, ClaimOwned, ClaimUnique, NoNewKnowledge
<1>2. NotYetSent' /\ FillKnown' /\ StopKnown'
  BY DEF NotYetSent, FillKnown, StopKnown, NoNewKnowledge, Claimed, PreSend, AfterFill
<1>3. SentOnlyClaimed' /\ OrderNeedsPost' /\ PositionNeedsFill'
  BY DEF SentOnlyClaimed, OrderNeedsPost, PositionNeedsFill
<1>4. AtMostOneEntry' /\ LedgerNeverFlatters'
  BY DEF AtMostOneEntry, LedgerNeverFlatters
<1> QED
  BY <1>1, <1>2, <1>3, <1>4
\* Worker w writes status st for its claim and lets go of it.
Settles(w, st, label) ==
    /\ pc[w] \in Claimed
    /\ ledger' = [ledger EXCEPT ![job[w]] = st]
    /\ Goto(w, label)
    /\ UNCHANGED exchangeVars
    /\ st # "NONE"
    /\ label \notin Claimed \cup {"CLAIM", "CLAIM_COMMIT"}

\* Such a step keeps the invariant, if REJECTED is written only where the order
\* cannot live and FILLED_PROTECTED only where the stop was set.
LEMMA SettlingStep ==
    ASSUME ClaimInv, TypeOK', HandlerKnown',
           NEW w \in Workers, NEW s, NEW label, Settles(w, s, label),
           s = "REJECTED" => order[job[w]] \in {"NONE", "REFUSED", "REJECTED"},
           s = "FILLED_PROTECTED" => pc[w] = "SECURED"
    PROVE  ClaimInv'
<1> USE DEF exchangeVars, Settles
<1>1. /\ job[w] \in Proposals
      /\ ledger \in [Proposals -> LedgerStatus]
      /\ pc \in [Workers -> WorkerPc]
  BY DEF ClaimInv, JobKnown, TypeOK, RepoTypeOK
<1>2. /\ pc'[w] = label /\ job' = job
      /\ \A v \in Workers \ {w} : pc'[v] = pc[v]
      /\ ledger'[job[w]] = s
      /\ \A p \in Proposals \ {job[w]} : ledger'[p] = ledger[p]
  BY <1>1 DEF Goto
<1>3. \A v \in Workers : pc'[v] \in Claimed => v # w /\ pc[v] \in Claimed /\ job[v] # job[w]
  BY <1>2 DEF ClaimInv, ClaimUnique
<1>4. JobKnown' /\ ClaimOwned' /\ ClaimUnique'
  BY <1>2, <1>3 DEF ClaimInv, JobKnown, ClaimOwned, ClaimUnique
<1>5. NotYetSent' /\ FillKnown' /\ StopKnown'
  BY <1>2, <1>3 DEF ClaimInv, NotYetSent, FillKnown, StopKnown, Claimed, PreSend, AfterFill
<1>6. SentOnlyClaimed' /\ OrderNeedsPost' /\ AtMostOneEntry'
  BY <1>1, <1>2 DEF ClaimInv, SentOnlyClaimed, OrderNeedsPost, AtMostOneEntry
<1>7. PositionNeedsFill'
  BY <1>1, <1>2 DEF ClaimInv, PositionNeedsFill, FillKnown, AfterFill
<1>8. LedgerNeverFlatters'
  BY <1>1, <1>2 DEF ClaimInv, LedgerNeverFlatters, PositionNeedsFill, StopKnown, Filled
<1> QED
  BY <1>4, <1>5, <1>6, <1>7, <1>8 DEF ClaimInv

\* The claim itself: the unique ledger row makes its holder the only one.
LEMMA CommitClaimKeeps ==
    ASSUME ClaimInv, TypeOK', HandlerKnown', NEW w \in Workers, CommitClaim(w)
    PROVE  ClaimInv'
<1> USE DEF exchangeVars
<1>1. /\ job[w] \in Proposals
      /\ ledger \in [Proposals -> LedgerStatus]
      /\ pc \in [Workers -> WorkerPc]
  BY DEF ClaimInv, JobKnown, TypeOK, RepoTypeOK, CommitClaim
<1>2. /\ pc'[w] = "PREPARE" /\ job' = job
      /\ \A v \in Workers \ {w} : pc'[v] = pc[v]
      /\ ledger[job[w]] = "NONE" /\ ledger'[job[w]] = "PENDING"
      /\ \A p \in Proposals \ {job[w]} : ledger'[p] = ledger[p]
      /\ UNCHANGED <<order, posts, position, protected>>
  BY <1>1 DEF CommitClaim, ClaimCommit, Goto
<1>3. \A v \in Workers : pc[v] \in Claimed => job[v] # job[w]
  BY <1>2 DEF ClaimInv, ClaimOwned
<1>4. JobKnown' /\ ClaimOwned' /\ ClaimUnique'
  BY <1>1, <1>2, <1>3 DEF ClaimInv, JobKnown, ClaimOwned, ClaimUnique
<1>5. NotYetSent' /\ FillKnown' /\ StopKnown'
  BY <1>1, <1>2, <1>3
     DEF ClaimInv, NotYetSent, SentOnlyClaimed, FillKnown, StopKnown, AfterFill
<1>6. SentOnlyClaimed' /\ OrderNeedsPost' /\ PositionNeedsFill'
  BY <1>1, <1>2 DEF ClaimInv, SentOnlyClaimed, OrderNeedsPost, PositionNeedsFill
<1>7. AtMostOneEntry' /\ LedgerNeverFlatters'
  BY <1>1, <1>2 DEF ClaimInv, AtMostOneEntry, LedgerNeverFlatters
<1> QED
  BY <1>4, <1>5, <1>6, <1>7 DEF ClaimInv

\* The create request: its sender holds the claim and has sent nothing yet.
LEMMA PostEntryKeeps ==
    ASSUME ClaimInv, TypeOK', HandlerKnown', NEW w \in Workers, PostEntry(w)
    PROVE  ClaimInv'
<1>1. pc[w] \in Claimed /\ pc[w] \in PreSend
  BY DEF PostEntry, Claimed, PreSend
<1>2. /\ job[w] \in Proposals
      /\ order \in [Proposals -> OrderStatus] /\ posts \in [Proposals -> Nat]
      /\ pc \in [Workers -> WorkerPc]
      /\ ledger[job[w]] \in {"PENDING", "SUBMITTED"}
      /\ posts[job[w]] = 0 /\ order[job[w]] = "NONE"
  BY <1>1 DEF ClaimInv, JobKnown, TypeOK, ExchangeTypeOK, ClaimOwned, NotYetSent,
     OrderNeedsPost
<1>3. /\ pc'[w] = "RESPONSE" /\ job' = job
      /\ \A v \in Workers \ {w} : pc'[v] = pc[v]
      /\ posts'[job[w]] = 1 /\ order'[job[w]] = "SENT"
      /\ \A p \in Proposals \ {job[w]} : posts'[p] = posts[p] /\ order'[p] = order[p]
      /\ UNCHANGED <<ledger, position, protected>>
  BY <1>2 DEF PostEntry, PostCreate, Goto, repoVars
<1>4. \A v \in Workers : pc'[v] \in Claimed =>
          pc[v] \in Claimed /\ (v # w => job[v] # job[w])
  BY <1>1, <1>3 DEF ClaimInv, ClaimUnique
<1>5. JobKnown' /\ ClaimOwned' /\ ClaimUnique'
  BY <1>2, <1>3, <1>4 DEF ClaimInv, JobKnown, ClaimOwned, ClaimUnique
<1>6. NotYetSent' /\ FillKnown' /\ StopKnown'
  BY <1>3, <1>4 DEF ClaimInv, JobKnown, NotYetSent, FillKnown, StopKnown, Claimed, PreSend,
     AfterFill, SubmitStage
<1>7. SentOnlyClaimed' /\ OrderNeedsPost' /\ AtMostOneEntry'
  BY <1>2, <1>3 DEF ClaimInv, SentOnlyClaimed, OrderNeedsPost, AtMostOneEntry
<1>8. PositionNeedsFill' /\ LedgerNeverFlatters'
  BY <1>2, <1>3 DEF ClaimInv, PositionNeedsFill, LedgerNeverFlatters, Filled
<1> QED
  BY <1>5, <1>6, <1>7, <1>8 DEF ClaimInv
\* A recorded fill: the order has filled and can do nothing else.
LEMMA FillConfirmedKeeps ==
    ASSUME ClaimInv, TypeOK', HandlerKnown', NEW w \in Workers, FillConfirmed(w)
    PROVE  ClaimInv'
<1> USE DEF exchangeVars
<1>1. pc[w] \in Claimed
  BY DEF FillConfirmed, Claimed
<1>2. /\ job[w] \in Proposals
      /\ ledger \in [Proposals -> LedgerStatus]
      /\ pc \in [Workers -> WorkerPc]
      /\ order[job[w]] \in Filled
  BY <1>1 DEF ClaimInv, JobKnown, TypeOK, RepoTypeOK, FillConfirmed, Filled
<1>3. /\ pc'[w] = "PROTECT" /\ job' = job
      /\ \A v \in Workers \ {w} : pc'[v] = pc[v]
      /\ ledger'[job[w]] = "SUBMITTED"
      /\ \A p \in Proposals \ {job[w]} : ledger'[p] = ledger[p]
      /\ UNCHANGED <<order, posts, position, protected>>
  BY <1>2 DEF FillConfirmed, MarkFilled, UpdateExecution, Goto
<1>4. \A v \in Workers : pc'[v] \in Claimed =>
          pc[v] \in Claimed /\ (v # w => job[v] # job[w])
  BY <1>1, <1>3 DEF ClaimInv, ClaimUnique
<1>5. JobKnown' /\ ClaimOwned' /\ ClaimUnique'
  BY <1>2, <1>3, <1>4 DEF ClaimInv, JobKnown, ClaimOwned, ClaimUnique
<1>6. NotYetSent' /\ FillKnown' /\ StopKnown'
  BY <1>2, <1>3, <1>4 DEF ClaimInv, NotYetSent, FillKnown, StopKnown, PreSend, SubmitStage
<1>7. SentOnlyClaimed' /\ OrderNeedsPost' /\ PositionNeedsFill'
  BY <1>2, <1>3 DEF ClaimInv, SentOnlyClaimed, OrderNeedsPost, PositionNeedsFill
<1>8. AtMostOneEntry' /\ LedgerNeverFlatters'
  BY <1>2, <1>3 DEF ClaimInv, AtMostOneEntry, LedgerNeverFlatters
<1> QED
  BY <1>5, <1>6, <1>7, <1>8 DEF ClaimInv

\* The native stop is set; its worker knows it, or goes on to the emergency close.
LEMMA StopSetKeeps ==
    ASSUME ClaimInv, TypeOK', HandlerKnown', NEW w \in Workers,
           ProtectionInstalled(w) \/ ProtectionUnanswered(w)
    PROVE  ClaimInv'
<1>1. /\ pc[w] \in Claimed /\ pc[w] \in AfterFill
      /\ position[job[w]] = "OPEN"
  BY DEF ProtectionInstalled, ProtectionUnanswered, SetTradingStop, Claimed, AfterFill
<1>2. /\ job[w] \in Proposals
      /\ protected \in [Proposals -> BOOLEAN]
      /\ pc \in [Workers -> WorkerPc]
  BY <1>1 DEF ClaimInv, JobKnown, TypeOK, ExchangeTypeOK
<1>3. /\ pc'[w] \in {"SECURED", "CLOSE"} /\ job' = job
      /\ \A v \in Workers \ {w} : pc'[v] = pc[v]
      /\ protected' = [protected EXCEPT ![job[w]] = TRUE]
      /\ UNCHANGED <<ledger, order, posts, position>>
  BY <1>2 DEF ProtectionInstalled, ProtectionUnanswered, SetTradingStop, Goto, repoVars
<1>4. JobKnown' /\ ClaimOwned' /\ ClaimUnique'
  BY <1>1, <1>2, <1>3 DEF ClaimInv, JobKnown, ClaimOwned, ClaimUnique
<1>5. NotYetSent' /\ FillKnown' /\ StopKnown'
  BY <1>1, <1>2, <1>3 DEF ClaimInv, JobKnown, NotYetSent, FillKnown, StopKnown, PreSend,
     SubmitStage, Claimed
<1>6. SentOnlyClaimed' /\ OrderNeedsPost' /\ PositionNeedsFill' /\ AtMostOneEntry'
  BY <1>3 DEF ClaimInv, SentOnlyClaimed, OrderNeedsPost, PositionNeedsFill, AtMostOneEntry
<1>7. LedgerNeverFlatters'
  BY <1>2, <1>3 DEF ClaimInv, LedgerNeverFlatters
<1> QED
  BY <1>4, <1>5, <1>6, <1>7 DEF ClaimInv

\* Whatever the exchange does with an order, the ledger keeps its word.
LEMMA BybitKeeps ==
    ASSUME ClaimInv, TypeOK', HandlerKnown', NEW p \in Proposals, BybitStep(p)
    PROVE  ClaimInv'
<1> USE DEF repoVars, workerVars
<1>1. /\ order \in [Proposals -> OrderStatus] /\ position \in [Proposals -> PositionStatus]
      /\ protected \in [Proposals -> BOOLEAN]
      /\ UNCHANGED <<ledger, posts, pc, job>>
  BY DEF ClaimInv, TypeOK, ExchangeTypeOK, BybitStep, ExchangeStep, CreateArrives, OrderFills,
     OrderEndsUnfilled, PositionCloses
<1>2. /\ \A q \in Proposals \ {p} : /\ order'[q] = order[q] /\ position'[q] = position[q]
                                    /\ protected'[q] = protected[q]
      /\ \/ /\ order[p] = "SENT" /\ order'[p] \in {"NEW", "REFUSED"}
            /\ position'[p] = position[p] /\ protected'[p] = protected[p]
         \/ /\ order[p] = "NEW" /\ order'[p] \in Filled
            /\ position'[p] = "OPEN" /\ protected'[p] = protected[p]
         \/ /\ order[p] = "NEW" /\ order'[p] \in {"CANCELLED", "REJECTED"}
            /\ position'[p] = position[p] /\ protected'[p] = protected[p]
         \/ /\ position[p] = "OPEN" /\ position'[p] = "CLOSED"
            /\ order'[p] = order[p]
  <2>1. CASE CreateArrives(p)
    BY <1>1, <2>1 DEF CreateArrives
  <2>2. CASE OrderFills(p)
    BY <1>1, <2>2 DEF OrderFills, Filled
  <2>3. CASE OrderEndsUnfilled(p)
    BY <1>1, <2>3 DEF OrderEndsUnfilled
  <2>4. CASE PositionCloses(p)
    BY <1>1, <2>4 DEF PositionCloses
  <2> QED
    BY <2>1, <2>2, <2>3, <2>4 DEF BybitStep, ExchangeStep
<1>3. JobKnown' /\ ClaimOwned' /\ ClaimUnique' /\ NotYetSent' /\ SentOnlyClaimed'
  BY <1>1 DEF ClaimInv, JobKnown, ClaimOwned, ClaimUnique, NotYetSent, SentOnlyClaimed
<1>4. OrderNeedsPost' /\ AtMostOneEntry'
  BY <1>1, <1>2 DEF ClaimInv, OrderNeedsPost, AtMostOneEntry, PositionNeedsFill, Filled
<1>5. PositionNeedsFill'
  BY <1>1, <1>2 DEF ClaimInv, PositionNeedsFill, Filled
<1>6. FillKnown' /\ StopKnown'
  BY <1>1, <1>2 DEF ClaimInv, FillKnown, StopKnown, JobKnown, Claimed, AfterFill, Filled
<1>7. LedgerNeverFlatters'
  BY <1>1, <1>2 DEF ClaimInv, LedgerNeverFlatters, PositionNeedsFill, Filled
<1> QED
  BY <1>3, <1>4, <1>5, <1>6, <1>7 DEF ClaimInv
\* A worker's move to a label outside the claim teaches nobody anything.
LEMMA LeavingMove ==
    ASSUME TypeOK, NEW w \in Workers, NEW label,
           label \notin Claimed \cup {"CLAIM", "CLAIM_COMMIT"}, JobKnown, Goto(w, label)
    PROVE  \A v \in Workers : NoNewKnowledge(v)
  BY DEF TypeOK, Goto, NoNewKnowledge, JobKnown

\* Scanning leaves claims alone.
LEMMA CoordinatorKeeps ==
    ASSUME ClaimInv, TypeOK', HandlerKnown', NEW w \in Workers,
           CoordinatorStep(w) \/ ScanStep(w)
    PROVE  ClaimInv'
<1> USE DEF ClaimInv, repoVars, workerVars
<1>1. CASE Notify(w)
  BY <1>1, QuietStep DEF Notify, NoNewKnowledge, JobKnown
<1>2. ASSUME NEW p \in Proposals, ReadAccount(w, p) PROVE ClaimInv'
  BY <1>2, QuietStep DEF ReadAccount, NoNewKnowledge, JobKnown, TypeOK, Claimed, SubmitStage
<1>3. CASE ReleaseSlot(w)
  BY <1>3, QuietStep DEF ReleaseSlot, NoNewKnowledge, JobKnown
<1>4. CASE SignalWins(w)
  BY <1>4, QuietStep DEF SignalWins, NoNewKnowledge, JobKnown, TypeOK, Claimed, SubmitStage
<1>5. CASE SaveReady(w)
  BY <1>5, QuietStep, LeavingMove DEF SaveReady, InsertProposal, Claimed, SubmitStage
<1>6. CASE ScanEnds(w)
  BY <1>6, QuietStep, LeavingMove DEF ScanEnds, Claimed, SubmitStage
<1> QED
  BY <1>1, <1>2, <1>3, <1>4, <1>5, <1>6 DEF CoordinatorStep, ScanStep

\* The claim.
LEMMA ClaimKeeps ==
    ASSUME ClaimInv, TypeOK', HandlerKnown', NEW w \in Workers, ClaimStep(w)
    PROVE  ClaimInv'
<1> USE DEF repoVars
<1>1. CASE BeginExecution(w)
  BY <1>1, QuietStep, FrozenAssumption
     DEF ClaimInv, BeginExecution, NoNewKnowledge, JobKnown, TypeOK, Claimed, SubmitStage
<1>2. CASE ReadClaim(w)
  BY <1>2, QuietStep
     DEF ClaimInv, ReadClaim, Goto, NoNewKnowledge, JobKnown, TypeOK, Claimed, SubmitStage
<1>3. CASE CommitClaim(w)
  BY <1>3, CommitClaimKeeps
<1>4. CASE ClaimFails(w)
  BY <1>4, QuietStep, LeavingMove DEF ClaimInv, ClaimFails, Claimed, SubmitStage
<1> QED
  BY <1>1, <1>2, <1>3, <1>4 DEF ClaimStep

\* The submission, up to the recorded fill.
LEMMA SubmitKeeps ==
    ASSUME ClaimInv, TypeOK', HandlerKnown', NEW w \in Workers, SubmitStep(w)
    PROVE  ClaimInv'
<1> USE DEF Claimed, SubmitStage
<1>1. CASE StageAdvances(w)
  <2>1. AfterStage[pc[w]] \in PreSend
    BY <1>1 DEF StageAdvances, AfterStage, PreSend
  <2>2. \A v \in Workers : NoNewKnowledge(v)
    BY <1>1, <2>1
       DEF StageAdvances, Goto, NoNewKnowledge, ClaimInv, JobKnown, TypeOK, PreSend, AfterFill
  <2> QED
    BY <1>1, <2>2, QuietStep DEF StageAdvances, repoVars
<1>2. CASE StageFails(w)
  <2>1. Settles(w, "UNKNOWN", "KILL")
    BY <1>2 DEF StageFails, MarkUnknown, UpdateExecution, Settles
  <2> QED
    BY <2>1, SettlingStep
<1>3. CASE LeverageRefused(w)
  <2>1. Settles(w, "REJECTED", "KILL")
    BY <1>3 DEF LeverageRefused, MarkRejected, UpdateExecution, Settles
  <2>2. order[job[w]] \in {"NONE", "REFUSED", "REJECTED"}
    BY <1>3 DEF LeverageRefused, ClaimInv, NotYetSent, OrderNeedsPost, JobKnown, PreSend
  <2> QED
    BY <2>1, <2>2, SettlingStep
<1>4. CASE LossLimitReached(w)
  <2>1. \A v \in Workers : NoNewKnowledge(v)
    BY <1>4 DEF LossLimitReached, Goto, NoNewKnowledge, ClaimInv, JobKnown, TypeOK, PreSend,
       AfterFill
  <2> QED
    BY <1>4, <2>1, QuietStep DEF LossLimitReached, ActivateKillSwitch, recordVars
<1>5. CASE PostEntry(w)
  BY <1>5, PostEntryKeeps
<1>6. CASE EntryRefused(w)
  <2>1. Settles(w, "REJECTED", "KILL")
    BY <1>6 DEF EntryRefused, MarkRejected, UpdateExecution, Settles
  <2>2. order[job[w]] \in {"NONE", "REFUSED", "REJECTED"}
    BY <1>6 DEF EntryRefused
  <2> QED
    BY <2>1, <2>2, SettlingStep
<1>7. CASE EntryTimesOut(w)
  <2>1. Settles(w, "UNKNOWN", "KILL")
    BY <1>7 DEF EntryTimesOut, MarkUnknown, UpdateExecution, Settles
  <2> QED
    BY <2>1, SettlingStep
<1>8. CASE EntryAccepted(w)
  <2>1. \A v \in Workers : NoNewKnowledge(v)
    BY <1>8 DEF EntryAccepted, Goto, NoNewKnowledge, ClaimInv, JobKnown, TypeOK, PreSend,
       AfterFill
  <2> QED
    BY <1>8, <2>1, QuietStep DEF EntryAccepted, repoVars
<1>9. CASE FillConfirmed(w)
  BY <1>9, FillConfirmedKeeps
<1>10. CASE PollRejected(w)
  <2>1. Settles(w, "REJECTED", "KILL")
    BY <1>10 DEF PollRejected, MarkRejected, UpdateExecution, Settles
  <2>2. order[job[w]] \in {"NONE", "REFUSED", "REJECTED"}
    BY <1>10 DEF PollRejected
  <2> QED
    BY <2>1, <2>2, SettlingStep
<1>11. CASE FillNotConfirmed(w)
  <2>1. Settles(w, "UNKNOWN", "KILL")
    BY <1>11 DEF FillNotConfirmed, MarkUnknown, UpdateExecution, Settles
  <2> QED
    BY <2>1, SettlingStep
<1> QED
  BY <1>1, <1>2, <1>3, <1>4, <1>5, <1>6, <1>7, <1>8, <1>9, <1>10, <1>11 DEF SubmitStep

\* Protection and emergency close.
LEMMA SecureKeeps ==
    ASSUME ClaimInv, TypeOK', HandlerKnown', NEW w \in Workers, SecureStep(w)
    PROVE  ClaimInv'
<1> USE DEF Claimed, SubmitStage
<1>1. CASE ProtectionInstalled(w) \/ ProtectionUnanswered(w)
  BY <1>1, StopSetKeeps
<1>2. CASE RecordProtection(w)
  <2>1. Settles(w, "FILLED_PROTECTED", "RECONCILE")
    BY <1>2 DEF RecordProtection, MarkProtected, UpdateExecution, Settles
  <2>2. pc[w] = "SECURED"
    BY <1>2 DEF RecordProtection
  <2> QED
    BY <2>1, <2>2, SettlingStep
<1>3. CASE ProtectionFails(w)
  <2>1. \A v \in Workers : NoNewKnowledge(v)
    BY <1>3 DEF ProtectionFails, Goto, NoNewKnowledge, ClaimInv, JobKnown, TypeOK, PreSend,
       AfterFill
  <2> QED
    BY <1>3, <2>1, QuietStep DEF ProtectionFails, repoVars
<1>4. CASE EmergencyCloseAccepted(w)
  <2>1. Settles(w, "EMERGENCY_CLOSED", "KILL")
    BY <1>4 DEF EmergencyCloseAccepted, MarkEmergencyClosed, UpdateExecution, Settles
  <2> QED
    BY <2>1, SettlingStep
<1>5. CASE EmergencyCloseFails(w)
  <2>1. Settles(w, "UNKNOWN", "KILL")
    BY <1>5 DEF EmergencyCloseFails, MarkUnknown, UpdateExecution, Settles
  <2> QED
    BY <2>1, SettlingStep
<1> QED
  BY <1>1, <1>2, <1>3, <1>4, <1>5 DEF SecureStep

\* Reconciliation, halting and validation leave claims alone.
LEMMA OutcomeKeeps ==
    ASSUME ClaimInv, TypeOK', HandlerKnown', NEW w \in Workers, OutcomeStep(w)
    PROVE  ClaimInv'
<1> USE DEF ClaimInv, Claimed, SubmitStage, repoVars
<1>1. CASE ReconcileMatches(w)
  BY <1>1, QuietStep, LeavingMove DEF ReconcileMatches
<1>2. CASE ReconcileFails(w)
  BY <1>2, QuietStep, LeavingMove DEF ReconcileFails
<1>3. CASE KillAfterFailure(w)
  BY <1>3, QuietStep, LeavingMove DEF KillAfterFailure, ActivateKillSwitch, recordVars
<1>4. CASE HaltPhase(w)
  BY <1>4, QuietStep, LeavingMove DEF HaltPhase
<1>5. CASE ValidateFirstTrade(w)
  BY <1>5, QuietStep DEF ValidateFirstTrade, NoNewKnowledge, JobKnown, TypeOK
<1>6. CASE EnableAutomaticMode(w)
  BY <1>6, QuietStep, LeavingMove DEF EnableAutomaticMode, EnableAutomatic, recordVars
<1>7. CASE MarkValidated(w)
  BY <1>7, QuietStep, LeavingMove DEF MarkValidated
<1> QED
  BY <1>1, <1>2, <1>3, <1>4, <1>5, <1>6, <1>7 DEF OutcomeStep

\* The Telegram bot writes proposal rows and the phase record, never the ledger.
LEMMA TelegramKeeps ==
    ASSUME ClaimInv, TypeOK', HandlerKnown', TelegramStep
    PROVE  ClaimInv'
<1>1. UNCHANGED ledger /\ UNCHANGED exchangeVars /\ UNCHANGED workerVars
  BY DEF TelegramStep, TelegramReads, TelegramApproves, TelegramApprovesPhase, TelegramCancels,
     TelegramCancelsPhase, TelegramEmergency, RestartTelegram, ApproveCommit, CancelCommit,
     ActivateKillSwitch, recordVars, repoVars
<1>2. \A v \in Workers : NoNewKnowledge(v)
  BY <1>1 DEF workerVars, NoNewKnowledge, ClaimInv, JobKnown
<1> QED
  BY <1>1, <1>2, QuietStep
\* A restart forgets the claim's holder, never the claim.
LEMMA RestartKeeps ==
    ASSUME ClaimInv, TypeOK', HandlerKnown', NEW w \in Workers, RestartWorker(w)
    PROVE  ClaimInv'
<1>1. \A v \in Workers : NoNewKnowledge(v)
  BY DEF RestartWorker, NoNewKnowledge, ClaimInv, JobKnown, TypeOK, Claimed, SubmitStage
<1> QED
  BY <1>1, QuietStep DEF RestartWorker, repoVars

\* Every step keeps the invariant.
LEMMA NextClaimInv ==
    ASSUME ClaimInv, [Next]_vars
    PROVE  ClaimInv'
<1>1. TypeOK' /\ HandlerKnown'
  BY NextTypeOK DEF ClaimInv
<1>2. ASSUME NEW w \in Workers, CoordinatorStep(w) \/ ExecutionStep(w) \/ RestartWorker(w)
      PROVE  ClaimInv'
  BY <1>1, <1>2, CoordinatorKeeps, ClaimKeeps, SubmitKeeps, SecureKeeps, OutcomeKeeps,
     RestartKeeps DEF ExecutionStep
<1>3. CASE TelegramStep
  BY <1>1, <1>3, TelegramKeeps
<1>4. ASSUME NEW p \in Proposals, BybitStep(p) PROVE ClaimInv'
  BY <1>1, <1>4, BybitKeeps
<1>5. ASSUME NEW p \in Proposals, ApprovalAges(p) PROVE ClaimInv'
  <2>1. UNCHANGED ledger /\ UNCHANGED exchangeVars /\ UNCHANGED workerVars
    BY <1>5 DEF ApprovalAges, ApprovalExpires
  <2>2. \A v \in Workers : NoNewKnowledge(v)
    BY <2>1 DEF workerVars, NoNewKnowledge, ClaimInv, JobKnown
  <2> QED
    BY <1>1, <2>1, <2>2, QuietStep
<1>6. CASE UNCHANGED vars
  <2>1. UNCHANGED ledger /\ UNCHANGED exchangeVars /\ UNCHANGED workerVars
    BY <1>6 DEF vars, repoVars
  <2>2. \A v \in Workers : NoNewKnowledge(v)
    BY <2>1 DEF workerVars, NoNewKnowledge, ClaimInv, JobKnown
  <2> QED
    BY <1>1, <2>1, <2>2, QuietStep
<1> QED
  BY <1>2, <1>3, <1>4, <1>5, <1>6 DEF Next

\* The inductive invariant holds in every reachable state.
LEMMA ClaimInvariant == Spec => []ClaimInv
  BY InitClaimInv, NextClaimInv, PTL DEF Spec

\* execute_first_order never posts a client order id twice: not after a crash, an
\* unknown outcome or a restart, and not from two workers that overlap.
THEOREM NoDuplicateEntry == Spec => []AtMostOneEntry
<1>1. ClaimInv => AtMostOneEntry
  BY DEF ClaimInv
<1> QED
  BY <1>1, ClaimInvariant, PTL

\* A ledger row REJECTED never hides an order or a position, and a row
\* FILLED_PROTECTED never an unprotected one, whatever the exchange does later.
THEOREM LedgerIsHonest == Spec => []LedgerNeverFlatters
<1>1. ClaimInv => LedgerNeverFlatters
  BY DEF ClaimInv
<1> QED
  BY <1>1, ClaimInvariant, PTL

(***************************************************************************)
(* One worker at a time.  The theorems from here on hold while one worker  *)
(* process runs; two overlapping workers break each of them: the claim     *)
(* reads the entry lock and takes it later.                                *)
(*                                                                         *)
(* LockInv says what the lock stands for, RoomInv that an entry keeps the  *)
(* room the guard saw for it, HaltInv what the kill switch still lets      *)
(* through, and TrailInv what the phase record proves about its trade.     *)
(***************************************************************************)
\* One worker process at a time.
SoleWorker == \A v, w \in Workers : v = w

\* Where the claimed row is still PENDING.
Awaiting == PreSend \cup {"RESPONSE", "POLL"}

\* Between picking a proposal up and the last write about it.
Holding == Claimed \cup {"CLAIM", "CLAIM_COMMIT", "RECONCILE"}

\* Where the guard has seen room for the entry and the entry has not left.
Admitted == {"ORDERS", "CREATE"}

\* Where the guard has seen the kill switch off and the entry has not left.
Authorized == {"POSITIONS"} \cup Admitted

Live == {"SENT", "NEW"}

(***************************************************************************)
(* The entry lock                                                          *)
(***************************************************************************)
LockCoversOpenRows == \A p \in Proposals : Unresolved(p) => inProgress

OneOpenRow == \A p, q \in Proposals : Unresolved(p) /\ Unresolved(q) => p = q

\* The lock that the claim read free is still free when it commits.
LockReadIsCurrent == \A w \in Workers : pc[w] = "CLAIM_COMMIT" => ~inProgress

RowFollowsWorker ==
    \A w \in Workers :
        /\ pc[w] \in Awaiting  => ledger[job[w]] = "PENDING"
        /\ pc[w] \in AfterFill => ledger[job[w]] = "SUBMITTED"

ClosedWasFilled == \A p \in Proposals : ledger[p] = "EMERGENCY_CLOSED" => order[p] \in Filled

LockInv ==
    /\ LockCoversOpenRows
    /\ OneOpenRow
    /\ LockReadIsCurrent
    /\ RowFollowsWorker
    /\ ClosedWasFilled

(***************************************************************************)
(* Room on the exchange                                                    *)
(***************************************************************************)
Room(p) == Cardinality(OpenPositions) < MaxPositions /\ SymbolFree(p)

\* What the guard saw of positions stays true until the entry has filled.
RoomIsKept ==
    /\ \A p \in Proposals : order[p] \in Live => Room(p)
    /\ \A w \in Workers : pc[w] \in Admitted => Room(job[w])

RoomInv == PositionLimits /\ RoomIsKept

(***************************************************************************)
(* The kill switch                                                         *)
(***************************************************************************)
\* The one late entry was the last that was authorized.
HaltInv ==
    /\ AtMostOneLateEntry
    /\ lateEntries # 0 => killSwitch /\ \A w \in Workers : pc[w] \notin Authorized

(***************************************************************************)
(* The phase record and the first trade                                    *)
(***************************************************************************)
SlotProtected == slot \in Proposals /\ ledger[slot] = "FILLED_PROTECTED"

SlotIsHeld == \A w \in Workers : pc[w] \in Holding => slot = job[w]

ReconcileIsProtected == \A w \in Workers : pc[w] = "RECONCILE" => SlotProtected

AwaitingIsProtected == phase = "EXECUTED_AWAITING_RESTART_VALIDATION" => SlotProtected

\* A record written after the start of the first worker has none started after it.
RestartIsReal == restarts = 0 => startedAfter = {} \/ phase = "WAITING_FOR_SIGNAL"

ValidatedIsReal ==
    \A w \in Workers : pc[w] = "ENABLE" => SlotProtected /\ restarts > 0

TrailInv ==
    /\ SlotIsHeld
    /\ ReconcileIsProtected
    /\ AwaitingIsProtected
    /\ RestartIsReal
    /\ ValidatedIsReal

SoleInv == LockInv /\ RoomInv /\ HaltInv /\ TrailInv

\* All of it holds in empty tables with idle workers.
LEMMA InitSoleInv == Init => SoleInv
<1> SUFFICES ASSUME Init PROVE SoleInv
  OBVIOUS
<1>1. \A w \in Workers : pc[w] = "IDLE"
  BY DEF Init
<1>2. \A p \in Proposals : /\ ledger[p] = "NONE" /\ order[p] = "NONE"
                           /\ position[p] = "NONE"
  BY DEF Init, RepoInit, ExchangeInit
<1>3. LockInv
  BY <1>1, <1>2 DEF LockInv, LockCoversOpenRows, OneOpenRow, LockReadIsCurrent,
     RowFollowsWorker, ClosedWasFilled, Unresolved, UnresolvedStatus, Awaiting, PreSend,
     SubmitStage, AfterFill
<1>4. RoomInv
  <2>1. OpenPositions = {}
    BY <1>2 DEF OpenPositions
  <2>2. PositionLimits
    BY <2>1, FS_EmptySet, FrozenAssumption DEF PositionLimits
  <2> QED
    BY <1>1, <1>2, <2>2 DEF RoomInv, RoomIsKept, Live, Admitted
<1>5. HaltInv
  BY DEF Init, HaltInv, AtMostOneLateEntry
<1>6. TrailInv
  BY <1>1 DEF Init, TrailInv, SlotIsHeld, ReconcileIsProtected, AwaitingIsProtected,
     RestartIsReal, ValidatedIsReal, Holding, Claimed, SubmitStage
<1> QED
  BY <1>3, <1>4, <1>5, <1>6 DEF SoleInv

(***************************************************************************)
(* The lock is kept                                                        *)
(***************************************************************************)

\* Worker v learns nothing about the lock or its row that it did not know.
LockMove(v) ==
    /\ pc'[v] = "CLAIM_COMMIT" => pc[v] = "CLAIM_COMMIT" \/ ~inProgress
    /\ pc'[v] \in Awaiting  => pc[v] \in Awaiting /\ job'[v] = job[v]
    /\ pc'[v] \in AfterFill => pc[v] \in AfterFill /\ job'[v] = job[v]

\* A step that writes neither rows nor lock and undoes no fill.
LEMMA LockQuiet ==
    ASSUME LockInv, UNCHANGED <<ledger, inProgress>>,
           \A p \in Proposals : order[p] \in Filled => order'[p] \in Filled,
           \A v \in Workers : LockMove(v)
    PROVE  LockInv'
<1>1. LockCoversOpenRows' /\ OneOpenRow'
  BY DEF LockInv, LockCoversOpenRows, OneOpenRow, Unresolved
<1>2. LockReadIsCurrent' /\ RowFollowsWorker'
  BY DEF LockInv, LockReadIsCurrent, RowFollowsWorker, LockMove
<1>3. ClosedWasFilled'
  BY DEF LockInv, ClosedWasFilled
<1> QED
  BY <1>1, <1>2, <1>3 DEF LockInv

\* A worker that writes the outcome of its claim: the claimed row was the only open
\* one, so the lock may be released with it.
LEMMA LockSettles ==
    ASSUME SoleWorker, ClaimInv, LockInv, NEW w \in Workers, NEW s, NEW label,
           Settles(w, s, label),
           s \in UnresolvedStatus => UNCHANGED inProgress,
           s = "EMERGENCY_CLOSED" => pc[w] \in AfterFill
    PROVE  LockInv'
<1> USE DEF Settles, exchangeVars
<1>1. /\ job[w] \in Proposals
      /\ ledger \in [Proposals -> LedgerStatus]
      /\ pc \in [Workers -> WorkerPc]
      /\ Unresolved(job[w])
  BY DEF ClaimInv, JobKnown, ClaimOwned, TypeOK, RepoTypeOK, Unresolved, UnresolvedStatus
<1>2. /\ \A v \in Workers : pc'[v] = label
      /\ ledger'[job[w]] = s
      /\ \A p \in Proposals \ {job[w]} : ledger'[p] = ledger[p] /\ ~Unresolved(p)
  BY <1>1 DEF Goto, SoleWorker, LockInv, OneOpenRow
<1>3. LockCoversOpenRows'
  BY <1>1, <1>2 DEF LockInv, LockCoversOpenRows, Unresolved
<1>4. OneOpenRow'
  BY <1>1, <1>2 DEF OneOpenRow, Unresolved
<1>5. LockReadIsCurrent' /\ RowFollowsWorker'
  BY <1>2 DEF LockReadIsCurrent, RowFollowsWorker, Claimed, Awaiting, PreSend, AfterFill
<1>6. ClosedWasFilled'
  BY <1>1, <1>2 DEF LockInv, ClosedWasFilled, ClaimInv, FillKnown
<1> QED
  BY <1>3, <1>4, <1>5, <1>6 DEF LockInv

\* The claim: nothing else is open, and nobody has taken the lock since it was read.
LEMMA LockCommits ==
    ASSUME SoleWorker, ClaimInv, LockInv, NEW w \in Workers, CommitClaim(w)
    PROVE  LockInv'
<1> USE DEF exchangeVars
<1>1. /\ job[w] \in Proposals
      /\ ledger \in [Proposals -> LedgerStatus]
      /\ pc \in [Workers -> WorkerPc]
  BY DEF ClaimInv, JobKnown, TypeOK, RepoTypeOK, CommitClaim
<1>2. \A p \in Proposals : ~Unresolved(p)
  BY DEF LockInv, LockReadIsCurrent, LockCoversOpenRows, CommitClaim
<1>3. /\ \A v \in Workers : v = w /\ pc'[v] = "PREPARE" /\ job' = job
      /\ ledger'[job[w]] = "PENDING"
      /\ \A p \in Proposals \ {job[w]} : ledger'[p] = ledger[p]
      /\ inProgress' = TRUE
      /\ UNCHANGED order
  BY <1>1 DEF CommitClaim, ClaimCommit, Goto, SoleWorker
<1>4. LockCoversOpenRows' /\ OneOpenRow'
  BY <1>2, <1>3 DEF LockCoversOpenRows, OneOpenRow, Unresolved
<1>5. LockReadIsCurrent' /\ RowFollowsWorker'
  BY <1>3 DEF LockReadIsCurrent, RowFollowsWorker, AfterFill
<1>6. ClosedWasFilled'
  BY <1>3 DEF LockInv, ClosedWasFilled
<1> QED
  BY <1>4, <1>5, <1>6 DEF LockInv

\* A recorded fill keeps its row open.
LEMMA LockFills ==
    ASSUME SoleWorker, ClaimInv, LockInv, NEW w \in Workers, FillConfirmed(w)
    PROVE  LockInv'
<1> USE DEF exchangeVars
<1>1. /\ job[w] \in Proposals
      /\ ledger \in [Proposals -> LedgerStatus]
      /\ pc \in [Workers -> WorkerPc]
      /\ Unresolved(job[w])
  BY DEF ClaimInv, JobKnown, ClaimOwned, TypeOK, RepoTypeOK, FillConfirmed, Claimed,
     Unresolved, UnresolvedStatus
<1>2. /\ \A v \in Workers : v = w /\ pc'[v] = "PROTECT" /\ job' = job
      /\ ledger'[job[w]] = "SUBMITTED"
      /\ \A p \in Proposals \ {job[w]} : ledger'[p] = ledger[p]
      /\ UNCHANGED <<inProgress, order>>
  BY <1>1 DEF FillConfirmed, MarkFilled, UpdateExecution, Goto, SoleWorker
<1>3. LockCoversOpenRows' /\ OneOpenRow'
  BY <1>1, <1>2 DEF LockInv, LockCoversOpenRows, OneOpenRow, Unresolved
<1>4. LockReadIsCurrent' /\ RowFollowsWorker'
  BY <1>2 DEF LockReadIsCurrent, RowFollowsWorker, Awaiting, PreSend, SubmitStage
<1>5. ClosedWasFilled'
  BY <1>2 DEF LockInv, ClosedWasFilled
<1> QED
  BY <1>3, <1>4, <1>5 DEF LockInv

\* A worker's move to a label outside the claim teaches it nothing about the lock.
LEMMA LockLeaving ==
    ASSUME TypeOK, NEW w \in Workers, NEW label,
           label \notin Claimed \cup {"CLAIM_COMMIT"}, Goto(w, label)
    PROVE  \A v \in Workers : LockMove(v)
  BY DEF TypeOK, Goto, LockMove, Claimed, Awaiting, PreSend, AfterFill

\* Scanning leaves the lock alone.
LEMMA CoordinatorLock ==
    ASSUME ClaimInv, LockInv, NEW w \in Workers, CoordinatorStep(w) \/ ScanStep(w)
    PROVE  LockInv'
<1> USE DEF ClaimInv, repoVars, flagVars, exchangeVars, workerVars, Claimed, SubmitStage
<1>1. CASE Notify(w)
  BY <1>1, LockQuiet DEF Notify, LockMove
<1>2. ASSUME NEW p \in Proposals, ReadAccount(w, p) PROVE LockInv'
  BY <1>2, LockQuiet DEF ReadAccount, LockMove, TypeOK, Awaiting, PreSend, AfterFill
<1>3. CASE ReleaseSlot(w)
  BY <1>3, LockQuiet DEF ReleaseSlot, LockMove
<1>4. CASE SignalWins(w)
  BY <1>4, LockQuiet DEF SignalWins, LockMove, TypeOK, Awaiting, PreSend, AfterFill
<1>5. CASE SaveReady(w)
  BY <1>5, LockQuiet, LockLeaving DEF SaveReady, InsertProposal
<1>6. CASE ScanEnds(w)
  BY <1>6, LockQuiet, LockLeaving DEF ScanEnds
<1> QED
  BY <1>1, <1>2, <1>3, <1>4, <1>5, <1>6 DEF CoordinatorStep, ScanStep

\* The claim reads the lock free, and takes it.
LEMMA ClaimLock ==
    ASSUME SoleWorker, ClaimInv, LockInv, NEW w \in Workers, ClaimStep(w)
    PROVE  LockInv'
<1> USE DEF repoVars, exchangeVars
<1>1. CASE BeginExecution(w)
  BY <1>1, LockQuiet
     DEF ClaimInv, BeginExecution, LockMove, TypeOK, Awaiting, PreSend, AfterFill, SubmitStage
<1>2. CASE ReadClaim(w)
  BY <1>2, LockQuiet
     DEF ClaimInv, ReadClaim, ClaimReadable, EntryLockFree, Goto, LockMove, TypeOK, Awaiting,
         PreSend, AfterFill, SubmitStage
<1>3. CASE CommitClaim(w)
  BY <1>3, LockCommits
<1>4. CASE ClaimFails(w)
  BY <1>4, LockQuiet, LockLeaving DEF ClaimInv, ClaimFails, Claimed, SubmitStage
<1> QED
  BY <1>1, <1>2, <1>3, <1>4 DEF ClaimStep

\* The submission holds the lock until it knows the outcome.
LEMMA SubmitLock ==
    ASSUME SoleWorker, ClaimInv, LockInv, NEW w \in Workers, SubmitStep(w)
    PROVE  LockInv'
<1> USE DEF Claimed, SubmitStage, Settles, UnresolvedStatus
<1>1. CASE StageAdvances(w)
  <2>1. AfterStage[pc[w]] \in PreSend
    BY <1>1 DEF StageAdvances, AfterStage, PreSend
  <2>2. \A v \in Workers : LockMove(v)
    BY <1>1, <2>1 DEF StageAdvances, Goto, LockMove, ClaimInv, TypeOK, Awaiting, PreSend,
       AfterFill
  <2> QED
    BY <1>1, <2>2, LockQuiet DEF StageAdvances, repoVars, exchangeVars
<1>2. CASE StageFails(w)
  BY <1>2, LockSettles DEF StageFails, MarkUnknown, UpdateExecution
<1>3. CASE LeverageRefused(w)
  BY <1>3, LockSettles DEF LeverageRefused, MarkRejected, UpdateExecution
<1>4. CASE LossLimitReached(w)
  <2>1. \A v \in Workers : LockMove(v)
    BY <1>4 DEF LossLimitReached, Goto, LockMove, ClaimInv, TypeOK, Awaiting, PreSend, AfterFill
  <2> QED
    BY <1>4, <2>1, LockQuiet
       DEF LossLimitReached, ActivateKillSwitch, recordVars, flagVars, exchangeVars
<1>5. CASE PostEntry(w)
  <2>1. \A v \in Workers : LockMove(v)
    BY <1>5 DEF PostEntry, Goto, LockMove, ClaimInv, TypeOK, Awaiting, PreSend, AfterFill
  <2>2. \A p \in Proposals : order[p] \in Filled => order'[p] \in Filled
    BY <1>5 DEF PostEntry, PostCreate, ClaimInv, TypeOK, ExchangeTypeOK, Filled
  <2> QED
    BY <1>5, <2>1, <2>2, LockQuiet DEF PostEntry, repoVars
<1>6. CASE EntryRefused(w)
  BY <1>6, LockSettles DEF EntryRefused, MarkRejected, UpdateExecution
<1>7. CASE EntryTimesOut(w)
  BY <1>7, LockSettles DEF EntryTimesOut, MarkUnknown, UpdateExecution
<1>8. CASE EntryAccepted(w)
  <2>1. \A v \in Workers : LockMove(v)
    BY <1>8 DEF EntryAccepted, Goto, LockMove, ClaimInv, TypeOK, Awaiting, PreSend, AfterFill
  <2> QED
    BY <1>8, <2>1, LockQuiet DEF EntryAccepted, repoVars, exchangeVars
<1>9. CASE FillConfirmed(w)
  BY <1>9, LockFills
<1>10. CASE PollRejected(w)
  BY <1>10, LockSettles DEF PollRejected, MarkRejected, UpdateExecution
<1>11. CASE FillNotConfirmed(w)
  BY <1>11, LockSettles DEF FillNotConfirmed, MarkUnknown, UpdateExecution
<1> QED
  BY <1>1, <1>2, <1>3, <1>4, <1>5, <1>6, <1>7, <1>8, <1>9, <1>10, <1>11 DEF SubmitStep

\* Protection and emergency close release it only with a settled row.
LEMMA SecureLock ==
    ASSUME SoleWorker, ClaimInv, LockInv, NEW w \in Workers, SecureStep(w)
    PROVE  LockInv'
<1> USE DEF Claimed, SubmitStage, Settles, UnresolvedStatus
<1>1. CASE ProtectionInstalled(w) \/ ProtectionUnanswered(w) \/ ProtectionFails(w)
  <2>1. \A v \in Workers : LockMove(v)
    BY <1>1 DEF ProtectionInstalled, ProtectionUnanswered, ProtectionFails, Goto, LockMove,
       ClaimInv, TypeOK, Awaiting, PreSend, AfterFill
  <2> QED
    BY <1>1, <2>1, LockQuiet DEF ProtectionInstalled, ProtectionUnanswered, ProtectionFails,
       SetTradingStop, repoVars, exchangeVars
<1>2. CASE RecordProtection(w)
  BY <1>2, LockSettles DEF RecordProtection, MarkProtected, UpdateExecution
<1>3. CASE EmergencyCloseAccepted(w)
  BY <1>3, LockSettles
     DEF EmergencyCloseAccepted, MarkEmergencyClosed, UpdateExecution, AfterFill
<1>4. CASE EmergencyCloseFails(w)
  BY <1>4, LockSettles DEF EmergencyCloseFails, MarkUnknown, UpdateExecution
<1> QED
  BY <1>1, <1>2, <1>3, <1>4 DEF SecureStep

\* Reconciliation, halting and validation leave the lock alone.
LEMMA OutcomeLock ==
    ASSUME ClaimInv, LockInv, NEW w \in Workers, OutcomeStep(w)
    PROVE  LockInv'
<1> USE DEF ClaimInv, Claimed, SubmitStage, repoVars, flagVars, recordVars, exchangeVars
<1>1. CASE ReconcileMatches(w)
  BY <1>1, LockQuiet, LockLeaving DEF ReconcileMatches
<1>2. CASE ReconcileFails(w)
  BY <1>2, LockQuiet, LockLeaving DEF ReconcileFails
<1>3. CASE KillAfterFailure(w)
  BY <1>3, LockQuiet, LockLeaving DEF KillAfterFailure, ActivateKillSwitch
<1>4. CASE HaltPhase(w)
  BY <1>4, LockQuiet, LockLeaving DEF HaltPhase
<1>5. CASE ValidateFirstTrade(w)
  BY <1>5, LockQuiet DEF ValidateFirstTrade, LockMove, TypeOK, Awaiting, PreSend, AfterFill
<1>6. CASE EnableAutomaticMode(w)
  BY <1>6, LockQuiet, LockLeaving DEF EnableAutomaticMode, EnableAutomatic
<1>7. CASE MarkValidated(w)
  BY <1>7, LockQuiet, LockLeaving DEF MarkValidated
<1> QED
  BY <1>1, <1>2, <1>3, <1>4, <1>5, <1>6, <1>7 DEF OutcomeStep

\* Nor do the bot, a restart, the exchange and the clock.
LEMMA OthersLock ==
    ASSUME ClaimInv, LockInv,
           \/ TelegramStep \/ UNCHANGED vars
           \/ \E w \in Workers : RestartWorker(w)
           \/ \E p \in Proposals : BybitStep(p) \/ ApprovalAges(p)
    PROVE  LockInv'
<1> USE DEF repoVars, flagVars, recordVars, workerVars
<1>1. CASE TelegramStep
  <2>1. UNCHANGED <<ledger, inProgress, exchangeVars, workerVars>>
    BY <1>1 DEF TelegramStep, TelegramReads, TelegramApproves, TelegramApprovesPhase,
       TelegramCancels, TelegramCancelsPhase, TelegramEmergency, RestartTelegram,
       ApproveCommit, CancelCommit, ActivateKillSwitch
  <2> QED
    BY <2>1, LockQuiet DEF exchangeVars, LockMove
<1>2. CASE UNCHANGED vars
  BY <1>2, LockQuiet DEF vars, exchangeVars, LockMove
<1>3. ASSUME NEW w \in Workers, RestartWorker(w) PROVE LockInv'
  BY <1>3, LockQuiet DEF RestartWorker, exchangeVars, LockMove, ClaimInv, TypeOK, Awaiting,
     PreSend, AfterFill, SubmitStage
<1>4. ASSUME NEW p \in Proposals, BybitStep(p) PROVE LockInv'
  <2>1. \A q \in Proposals : order[q] \in Filled => order'[q] \in Filled
    BY <1>4 DEF BybitStep, ExchangeStep, CreateArrives, OrderFills, OrderEndsUnfilled,
       PositionCloses, ClaimInv, TypeOK, ExchangeTypeOK, Filled
  <2> QED
    BY <1>4, <2>1, LockQuiet DEF BybitStep, LockMove
<1>5. ASSUME NEW p \in Proposals, ApprovalAges(p) PROVE LockInv'
  BY <1>5, LockQuiet DEF ApprovalAges, ApprovalExpires, exchangeVars, LockMove
<1> QED
  BY <1>1, <1>2, <1>3, <1>4, <1>5

\* Every step keeps the lock.
LEMMA NextLockInv ==
    ASSUME SoleWorker, ClaimInv, LockInv, [Next]_vars
    PROVE  LockInv'
<1>1. ASSUME NEW w \in Workers, CoordinatorStep(w) \/ ExecutionStep(w) PROVE LockInv'
  BY <1>1, CoordinatorLock, ClaimLock, SubmitLock, SecureLock, OutcomeLock DEF ExecutionStep
<1> QED
  BY <1>1, OthersLock DEF Next

(***************************************************************************)
(* The path implements the abstract ledger                                 *)
(***************************************************************************)

\* A step that writes neither rows nor requests is invisible in the abstract ledger.
AbstractStutters == UNCHANGED <<ledger, posts>>

AbstractStep == Abstract!Next \/ AbstractStutters

\* The outcome of a claim is a refusal, a surrender or a settlement.
LEMMA SettlementRefines ==
    ASSUME ClaimInv, LockInv, NEW w \in Workers, NEW s, NEW label, Settles(w, s, label),
           \/ s = "REJECTED" /\ pc[w] \in Awaiting
           \/ s = "UNKNOWN"
           \/ s \in {"FILLED_PROTECTED", "EMERGENCY_CLOSED"} /\ pc[w] \in AfterFill
    PROVE  Abstract!Next
<1> USE DEF Settles, exchangeVars
<1>1. job[w] \in Proposals /\ UNCHANGED posts
  BY DEF ClaimInv, JobKnown
<1>2. ledger[job[w]] \in {"PENDING", "SUBMITTED"}
  BY DEF ClaimInv, ClaimOwned
<1>3. CASE s = "REJECTED" /\ pc[w] \in Awaiting
  <2>1. Abstract!Refuse(job[w])
    BY <1>1, <1>3 DEF LockInv, RowFollowsWorker, Abstract!Refuse
  <2> QED
    BY <1>1, <2>1 DEF Abstract!Next
<1>4. CASE s = "UNKNOWN"
  <2>1. Abstract!GiveUp(job[w])
    BY <1>1, <1>2, <1>4 DEF Abstract!GiveUp
  <2> QED
    BY <1>1, <2>1 DEF Abstract!Next
<1>5. CASE s \in {"FILLED_PROTECTED", "EMERGENCY_CLOSED"} /\ pc[w] \in AfterFill
  <2>1. Abstract!Settle(job[w])
    BY <1>1, <1>5 DEF LockInv, RowFollowsWorker, Abstract!Settle
  <2> QED
    BY <1>1, <2>1 DEF Abstract!Next
<1> QED
  BY <1>3, <1>4, <1>5

\* The claim claims: the lock was free, so no row is open.
LEMMA CommitRefines ==
    ASSUME ClaimInv, LockInv, NEW w \in Workers, CommitClaim(w)
    PROVE  Abstract!Next
<1>1. job[w] \in Proposals
  BY DEF ClaimInv, JobKnown, CommitClaim
<1>2. \A p \in Proposals : ledger[p] \notin Abstract!Open
  BY DEF LockInv, LockReadIsCurrent, LockCoversOpenRows, CommitClaim, Unresolved,
     UnresolvedStatus, Abstract!Open
<1>3. Abstract!Claim(job[w])
  BY <1>1, <1>2 DEF CommitClaim, ClaimCommit, exchangeVars, Abstract!Claim
<1> QED
  BY <1>1, <1>3 DEF Abstract!Next

\* The create request sends, once and under its claim.
LEMMA PostRefines ==
    ASSUME ClaimInv, LockInv, NEW w \in Workers, PostEntry(w)
    PROVE  Abstract!Next
<1>1. pc[w] \in Claimed /\ pc[w] \in PreSend /\ pc[w] \in Awaiting
  BY DEF PostEntry, Claimed, PreSend, Awaiting
<1>2. /\ job[w] \in Proposals
      /\ ledger[job[w]] = "PENDING"
      /\ posts[job[w]] = 0
      /\ posts \in [Proposals -> Nat]
  BY <1>1 DEF ClaimInv, JobKnown, NotYetSent, TypeOK, ExchangeTypeOK, LockInv,
     RowFollowsWorker
<1>3. UNCHANGED ledger /\ posts' = [posts EXCEPT ![job[w]] = 1]
  BY <1>2 DEF PostEntry, PostCreate, repoVars
<1>4. PICK p \in Proposals : p = job[w]
  BY <1>2
<1>5. /\ posts'[p] > 0
      /\ \A q \in Proposals \ {p} : posts'[q] = posts[q]
  BY <1>2, <1>3, <1>4
<1>6. {q \in Proposals : posts'[q] > 0} = {q \in Proposals : posts[q] > 0} \cup {p}
  BY <1>5
<1>7. Abstract!Send(p)
  BY <1>2, <1>3, <1>4, <1>6 DEF Abstract!Send
<1> QED
  BY <1>7 DEF Abstract!Next

\* A fill is confirmed only for an entry that was sent.
LEMMA FillRefines ==
    ASSUME ClaimInv, LockInv, NEW w \in Workers, FillConfirmed(w)
    PROVE  Abstract!Next
<1>1. pc[w] \in Claimed /\ pc[w] \in Awaiting
  BY DEF FillConfirmed, Claimed, Awaiting
<1>2. /\ job[w] \in Proposals
      /\ ledger[job[w]] = "PENDING"
      /\ posts \in [Proposals -> Nat]
  BY <1>1 DEF ClaimInv, JobKnown, TypeOK, ExchangeTypeOK, LockInv, RowFollowsWorker
<1>3. posts[job[w]] > 0
  BY <1>2 DEF FillConfirmed, ClaimInv, OrderNeedsPost
<1>4. Abstract!Confirm(job[w])
  BY <1>2, <1>3 DEF FillConfirmed, MarkFilled, UpdateExecution, exchangeVars, Abstract!Confirm
<1> QED
  BY <1>2, <1>4 DEF Abstract!Next

\* The steps of the submission map to steps of the abstract ledger.
LEMMA SubmitRefines ==
    ASSUME ClaimInv, LockInv, NEW w \in Workers, SubmitStep(w)
    PROVE  AbstractStep
<1> USE DEF Claimed, SubmitStage, Settles, AbstractStep, AbstractStutters
<1>1. CASE StageAdvances(w) \/ LossLimitReached(w) \/ EntryAccepted(w)
  BY <1>1 DEF StageAdvances, LossLimitReached, EntryAccepted, ActivateKillSwitch, recordVars,
     repoVars, exchangeVars
<1>2. CASE StageFails(w)
  BY <1>2, SettlementRefines DEF StageFails, MarkUnknown, UpdateExecution
<1>3. CASE LeverageRefused(w)
  BY <1>3, SettlementRefines
     DEF LeverageRefused, MarkRejected, UpdateExecution, Awaiting, PreSend
<1>4. CASE PostEntry(w)
  BY <1>4, PostRefines
<1>5. CASE EntryRefused(w)
  BY <1>5, SettlementRefines DEF EntryRefused, MarkRejected, UpdateExecution, Awaiting
<1>6. CASE EntryTimesOut(w)
  BY <1>6, SettlementRefines DEF EntryTimesOut, MarkUnknown, UpdateExecution
<1>7. CASE FillConfirmed(w)
  BY <1>7, FillRefines
<1>8. CASE PollRejected(w)
  BY <1>8, SettlementRefines DEF PollRejected, MarkRejected, UpdateExecution, Awaiting
<1>9. CASE FillNotConfirmed(w)
  BY <1>9, SettlementRefines DEF FillNotConfirmed, MarkUnknown, UpdateExecution
<1> QED
  BY <1>1, <1>2, <1>3, <1>4, <1>5, <1>6, <1>7, <1>8, <1>9 DEF SubmitStep

\* So do protection and emergency close.
LEMMA SecureRefines ==
    ASSUME ClaimInv, LockInv, NEW w \in Workers, SecureStep(w)
    PROVE  AbstractStep
<1> USE DEF Claimed, SubmitStage, Settles, AbstractStep, AbstractStutters
<1>1. CASE ProtectionInstalled(w) \/ ProtectionUnanswered(w) \/ ProtectionFails(w)
  BY <1>1 DEF ProtectionInstalled, ProtectionUnanswered, ProtectionFails, SetTradingStop,
     repoVars, exchangeVars
<1>2. CASE RecordProtection(w)
  BY <1>2, SettlementRefines DEF RecordProtection, MarkProtected, UpdateExecution, AfterFill
<1>3. CASE EmergencyCloseAccepted(w)
  BY <1>3, SettlementRefines
     DEF EmergencyCloseAccepted, MarkEmergencyClosed, UpdateExecution, AfterFill
<1>4. CASE EmergencyCloseFails(w)
  BY <1>4, SettlementRefines DEF EmergencyCloseFails, MarkUnknown, UpdateExecution
<1> QED
  BY <1>1, <1>2, <1>3, <1>4 DEF SecureStep

\* Every step of the path is a step of the abstract ledger or a stutter.
LEMMA StepRefines ==
    ASSUME ClaimInv, LockInv, [Next]_vars
    PROVE  AbstractStep
<1> USE DEF AbstractStutters, repoVars, recordVars, exchangeVars
<1>1. ASSUME NEW w \in Workers, CoordinatorStep(w) \/ ScanStep(w) \/ RestartWorker(w)
      PROVE  AbstractStutters
  BY <1>1 DEF CoordinatorStep, Notify, ReadAccount, ScanStep, ReleaseSlot, SignalWins,
     SaveReady, InsertProposal, ScanEnds, RestartWorker
<1>2. ASSUME NEW w \in Workers, ClaimStep(w) PROVE AbstractStep
  BY <1>2, CommitRefines
     DEF ClaimStep, BeginExecution, ReadClaim, ClaimFails, AbstractStep
<1>3. ASSUME NEW w \in Workers, OutcomeStep(w) PROVE AbstractStutters
  BY <1>3 DEF OutcomeStep, ReconcileMatches, ReconcileFails, KillAfterFailure, HaltPhase,
     ValidateFirstTrade, EnableAutomaticMode, EnableAutomatic, MarkValidated,
     ActivateKillSwitch
<1>4. CASE TelegramStep \/ UNCHANGED vars
  BY <1>4 DEF TelegramStep, TelegramReads, TelegramApproves, TelegramApprovesPhase,
     TelegramCancels, TelegramCancelsPhase, TelegramEmergency, RestartTelegram, ApproveCommit,
     CancelCommit, ActivateKillSwitch, AbstractStep, vars
<1>5. ASSUME NEW p \in Proposals, BybitStep(p) \/ ApprovalAges(p) PROVE AbstractStutters
  BY <1>5 DEF BybitStep, ExchangeStep, CreateArrives, OrderFills, OrderEndsUnfilled,
     PositionCloses, ApprovalAges, ApprovalExpires
<1> QED
  BY <1>1, <1>2, <1>3, <1>4, <1>5, SubmitRefines, SecureRefines
     DEF Next, ExecutionStep, AbstractStep

(***************************************************************************)
(* Room on the exchange is kept                                            *)
(***************************************************************************)

\* An order that can still fill has an open row.
LEMMA LiveIsOpen ==
    ASSUME ClaimInv, LockInv, NEW p \in Proposals, order[p] \in Live
    PROVE  Unresolved(p)
<1>1. posts[p] # 0 /\ ledger[p] # "NONE" /\ ledger[p] \in LedgerStatus
  BY DEF ClaimInv, OrderNeedsPost, SentOnlyClaimed, TypeOK, RepoTypeOK, Live
<1>2. ledger[p] \notin {"REJECTED", "FILLED_PROTECTED", "EMERGENCY_CLOSED"}
  BY DEF ClaimInv, LedgerNeverFlatters, PositionNeedsFill, LockInv, ClosedWasFilled, Live,
     Filled
<1> QED
  BY <1>1, <1>2 DEF LedgerStatus, Unresolved, UnresolvedStatus

\* An entry that is admitted or can still fill is the only one.
LEMMA OneEntryInFlight ==
    ASSUME ClaimInv, LockInv, NEW p \in Proposals, order[p] \in Live
    PROVE  /\ \A q \in Proposals : order[q] \in Live => q = p
           /\ \A w \in Workers : pc[w] \notin Admitted
<1>1. \A q \in Proposals : order[q] \in Live => q = p
  BY LiveIsOpen DEF LockInv, OneOpenRow
<1>2. ASSUME NEW w \in Workers, pc[w] \in Admitted PROVE FALSE
  <2>1. pc[w] \in Claimed /\ pc[w] \in PreSend
    BY <1>2 DEF Admitted, Claimed, PreSend, SubmitStage
  <2>2. job[w] \in Proposals /\ Unresolved(job[w])
    BY <2>1 DEF ClaimInv, JobKnown, ClaimOwned, Unresolved, UnresolvedStatus
  <2>3. job[w] = p
    BY <2>2, LiveIsOpen DEF LockInv, OneOpenRow
  <2>4. order[p] = "NONE"
    BY <2>1, <2>2, <2>3 DEF ClaimInv, NotYetSent, OrderNeedsPost
  <2> QED
    BY <2>4 DEF Live
<1> QED
  BY <1>1, <1>2

\* There are finitely many positions.
LEMMA PositionsFinite ==
    IsFiniteSet(OpenPositions) /\ Cardinality(OpenPositions) \in Nat
<1>1. IsFiniteSet(OpenPositions)
  BY IdentityAssumption, FS_Subset DEF OpenPositions
<1> QED
  BY <1>1, FS_CardinalityType

\* A step that opens no position, makes no order live and admits no entry.
LEMMA RoomQuiet ==
    ASSUME RoomInv, UNCHANGED position,
           \A p \in Proposals : order'[p] \in Live => order[p] \in Live,
           \A v \in Workers : pc'[v] \in Admitted => pc[v] \in Admitted /\ job'[v] = job[v]
    PROVE  RoomInv'
<1>1. PositionLimits'
  BY DEF RoomInv, PositionLimits, OpenPositions
<1>2. RoomIsKept'
  BY DEF RoomInv, RoomIsKept, Room, SymbolFree, SymbolHasPosition, OpenPositions
<1> QED
  BY <1>1, <1>2 DEF RoomInv

\* The guard admits an entry where it sees room.
LEMMA AdmissionKeepsRoom ==
    ASSUME SoleWorker, ClaimInv, LockInv, RoomInv, NEW w \in Workers, StageAdvances(w)
    PROVE  RoomInv'
<1> USE DEF StageAdvances, exchangeVars
<1>1. pc \in [Workers -> WorkerPc] /\ UNCHANGED <<order, position, job>>
  BY DEF ClaimInv, TypeOK, Goto
<1>2. \A v \in Workers : v = w /\ pc'[v] = AfterStage[pc[w]]
  BY <1>1 DEF Goto, SoleWorker
<1>3. CASE pc[w] = "POSITIONS"
  <2>1. Room(job[w])
    BY <1>3 DEF StagePasses, Room, PositionCapacity
  <2>2. PositionLimits'
    BY <1>1 DEF RoomInv, PositionLimits, OpenPositions
  <2>3. RoomIsKept'
    BY <1>1, <1>2, <2>1
       DEF RoomInv, RoomIsKept, Room, SymbolFree, SymbolHasPosition, OpenPositions
  <2> QED
    BY <2>2, <2>3 DEF RoomInv
<1>4. CASE pc[w] # "POSITIONS"
  <2>1. pc'[w] \in Admitted => pc[w] \in Admitted
    BY <1>2, <1>4 DEF AfterStage, SubmitStage, Admitted
  <2> QED
    BY <1>1, <1>2, <2>1, RoomQuiet
<1> QED
  BY <1>3, <1>4

\* The admitted entry leaves; its order inherits the room.
LEMMA PostKeepsRoom ==
    ASSUME SoleWorker, ClaimInv, RoomInv, NEW w \in Workers, PostEntry(w)
    PROVE  RoomInv'
<1>1. pc[w] \in Claimed /\ pc[w] \in Admitted
  BY DEF PostEntry, Claimed, Admitted
<1>2. /\ job[w] \in Proposals
      /\ pc \in [Workers -> WorkerPc]
      /\ order \in [Proposals -> OrderStatus]
  BY <1>1 DEF ClaimInv, JobKnown, TypeOK, ExchangeTypeOK
<1>3. /\ \A v \in Workers : pc'[v] = "RESPONSE"
      /\ \A p \in Proposals \ {job[w]} : order'[p] = order[p]
      /\ UNCHANGED position
  BY <1>2 DEF PostEntry, PostCreate, Goto, SoleWorker
<1>4. Room(job[w])
  BY <1>1 DEF RoomInv, RoomIsKept
<1>5. PositionLimits'
  BY <1>3 DEF RoomInv, PositionLimits, OpenPositions
<1>6. RoomIsKept'
  BY <1>3, <1>4
     DEF RoomInv, RoomIsKept, Room, SymbolFree, SymbolHasPosition, OpenPositions, Admitted
<1> QED
  BY <1>5, <1>6 DEF RoomInv

\* The fill takes the room that was kept for it, and no other entry was in flight.
LEMMA FillKeepsRoom ==
    ASSUME ClaimInv, LockInv, RoomInv, NEW p \in Proposals, OrderFills(p),
           UNCHANGED workerVars
    PROVE  RoomInv'
<1>1. /\ order \in [Proposals -> OrderStatus]
      /\ position \in [Proposals -> PositionStatus]
  BY DEF ClaimInv, TypeOK, ExchangeTypeOK
<1>2. /\ order[p] \in Live /\ order'[p] \notin Live
      /\ \A q \in Proposals \ {p} : order'[q] = order[q]
      /\ position' = [position EXCEPT ![p] = "OPEN"]
  BY <1>1 DEF OrderFills, Live
<1>3. OpenPositions' = OpenPositions \cup {p}
  BY <1>1, <1>2 DEF OpenPositions
<1>4. Room(p)
  BY <1>2 DEF RoomInv, RoomIsKept
<1>5. Cardinality(OpenPositions') <= MaxPositions
  <2>1. Cardinality(OpenPositions \cup {p}) \in {Cardinality(OpenPositions),
                                                 Cardinality(OpenPositions) + 1}
    BY PositionsFinite, FS_AddElement
  <2> QED
    BY <1>3, <1>4, <2>1, PositionsFinite, FrozenAssumption DEF Room
<1>6. \A q, r \in OpenPositions' : SymbolOf[q] = SymbolOf[r] => q = r
  BY <1>3, <1>4 DEF RoomInv, PositionLimits, Room, SymbolFree, SymbolHasPosition
<1>7. PositionLimits'
  BY <1>5, <1>6 DEF PositionLimits
<1>8. RoomIsKept'
  BY <1>2, OneEntryInFlight DEF RoomIsKept, workerVars
<1> QED
  BY <1>7, <1>8 DEF RoomInv

\* A position that closes makes room.
LEMMA CloseKeepsRoom ==
    ASSUME ClaimInv, RoomInv, NEW p \in Proposals, PositionCloses(p), UNCHANGED workerVars
    PROVE  RoomInv'
<1>1. position \in [Proposals -> PositionStatus]
  BY DEF ClaimInv, TypeOK, ExchangeTypeOK
<1>2. OpenPositions' \subseteq OpenPositions /\ UNCHANGED order
  BY <1>1 DEF PositionCloses, OpenPositions
<1>3. Cardinality(OpenPositions') \in Nat
      /\ Cardinality(OpenPositions') <= Cardinality(OpenPositions)
  BY <1>2, PositionsFinite, FS_Subset, FS_CardinalityType
<1>4. PositionLimits'
  BY <1>2, <1>3, PositionsFinite, FrozenAssumption DEF RoomInv, PositionLimits
<1>5. \A q : Room(q) => Room(q)'
  BY <1>2, <1>3, PositionsFinite, FrozenAssumption DEF Room, SymbolFree, SymbolHasPosition
<1>6. RoomIsKept'
  BY <1>2, <1>5 DEF RoomInv, RoomIsKept, workerVars
<1> QED
  BY <1>4, <1>6 DEF RoomInv

\* Every step keeps the limits of the profile.
LEMMA NextRoomInv ==
    ASSUME SoleWorker, ClaimInv, LockInv, RoomInv, [Next]_vars
    PROVE  RoomInv'
<1> USE DEF exchangeVars
<1>1. ASSUME NEW w \in Workers,
             CoordinatorStep(w) \/ ScanStep(w) \/ OutcomeStep(w) \/ RestartWorker(w)
      PROVE  RoomInv'
  <2>1. UNCHANGED exchangeVars
    BY <1>1 DEF CoordinatorStep, Notify, ReadAccount, ScanStep, ReleaseSlot, SignalWins,
       SaveReady, ScanEnds, OutcomeStep, ReconcileMatches, ReconcileFails, KillAfterFailure,
       HaltPhase, ValidateFirstTrade, EnableAutomaticMode, MarkValidated, RestartWorker
  <2>2. \A v \in Workers : pc'[v] \in Admitted => pc[v] \in Admitted /\ job'[v] = job[v]
    BY <1>1 DEF CoordinatorStep, Notify, ReadAccount, ScanStep, ReleaseSlot, SignalWins,
       SaveReady, ScanEnds, OutcomeStep, ReconcileMatches, ReconcileFails, KillAfterFailure,
       HaltPhase, ValidateFirstTrade, EnableAutomaticMode, MarkValidated, RestartWorker, Goto,
       workerVars, Admitted, ClaimInv, TypeOK
  <2> QED
    BY <2>1, <2>2, RoomQuiet
<1>2. ASSUME NEW w \in Workers, ClaimStep(w) \/ SecureStep(w)
      PROVE  RoomInv'
  <2>1. UNCHANGED <<order, position>>
    BY <1>2 DEF ClaimStep, BeginExecution, ReadClaim, CommitClaim, ClaimFails, SecureStep,
       ProtectionInstalled, RecordProtection, ProtectionUnanswered, ProtectionFails,
       EmergencyCloseAccepted, EmergencyCloseFails, SetTradingStop
  <2>2. \A v \in Workers : pc'[v] \in Admitted => pc[v] \in Admitted /\ job'[v] = job[v]
    BY <1>2 DEF ClaimStep, BeginExecution, ReadClaim, CommitClaim, ClaimFails, SecureStep,
       ProtectionInstalled, RecordProtection, ProtectionUnanswered, ProtectionFails,
       EmergencyCloseAccepted, EmergencyCloseFails, Goto, Admitted, ClaimInv, TypeOK
  <2> QED
    BY <2>1, <2>2, RoomQuiet
<1>3. ASSUME NEW w \in Workers, SubmitStep(w)
      PROVE  RoomInv'
  <2>1. CASE StageAdvances(w)
    BY <2>1, AdmissionKeepsRoom
  <2>2. CASE PostEntry(w)
    BY <2>2, PostKeepsRoom
  <2>3. CASE ~StageAdvances(w) /\ ~PostEntry(w)
    <3>1. UNCHANGED <<order, position>>
      BY <1>3, <2>3 DEF SubmitStep, StageFails, LeverageRefused, LossLimitReached,
         EntryRefused, EntryTimesOut, EntryAccepted, FillConfirmed, PollRejected,
         FillNotConfirmed
    <3>2. \A v \in Workers : pc'[v] \in Admitted => pc[v] \in Admitted /\ job'[v] = job[v]
      BY <1>3, <2>3 DEF SubmitStep, StageFails, LeverageRefused, LossLimitReached,
         EntryRefused, EntryTimesOut, EntryAccepted, FillConfirmed, PollRejected,
         FillNotConfirmed, Goto, Admitted, ClaimInv, TypeOK
    <3> QED
      BY <3>1, <3>2, RoomQuiet
  <2> QED
    BY <2>1, <2>2, <2>3
<1>4. ASSUME NEW p \in Proposals, BybitStep(p)
      PROVE  RoomInv'
  <2>1. UNCHANGED workerVars
    BY <1>4 DEF BybitStep
  <2>2. CASE CreateArrives(p) \/ OrderEndsUnfilled(p)
    <3>1. \A q \in Proposals : order'[q] \in Live => order[q] \in Live
      BY <2>2 DEF CreateArrives, OrderEndsUnfilled, ClaimInv, TypeOK, ExchangeTypeOK, Live
    <3> QED
      BY <2>1, <2>2, <3>1, RoomQuiet DEF CreateArrives, OrderEndsUnfilled, workerVars
  <2> QED
    BY <1>4, <2>1, <2>2, FillKeepsRoom, CloseKeepsRoom DEF BybitStep, ExchangeStep
<1>5. CASE TelegramStep \/ UNCHANGED vars \/ \E p \in Proposals : ApprovalAges(p)
  <2>1. UNCHANGED exchangeVars /\ UNCHANGED workerVars
    BY <1>5 DEF TelegramStep, TelegramReads, TelegramApproves, TelegramApprovesPhase,
       TelegramCancels, TelegramCancelsPhase, TelegramEmergency, RestartTelegram,
       ApprovalAges, vars
  <2> QED
    BY <2>1, RoomQuiet DEF workerVars
<1> QED
  BY <1>1, <1>2, <1>3, <1>4, <1>5 DEF Next, ExecutionStep

(***************************************************************************)
(* At most one entry leaves after the kill switch                          *)
(***************************************************************************)

\* The kill switch is never cleared and only PostEntry counts late entries; an
\* entry is authorized only while the switch is off.
LEMMA HaltQuiet ==
    ASSUME HaltInv, UNCHANGED lateEntries, killSwitch => killSwitch',
           killSwitch => \A v \in Workers : pc'[v] \in Authorized => pc[v] \in Authorized
    PROVE  HaltInv'
  BY DEF HaltInv, AtMostOneLateEntry

LEMMA NextHaltInv ==
    ASSUME SoleWorker, ClaimInv, HaltInv, [Next]_vars
    PROVE  HaltInv'
<1> USE DEF repoVars, recordVars, flagVars, workerVars
<1>1. ASSUME NEW w \in Workers, PostEntry(w)
      PROVE  HaltInv'
  <2>1. /\ \A v \in Workers : pc'[v] = "RESPONSE"
        /\ UNCHANGED killSwitch
        /\ lateEntries' = lateEntries + (IF killSwitch THEN 1 ELSE 0)
    BY <1>1 DEF PostEntry, Goto, SoleWorker, ClaimInv, TypeOK
  <2>2. lateEntries = 0
    BY <1>1 DEF PostEntry, HaltInv, Authorized, Admitted
  <2>3. killSwitch => lateEntries' = 1
    BY <2>1, <2>2
  <2>4. ~killSwitch => lateEntries' = 0
    BY <2>1, <2>2
  <2> QED
    BY <2>1, <2>3, <2>4 DEF HaltInv, AtMostOneLateEntry, Authorized, Admitted
<1>2. ASSUME NEW w \in Workers, SubmitStep(w), ~PostEntry(w)
      PROVE  HaltInv'
  <2>1. UNCHANGED lateEntries /\ (killSwitch => killSwitch')
    BY <1>2 DEF SubmitStep, StageAdvances, StageFails, LeverageRefused, LossLimitReached,
       EntryRefused, EntryTimesOut, EntryAccepted, FillConfirmed, PollRejected,
       FillNotConfirmed, ActivateKillSwitch, MarkUnknown, MarkRejected, MarkFilled,
       UpdateExecution
  <2>2. CASE StageAdvances(w)
    <3>1. killSwitch /\ pc'[w] \in Authorized => pc[w] \in Authorized
      BY <2>2 DEF StageAdvances, StagePasses, AfterStage, SubmitStage, Goto, Authorized,
         Admitted, ClaimInv, TypeOK
    <3> QED
      BY <2>1, <2>2, <3>1, HaltQuiet DEF StageAdvances, Goto, ClaimInv, TypeOK
  <2>3. CASE ~StageAdvances(w)
    <3>1. \A v \in Workers : pc'[v] \in Authorized => pc[v] \in Authorized
      BY <1>2, <2>3 DEF SubmitStep, StageFails, LeverageRefused, LossLimitReached,
         EntryRefused, EntryTimesOut, EntryAccepted, FillConfirmed, PollRejected,
         FillNotConfirmed, Goto, Authorized, Admitted, ClaimInv, TypeOK
    <3> QED
      BY <2>1, <3>1, HaltQuiet
  <2> QED
    BY <2>2, <2>3
<1>3. ASSUME NEW w \in Workers,
             CoordinatorStep(w) \/ ScanStep(w) \/ ClaimStep(w) \/ SecureStep(w)
             \/ OutcomeStep(w) \/ RestartWorker(w)
      PROVE  HaltInv'
  <2>1. UNCHANGED lateEntries /\ (killSwitch => killSwitch')
    BY <1>3 DEF CoordinatorStep, Notify, ReadAccount, ScanStep, ReleaseSlot, SignalWins,
       SaveReady, InsertProposal, ScanEnds, ClaimStep, BeginExecution, ReadClaim, CommitClaim,
       ClaimCommit, ClaimFails, SecureStep, ProtectionInstalled, RecordProtection,
       ProtectionUnanswered, ProtectionFails, EmergencyCloseAccepted, EmergencyCloseFails,
       MarkProtected, MarkEmergencyClosed, MarkUnknown, UpdateExecution, OutcomeStep,
       ReconcileMatches, ReconcileFails, KillAfterFailure, ActivateKillSwitch, HaltPhase,
       ValidateFirstTrade, EnableAutomaticMode, EnableAutomatic, MarkValidated, RestartWorker
  <2>2. \A v \in Workers : pc'[v] \in Authorized => pc[v] \in Authorized
    BY <1>3 DEF CoordinatorStep, Notify, ReadAccount, ScanStep, ReleaseSlot, SignalWins,
       SaveReady, ScanEnds, ClaimStep, BeginExecution, ReadClaim, CommitClaim, ClaimFails,
       SecureStep, ProtectionInstalled, RecordProtection, ProtectionUnanswered,
       ProtectionFails, EmergencyCloseAccepted, EmergencyCloseFails, OutcomeStep,
       ReconcileMatches, ReconcileFails, KillAfterFailure, HaltPhase, ValidateFirstTrade,
       EnableAutomaticMode, MarkValidated, RestartWorker, Goto, Authorized, Admitted,
       ClaimInv, TypeOK
  <2> QED
    BY <2>1, <2>2, HaltQuiet
<1>4. CASE TelegramStep \/ UNCHANGED vars
           \/ \E p \in Proposals : BybitStep(p) \/ ApprovalAges(p)
  <2>1. /\ UNCHANGED lateEntries /\ (killSwitch => killSwitch')
        /\ UNCHANGED workerVars
    BY <1>4 DEF TelegramStep, TelegramReads, TelegramApproves, TelegramApprovesPhase,
       TelegramCancels, TelegramCancelsPhase, TelegramEmergency, RestartTelegram,
       ApproveCommit, CancelCommit, ActivateKillSwitch, BybitStep, ApprovalAges,
       ApprovalExpires, vars
  <2> QED
    BY <2>1, HaltQuiet
<1> QED
  BY <1>1, <1>2, <1>3, <1>4 DEF Next, ExecutionStep

(***************************************************************************)
(* What the phase record proves about its trade                            *)
(***************************************************************************)

\* A row that is protected stays so: the abstract ledger moves only forward.
LEMMA ProtectedRowStays ==
    ASSUME ClaimInv, LockInv, [Next]_vars,
           NEW p \in Proposals, ledger[p] = "FILLED_PROTECTED"
    PROVE  ledger'[p] = "FILLED_PROTECTED"
<1> USE DEF AbstractStutters
<1>1. ledger \in [Proposals -> LedgerStatus]
  BY DEF ClaimInv, TypeOK, RepoTypeOK
<1>2. CASE Abstract!Next
  BY <1>1, <1>2 DEF Abstract!Next, Abstract!Claim, Abstract!Send, Abstract!Confirm,
     Abstract!Refuse, Abstract!GiveUp, Abstract!Settle
<1> QED
  BY <1>2, StepRefines DEF AbstractStep

\* Worker v begins no hold, no reconciliation and no validation.
TrailMove(v) ==
    /\ pc'[v] \in Holding => pc[v] \in Holding /\ job'[v] = job[v]
    /\ pc'[v] = "RECONCILE" => pc[v] = "RECONCILE"
    /\ pc'[v] = "ENABLE" => pc[v] = "ENABLE"

\* The phase record keeps its slot, and is untouched or written to a status that
\* does not await validation.
PhaseMove ==
    /\ UNCHANGED slot
    /\ \/ UNCHANGED <<phase, startedAfter>>
       \/ /\ startedAfter' = {}
          /\ phase' = phase \/ phase' # "EXECUTED_AWAITING_RESTART_VALIDATION"

LEMMA TrailQuiet ==
    ASSUME ClaimInv, LockInv, TrailInv, [Next]_vars, UNCHANGED restarts \/ restarts' > 0,
           PhaseMove, \A v \in Workers : TrailMove(v)
    PROVE  TrailInv'
<1>1. restarts \in Nat
  BY DEF ClaimInv, TypeOK
<1>2. SlotProtected => SlotProtected'
  BY ProtectedRowStays DEF SlotProtected, PhaseMove
<1>3. SlotIsHeld' /\ ReconcileIsProtected'
  BY <1>2 DEF TrailInv, SlotIsHeld, ReconcileIsProtected, TrailMove, PhaseMove
<1>4. AwaitingIsProtected' /\ RestartIsReal'
  BY <1>1, <1>2 DEF TrailInv, AwaitingIsProtected, RestartIsReal, PhaseMove
<1>5. ValidatedIsReal'
  BY <1>1, <1>2 DEF TrailInv, ValidatedIsReal, TrailMove
<1> QED
  BY <1>3, <1>4, <1>5 DEF TrailInv

\* A step of the sole worker after which it holds nothing, with the phase record
\* written to a status that does not await validation.
LEMMA TrailEnds ==
    ASSUME \A v \in Workers : pc'[v] \notin Holding \cup {"ENABLE"},
           startedAfter' = {}, phase' # "EXECUTED_AWAITING_RESTART_VALIDATION"
    PROVE  TrailInv'
  BY DEF TrailInv, SlotIsHeld, ReconcileIsProtected, AwaitingIsProtected, RestartIsReal,
     ValidatedIsReal, Holding

\* The coordinator.
LEMMA CoordinatorTrail ==
    ASSUME SoleWorker, ClaimInv, LockInv, TrailInv, [Next]_vars, NEW w \in Workers,
           CoordinatorStep(w) \/ ScanStep(w)
    PROVE  TrailInv'
<1> USE DEF phaseVars, workerVars
<1>1. pc \in [Workers -> WorkerPc] /\ \A v \in Workers : v = w
  BY DEF ClaimInv, TypeOK, SoleWorker
<1>2. CASE Notify(w)
  BY <1>2, TrailQuiet DEF Notify, PhaseMove, TrailMove
<1>3. ASSUME NEW p \in Proposals, ReadAccount(w, p) PROVE TrailInv'
  BY <1>1, <1>3, TrailQuiet
     DEF ReadAccount, PhaseMove, TrailMove, Holding, Claimed, SubmitStage
<1>4. CASE ReleaseSlot(w)
  BY <1>1, <1>4, TrailEnds DEF ReleaseSlot, Holding, Claimed, SubmitStage
<1>5. CASE SignalWins(w)
  BY <1>1, <1>5, TrailQuiet
     DEF SignalWins, PhaseMove, TrailMove, Holding, Claimed, SubmitStage
<1>6. CASE SaveReady(w)
  BY <1>1, <1>6, TrailEnds DEF SaveReady, Goto, Holding, Claimed, SubmitStage
<1>7. CASE ScanEnds(w)
  BY <1>1, <1>7, TrailQuiet
     DEF ScanEnds, Goto, PhaseMove, TrailMove, Holding, Claimed, SubmitStage
<1> QED
  BY <1>2, <1>3, <1>4, <1>5, <1>6, <1>7 DEF CoordinatorStep, ScanStep

\* The claim begins the hold on the slot's proposal.
LEMMA ClaimTrail ==
    ASSUME SoleWorker, ClaimInv, LockInv, TrailInv, [Next]_vars, NEW w \in Workers,
           ClaimStep(w)
    PROVE  TrailInv'
<1> USE DEF phaseVars
<1>1. /\ pc \in [Workers -> WorkerPc] /\ job \in [Workers -> Proposals \cup {NoProposal}]
      /\ \A v \in Workers : v = w
  BY DEF ClaimInv, TypeOK, SoleWorker
<1>2. CASE BeginExecution(w)
  <2>1. pc'[w] = "CLAIM" /\ job'[w] = slot /\ UNCHANGED <<phaseVars, ledger, restarts>>
    BY <1>1, <1>2 DEF BeginExecution, repoVars
  <2>2. SlotIsHeld' /\ ReconcileIsProtected' /\ ValidatedIsReal'
    BY <1>1, <2>1 DEF SlotIsHeld, ReconcileIsProtected, ValidatedIsReal
  <2>3. AwaitingIsProtected' /\ RestartIsReal'
    BY <2>1 DEF TrailInv, AwaitingIsProtected, SlotProtected, RestartIsReal
  <2> QED
    BY <2>2, <2>3 DEF TrailInv
<1>3. CASE ReadClaim(w) \/ CommitClaim(w) \/ ClaimFails(w)
  <2>1. \A v \in Workers : TrailMove(v)
    BY <1>1, <1>3 DEF ReadClaim, CommitClaim, ClaimFails, Goto, TrailMove, Holding, Claimed,
       SubmitStage
  <2> QED
    BY <1>3, <2>1, TrailQuiet DEF ReadClaim, CommitClaim, ClaimFails, PhaseMove
<1> QED
  BY <1>2, <1>3 DEF ClaimStep

\* The submission keeps it.
LEMMA SubmitTrail ==
    ASSUME SoleWorker, ClaimInv, LockInv, TrailInv, [Next]_vars, NEW w \in Workers,
           SubmitStep(w)
    PROVE  TrailInv'
<1>1. pc \in [Workers -> WorkerPc] /\ \A v \in Workers : v = w
  BY DEF ClaimInv, TypeOK, SoleWorker
<1>2. \A v \in Workers : TrailMove(v)
  <2>1. CASE StageAdvances(w)
    BY <1>1, <2>1 DEF StageAdvances, AfterStage, Goto, TrailMove, Holding, Claimed,
       SubmitStage
  <2>2. CASE ~StageAdvances(w)
    BY <1>1, <2>2 DEF SubmitStep, StageFails, LeverageRefused, LossLimitReached, PostEntry,
       EntryRefused, EntryTimesOut, EntryAccepted, FillConfirmed, PollRejected,
       FillNotConfirmed, Goto, TrailMove, Holding, Claimed, SubmitStage
  <2> QED
    BY <2>1, <2>2
<1>3. UNCHANGED <<phaseVars, restarts>>
  BY DEF SubmitStep, StageAdvances, StageFails, LeverageRefused, LossLimitReached, PostEntry,
     EntryRefused, EntryTimesOut, EntryAccepted, FillConfirmed, PollRejected, FillNotConfirmed
<1> QED
  BY <1>2, <1>3, TrailQuiet DEF phaseVars, PhaseMove

\* A recorded protection is what reconciliation looks at.
LEMMA SecureTrail ==
    ASSUME SoleWorker, ClaimInv, LockInv, TrailInv, [Next]_vars, NEW w \in Workers,
           SecureStep(w)
    PROVE  TrailInv'
<1> USE DEF phaseVars
<1>1. pc \in [Workers -> WorkerPc] /\ \A v \in Workers : v = w
  BY DEF ClaimInv, TypeOK, SoleWorker
<1>2. UNCHANGED <<phaseVars, restarts, job>>
  BY DEF SecureStep, ProtectionInstalled, RecordProtection, ProtectionUnanswered,
     ProtectionFails, EmergencyCloseAccepted, EmergencyCloseFails, Goto
<1>3. CASE RecordProtection(w)
  <2>1. slot = job[w] /\ job[w] \in Proposals /\ ledger \in [Proposals -> LedgerStatus]
    BY <1>3 DEF RecordProtection, TrailInv, SlotIsHeld, Holding, Claimed, ClaimInv, JobKnown,
       TypeOK, RepoTypeOK
  <2>2. pc'[w] = "RECONCILE" /\ SlotProtected'
    BY <1>1, <1>2, <1>3, <2>1
       DEF RecordProtection, MarkProtected, UpdateExecution, Goto, SlotProtected
  <2>3. SlotIsHeld' /\ ReconcileIsProtected' /\ ValidatedIsReal'
    BY <1>1, <1>2, <2>1, <2>2 DEF SlotIsHeld, ReconcileIsProtected, ValidatedIsReal
  <2>4. AwaitingIsProtected' /\ RestartIsReal'
    BY <1>2, <2>2 DEF TrailInv, AwaitingIsProtected, RestartIsReal
  <2> QED
    BY <2>3, <2>4 DEF TrailInv
<1>4. CASE ~RecordProtection(w)
  <2>1. \A v \in Workers : TrailMove(v)
    BY <1>1, <1>4 DEF SecureStep, ProtectionInstalled, ProtectionUnanswered, ProtectionFails,
       EmergencyCloseAccepted, EmergencyCloseFails, Goto, TrailMove, Holding, Claimed,
       SubmitStage
  <2> QED
    BY <1>2, <2>1, TrailQuiet DEF PhaseMove
<1> QED
  BY <1>3, <1>4

\* Reconciliation hands a protected trade to the phase record; validation takes it
\* from there, in a process started after the record was written.
LEMMA OutcomeTrail ==
    ASSUME SoleWorker, ClaimInv, LockInv, TrailInv, [Next]_vars, NEW w \in Workers,
           OutcomeStep(w)
    PROVE  TrailInv'
<1> USE DEF phaseVars
<1>1. pc \in [Workers -> WorkerPc] /\ \A v \in Workers : v = w
  BY DEF ClaimInv, TypeOK, SoleWorker
<1>2. CASE ReconcileMatches(w)
  <2>1. SlotProtected /\ UNCHANGED <<slot, ledger>>
    BY <1>2 DEF ReconcileMatches, SetPhase, TrailInv, ReconcileIsProtected, repoVars
  <2>2. pc'[w] = "IDLE" /\ startedAfter' = {}
    BY <1>1, <1>2 DEF ReconcileMatches, SetPhase, Goto
  <2> QED
    BY <1>1, <2>1, <2>2 DEF TrailInv, SlotIsHeld, ReconcileIsProtected, AwaitingIsProtected,
       RestartIsReal, ValidatedIsReal, SlotProtected, Holding, Claimed, SubmitStage
<1>3. CASE ValidateFirstTrade(w)
  <2>1. SlotProtected /\ UNCHANGED <<phaseVars, ledger, restarts>>
    BY <1>3 DEF ValidateFirstTrade, TrailInv, AwaitingIsProtected, repoVars
  <2>2. restarts > 0
    BY <1>3 DEF ValidateFirstTrade, TrailInv, RestartIsReal, ClaimInv, TypeOK
  <2>3. pc'[w] \in {"ENABLE", "KILL_MISMATCH"}
    BY <1>1, <1>3 DEF ValidateFirstTrade
  <2>4. SlotIsHeld' /\ ReconcileIsProtected' /\ ValidatedIsReal'
    BY <1>1, <2>1, <2>2, <2>3 DEF SlotIsHeld, ReconcileIsProtected, ValidatedIsReal,
       SlotProtected, Holding, Claimed, SubmitStage
  <2>5. AwaitingIsProtected' /\ RestartIsReal'
    BY <2>1 DEF TrailInv, AwaitingIsProtected, RestartIsReal, SlotProtected
  <2> QED
    BY <2>4, <2>5 DEF TrailInv
<1>4. CASE ~ReconcileMatches(w) /\ ~ValidateFirstTrade(w)
  <2>1. \A v \in Workers : TrailMove(v)
    BY <1>1, <1>4 DEF OutcomeStep, ReconcileFails, KillAfterFailure, HaltPhase,
       EnableAutomaticMode, MarkValidated, Goto, TrailMove, Holding, Claimed, SubmitStage
  <2>2. PhaseMove /\ UNCHANGED restarts
    BY <1>4 DEF OutcomeStep, ReconcileFails, KillAfterFailure, HaltPhase,
       EnableAutomaticMode, MarkValidated, MarkExecutionStatus, SetPhase, PhaseMove
  <2> QED
    BY <2>1, <2>2, TrailQuiet
<1> QED
  BY <1>2, <1>3, <1>4

\* The bot writes the phase record, but never so that a trade awaits validation.
LEMMA OthersTrail ==
    ASSUME ClaimInv, LockInv, TrailInv, [Next]_vars,
           \/ TelegramStep \/ UNCHANGED vars
           \/ \E p \in Proposals : BybitStep(p) \/ ApprovalAges(p)
    PROVE  TrailInv'
<1> USE DEF phaseVars, workerVars
<1>1. UNCHANGED workerVars /\ PhaseMove
  BY DEF TelegramStep, TelegramReads, TelegramApproves, TelegramApprovesPhase,
     TelegramCancels, TelegramCancelsPhase, TelegramEmergency, RestartTelegram, SetPhase,
     BybitStep, ApprovalAges, vars, PhaseMove
<1>2. UNCHANGED restarts \/ restarts' > 0
  BY DEF TelegramStep, TelegramReads, TelegramApproves, TelegramApprovesPhase,
     TelegramCancels, TelegramCancelsPhase, TelegramEmergency, RestartTelegram, BybitStep,
     ApprovalAges, vars, ClaimInv, TypeOK
<1> QED
  BY <1>1, <1>2, TrailQuiet DEF TrailMove

\* A restart is counted and forgets the hold.
LEMMA RestartTrail ==
    ASSUME ClaimInv, LockInv, TrailInv, [Next]_vars, NEW w \in Workers, RestartWorker(w)
    PROVE  TrailInv'
<1>1. restarts' > 0
  BY DEF RestartWorker, ClaimInv, TypeOK
<1>2. \A v \in Workers : TrailMove(v)
  BY DEF RestartWorker, ClaimInv, TypeOK, TrailMove, Holding, Claimed, SubmitStage
<1>3. SlotProtected => SlotProtected'
  BY DEF RestartWorker, repoVars, SlotProtected
<1>4. SlotIsHeld' /\ ReconcileIsProtected' /\ ValidatedIsReal'
  BY <1>1, <1>2, <1>3 DEF RestartWorker, TrailInv, SlotIsHeld, ReconcileIsProtected,
     ValidatedIsReal, TrailMove
<1>5. AwaitingIsProtected' /\ RestartIsReal'
  BY <1>1, <1>3 DEF RestartWorker, TrailInv, AwaitingIsProtected, RestartIsReal
<1> QED
  BY <1>4, <1>5 DEF TrailInv

LEMMA NextTrailInv ==
    ASSUME SoleWorker, ClaimInv, LockInv, TrailInv, [Next]_vars
    PROVE  TrailInv'
<1>1. ASSUME NEW w \in Workers, CoordinatorStep(w) \/ ExecutionStep(w) \/ RestartWorker(w)
      PROVE  TrailInv'
  BY <1>1, CoordinatorTrail, ClaimTrail, SubmitTrail, SecureTrail, OutcomeTrail, RestartTrail
     DEF ExecutionStep
<1> QED
  BY <1>1, OthersTrail DEF Next

(***************************************************************************)
(* The theorems                                                            *)
(***************************************************************************)

\* The inductive invariant holds in every reachable state.
LEMMA SoleInvariant ==
    ASSUME SoleWorker
    PROVE  Spec => [](ClaimInv /\ SoleInv)
<1>1. Init => ClaimInv /\ SoleInv
  BY InitClaimInv, InitSoleInv
<1>2. (ClaimInv /\ SoleInv) /\ [Next]_vars => (ClaimInv /\ SoleInv)'
  BY NextClaimInv, NextLockInv, NextRoomInv, NextHaltInv, NextTrailInv DEF SoleInv
<1> QED
  BY <1>1, <1>2, PTL DEF Spec

\* While a position is open without native protection, the durable state holds the
\* entry lock for it, or an emergency close of it was accepted.
THEOREM NakedHoldsLock ==
    ASSUME SoleWorker
    PROVE  Spec => []NakedPositionHoldsLock
<1>1. ClaimInv /\ SoleInv => NakedPositionHoldsLock
  <2> SUFFICES ASSUME ClaimInv, LockInv, NEW p \in OpenPositions, ~protected[p],
                      ledger[p] # "EMERGENCY_CLOSED"
               PROVE  Unresolved(p) /\ inProgress
    BY DEF SoleInv, NakedPositionHoldsLock
  <2>1. p \in Proposals /\ position[p] = "OPEN"
    BY DEF OpenPositions
  <2>2. posts[p] # 0 /\ ledger[p] # "NONE" /\ ledger[p] \in LedgerStatus
    BY <2>1 DEF ClaimInv, PositionNeedsFill, OrderNeedsPost, SentOnlyClaimed, TypeOK,
       RepoTypeOK, Filled
  <2>3. ledger[p] \notin {"REJECTED", "FILLED_PROTECTED"}
    BY <2>1 DEF ClaimInv, LedgerNeverFlatters
  <2>4. Unresolved(p)
    BY <2>2, <2>3 DEF LedgerStatus, Unresolved, UnresolvedStatus
  <2> QED
    BY <2>1, <2>4 DEF LockInv, LockCoversOpenRows
<1> QED
  BY <1>1, SoleInvariant, PTL

\* The exchange never holds more positions than the profile allows, nor two on one
\* symbol, although the guard reads positions and orders before the request leaves.
THEOREM LimitsKept ==
    ASSUME SoleWorker
    PROVE  Spec => []PositionLimits
<1>1. ClaimInv /\ SoleInv => PositionLimits
  BY DEF SoleInv, RoomInv
<1> QED
  BY <1>1, SoleInvariant, PTL

\* One entry that was authorized before the kill switch may still leave after it; no
\* second one ever does, in whatever order the bot, the guard and the cycle set it.
THEOREM LateEntryOnce ==
    ASSUME SoleWorker
    PROVE  Spec => []AtMostOneLateEntry
<1>1. ClaimInv /\ SoleInv => AtMostOneLateEntry
  BY DEF SoleInv, HaltInv
<1> QED
  BY <1>1, SoleInvariant, PTL

\* The execution path implements the abstract ledger: claim before send, send once,
\* one unresolved entry at a time, rows only move forward.
THEOREM RefinesLedger ==
    ASSUME SoleWorker
    PROVE  Spec => ImplementsLedger
<1>1. Init => Abstract!Init
  BY DEF Init, RepoInit, ExchangeInit, Abstract!Init
<1>2. ASSUME ClaimInv, SoleInv, [Next]_vars
      PROVE  [Abstract!Next]_<<ledger, {p \in Proposals : posts[p] > 0}>>
  BY <1>2, StepRefines DEF SoleInv, AbstractStep, AbstractStutters
<1> QED
  BY <1>1, <1>2, SoleInvariant, PTL DEF Spec, ImplementsLedger, Abstract!Spec

\* Automatic mode starts only after a restart, for the protected trade the phase
\* record still holds, with nothing else pending.
THEOREM AutomaticIsEarned ==
    ASSUME SoleWorker
    PROVE  Spec => AutomaticOnlyAfterRestart
<1>1. ASSUME ClaimInv, SoleInv, [Next]_vars, ~automatic, automatic'
      PROVE  /\ restarts > 0
             /\ slot # NoProposal
             /\ ledger[slot] = "FILLED_PROTECTED"
             /\ \A p \in Proposals : ~Unresolved(p)
  <2>1. PICK w \in Workers : EnableAutomaticMode(w) /\ EnableAutomaticReady
    <3> USE DEF repoVars, flagVars, recordVars
    <3>1. ASSUME NEW w \in Workers,
                 CoordinatorStep(w) \/ ScanStep(w) \/ ClaimStep(w) \/ RestartWorker(w)
          PROVE  UNCHANGED automatic
      BY <3>1 DEF CoordinatorStep, Notify, ReadAccount, ScanStep, ReleaseSlot, SignalWins,
         SaveReady, InsertProposal, ScanEnds, ClaimStep, BeginExecution, ReadClaim,
         CommitClaim, ClaimCommit, ClaimFails, RestartWorker
    <3>2. ASSUME NEW w \in Workers, SubmitStep(w)
          PROVE  UNCHANGED automatic
      BY <3>2 DEF SubmitStep, StageAdvances, StageFails, LeverageRefused, LossLimitReached,
         PostEntry, EntryRefused, EntryTimesOut, EntryAccepted, FillConfirmed, PollRejected,
         FillNotConfirmed, ActivateKillSwitch, MarkUnknown, MarkRejected, MarkFilled,
         UpdateExecution
    <3>3. ASSUME NEW w \in Workers, SecureStep(w)
          PROVE  UNCHANGED automatic
      BY <3>3 DEF SecureStep, ProtectionInstalled, RecordProtection, ProtectionUnanswered,
         ProtectionFails, EmergencyCloseAccepted, EmergencyCloseFails, MarkProtected,
         MarkEmergencyClosed, MarkUnknown, UpdateExecution
    <3>4. ASSUME NEW w \in Workers, OutcomeStep(w)
          PROVE  UNCHANGED automatic \/ (EnableAutomaticMode(w) /\ EnableAutomaticReady)
      BY <3>4 DEF OutcomeStep, ReconcileMatches, ReconcileFails, KillAfterFailure,
         ActivateKillSwitch, HaltPhase, ValidateFirstTrade, EnableAutomaticMode, MarkValidated
    <3>5. CASE TelegramStep \/ UNCHANGED vars
               \/ \E p \in Proposals : BybitStep(p) \/ ApprovalAges(p)
      BY <1>1, <3>5 DEF TelegramStep, TelegramReads, TelegramApproves, TelegramApprovesPhase,
         TelegramCancels, TelegramCancelsPhase, TelegramEmergency, RestartTelegram,
         ApproveCommit, CancelCommit, ActivateKillSwitch, BybitStep, ApprovalAges,
         ApprovalExpires, vars
    <3> QED
      BY <1>1, <3>1, <3>2, <3>3, <3>4, <3>5 DEF Next, ExecutionStep
  <2>2. SlotProtected /\ restarts > 0
    BY <1>1, <2>1 DEF EnableAutomaticMode, SoleInv, TrailInv, ValidatedIsReal
  <2>3. \A p \in Proposals : ~Unresolved(p)
    BY <1>1, <2>1 DEF EnableAutomaticReady, SoleInv, LockInv, LockCoversOpenRows
  <2> QED
    BY <2>2, <2>3, FrozenAssumption DEF SlotProtected
<1> QED
  BY <1>1, SoleInvariant, PTL DEF Spec, AutomaticOnlyAfterRestart
=============================================================================
