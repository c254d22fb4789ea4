------------------------------- MODULE AIProofs -------------------------------
(***************************************************************************)
(* Theorems about the autonomous path for any number of proposals, slots,  *)
(* overlapping workers and process deaths, and about what its entries are  *)
(* judged by, for any quotes, rates, decisions and allowances.             *)
(***************************************************************************)
EXTENDS AIExecution, AIEntryGates, FiniteSetTheorems, TLAPS

(***************************************************************************)
(* AIExecution                                                             *)
(*                                                                         *)
(* No entry lock keeps two workers apart here.  What does is the scan: a   *)
(* slot's primary key gives it to one worker, so a decision is in one      *)
(* worker's hands at most (ScansOwned, TodoIsFresh).  On top of that,      *)
(* JobKnown says what a worker knows of the entry it has in hand at each   *)
(* point of execute, and RowsHonest and LeftSettled what the rows say of   *)
(* every entry, in hand or not.                                            *)
(***************************************************************************)

(***************************************************************************)
(* The inductive invariant                                                 *)
(***************************************************************************)

\* A worker that reads and decides; one with a candidate in hand.
Deciding == {"READ", "DECIDE"}
NoHand   == {"IDLE", "BATCH"} \cup Deciding

\* In hand before the claim, before the request, before the recorded fill, after it.
Unclaimed == {"SAVED", "CLAIM", "CLAIM_COMMIT"}
PreSend   == {"PREPARE", "AUTHORIZE", "POSITIONS", "ORDERS", "CREATE"}
PreFill   == {"RESPONSE", "POLL"}
AfterFill == {"PROTECT", "CLOSE", "RECONCILE"}
Filled    == {"FILLED", "PARTIAL"}

\* The entry filled, and its position has its stop or is gone.
StopSet(p) == order[p] \in Filled /\ (position[p] = "OPEN" => protected[p])

\* Nothing about the entry is open, or trading is stopped.
Settled(p) == killSwitch \/ ~Unresolved(p) \/ (ledger[p] = "SUBMITTED" /\ StopSet(p))

\* A worker's scan is its own, and its row says how far it has come.
ScanKnown(w) ==
    IF pc[w] = "IDLE" THEN job[w] = NoProposal /\ todo[w] = {}
    ELSE /\ scanning[w] \in 1 .. Slots
         /\ scan[scanning[w]] = IF pc[w] \in Deciding THEN "RUNNING" ELSE "COMPLETED"
         /\ pc[w] \in Deciding => job[w] = NoProposal /\ todo[w] = {}

ScansOwned ==
    /\ \A w \in Workers : ScanKnown(w)
    /\ \A v, w \in Workers :
          pc[v] # "IDLE" /\ pc[w] # "IDLE" /\ scanning[v] = scanning[w] => v = w

\* Until its scan is complete nothing has happened to a decision.
Undecided(p) ==
    scan[ScanOf[p]] # "COMPLETED" => disposition[p] = "NONE" /\ ledger[p] = "NONE"

\* Nor has anything been done about a candidate still to be looked at.
TodoIsFresh(w) ==
    \A p \in todo[w] :
        /\ ScanOf[p] = scanning[w]
        /\ disposition[p] = "CANDIDATE" /\ ledger[p] = "NONE"
        /\ pc[w] \notin NoHand => job[w] # p

\* What a worker knows of the entry in its hands.
JobKnown(w) ==
    pc[w] \notin NoHand =>
        /\ job[w] \in Proposals /\ ScanOf[job[w]] = scanning[w] /\ freeSlots[w] > 0
        /\ disposition[job[w]] = IF pc[w] = "SAVED" THEN "CANDIDATE" ELSE "SUBMITTING"
        /\ pc[w] \in Unclaimed => ledger[job[w]] = "NONE"
        /\ pc[w] \in PreSend   => ledger[job[w]] = "PENDING" /\ posts[job[w]] = 0
        /\ pc[w] \in PreFill   => ledger[job[w]] = "PENDING"
        /\ pc[w] \in AfterFill => ledger[job[w]] = "SUBMITTED" /\ order[job[w]] \in Filled
        /\ pc[w] = "RECONCILE" => StopSet(job[w])
        /\ pc[w] = "OPENED"    => ledger[job[w]] = "FILLED_PROTECTED"
        /\ pc[w] = "REFUSED"   => ledger[job[w]] \in {"NONE", "REJECTED"} /\ posts[job[w]] = 0
        /\ pc[w] = "FAIL"      => Settled(job[w])

\* What the rows and the exchange say of one entry.
RowHonest(p) ==
    /\ posts[p] <= 1
    /\ ledger[p] = "NONE" => posts[p] = 0
    /\ posts[p] = 0 => order[p] = "NONE"
    /\ position[p] # "NONE" \/ ledger[p] = "FILLED_PROTECTED" => order[p] \in Filled
    /\ ledger[p] = "REJECTED" => /\ order[p] \in {"NONE", "REFUSED", "REJECTED"}
                                 /\ position[p] = "NONE"
    /\ ledger[p] = "FILLED_PROTECTED" /\ position[p] = "OPEN" => protected[p]
    /\ posts[p] > 0 => disposition[p] \in {"SUBMITTING", "FAILED_CLOSED", "FILLED_PROTECTED"}
    /\ disposition[p] = "FILLED_PROTECTED" => ledger[p] = "FILLED_PROTECTED"

\* An entry nobody has in hand is settled, unless its worker died.
LeftSettled(p) ==
    p \notin abandoned /\ (\A w \in Workers : ~Handles(w, p)) => Settled(p)

IInv ==
    /\ TypeOK
    /\ ScansOwned
    /\ \A w \in Workers : TodoIsFresh(w) /\ JobKnown(w)
    /\ \A p \in Proposals : Undecided(p) /\ RowHonest(p) /\ LeftSettled(p)

(***************************************************************************)
(* Type correctness                                                        *)
(***************************************************************************)

\* The initial state has the right types (empty tables, idle processes).
LEMMA InitTypeOK == Init => TypeOK
<1> SUFFICES ASSUME Init PROVE TypeOK
  OBVIOUS
<1>1. /\ status \in [Proposals -> ProposalStatus]
      /\ approval \in [Proposals -> ApprovalAge]
      /\ fillRecorded \in [Proposals -> BOOLEAN]
      /\ ledger \in [Proposals -> LedgerStatus]
  BY DEF Init, RepoInit, ProposalStatus, ApprovalAge, LedgerStatus
<1>2. /\ killSwitch \in BOOLEAN /\ inProgress \in BOOLEAN
      /\ executed \in BOOLEAN /\ automatic \in BOOLEAN
  BY Zenon DEF Init, RepoInit
<1>3. ExchangeTypeOK
  BY DEF Init, ExchangeInit, ExchangeTypeOK, OrderStatus, PositionStatus
<1>4. /\ slotNow \in 1 .. Slots
      /\ scan \in [1 .. Slots -> ScanStatus]
      /\ disposition \in [Proposals -> Disposition]
      /\ scanning \in [Workers -> 0 .. Slots]
      /\ freeSlots \in [Workers -> 0 .. MaxPositions]
      /\ restarts \in 0 .. MaxRestarts
  BY AIAssumption DEF Init, ScanStatus, Disposition
<1>5. /\ pc \in [Workers -> WorkerPc]
      /\ job \in [Workers -> Proposals \cup {NoProposal}]
      /\ todo \in [Workers -> SUBSET Proposals]
      /\ openSymbols \in [Workers -> SUBSET Symbols]
      /\ abandoned \subseteq Proposals
  BY DEF Init, WorkerPc
<1> QED
  BY <1>1, <1>2, <1>3, <1>4, <1>5 DEF TypeOK, RepoTypeOK

\* The transactions of the AI trader keep the tables well typed.
LEMMA RepoTransactionsTypeOK ==
    ASSUME RepoTypeOK, NEW p,
           \/ UNCHANGED repoVars
           \/ SaveAIProposal(p) \/ ClaimAICommit(p) \/ MarkAIFilled(p)
           \/ \E s \in {"PROTECTED", "EMERGENCY_CLOSED", "UNKNOWN", "REJECTED"},
                 l \in {"FILLED_PROTECTED", "EMERGENCY_CLOSED", "UNKNOWN", "REJECTED"} :
                    MarkAI(p, s, l)
           \/ ApprovalExpires(p) \/ ActivateKillSwitch
    PROVE  RepoTypeOK'
<1> USE DEF RepoTypeOK, ProposalStatus, ApprovalAge, LedgerStatus, flagVars, recordVars,
            repoVars, UpdateAIExecution, UpdateExecution
<1>1. CASE UNCHANGED repoVars
  BY <1>1
<1>2. CASE SaveAIProposal(p)
  BY <1>2 DEF SaveAIProposal
<1>3. CASE ClaimAICommit(p)
  BY <1>3 DEF ClaimAICommit
<1>4. CASE MarkAIFilled(p)
  BY <1>4 DEF MarkAIFilled
<1>5. ASSUME NEW s \in {"PROTECTED", "EMERGENCY_CLOSED", "UNKNOWN", "REJECTED"},
             NEW l \in {"FILLED_PROTECTED", "EMERGENCY_CLOSED", "UNKNOWN", "REJECTED"},
             MarkAI(p, s, l)
      PROVE  RepoTypeOK'
  BY <1>5 DEF MarkAI
<1>6. CASE ApprovalExpires(p)
  BY <1>6 DEF ApprovalExpires
<1>7. CASE ActivateKillSwitch
  BY <1>7 DEF ActivateKillSwitch
<1> QED
  BY <1>1, <1>2, <1>3, <1>4, <1>5, <1>6, <1>7

\* So does every request to the exchange and every step of its own.
LEMMA ExchangeStepsTypeOK ==
    ASSUME ExchangeTypeOK, NEW p \in Proposals,
           UNCHANGED exchangeVars \/ PostCreate(p) \/ SetTradingStop(p) \/ ExchangeStep(p)
    PROVE  ExchangeTypeOK'
<1> USE DEF ExchangeTypeOK, OrderStatus, PositionStatus, exchangeVars
<1>1. CASE UNCHANGED exchangeVars
  BY <1>1
<1>2. CASE PostCreate(p)
  BY <1>2 DEF PostCreate
<1>3. CASE SetTradingStop(p)
  BY <1>3 DEF SetTradingStop
<1>4. CASE ExchangeStep(p)
  BY <1>4 DEF ExchangeStep, CreateArrives, OrderFills, OrderEndsUnfilled, PositionCloses
<1> QED
  BY <1>1, <1>2, <1>3, <1>4

\* The variables of the scans and of the workers, on their own.
LoopTypeOK ==
    /\ slotNow \in 1 .. Slots
    /\ scan \in [1 .. Slots -> ScanStatus]
    /\ disposition \in [Proposals -> Disposition]
    /\ pc \in [Workers -> WorkerPc]
    /\ scanning \in [Workers -> 0 .. Slots]
    /\ job \in [Workers -> Proposals \cup {NoProposal}]
    /\ todo \in [Workers -> SUBSET Proposals]
    /\ freeSlots \in [Workers -> 0 .. MaxPositions]
    /\ openSymbols \in [Workers -> SUBSET Symbols]
    /\ restarts \in 0 .. MaxRestarts
    /\ abandoned \subseteq Proposals

\* A worker's move to a known label keeps the worker variables well typed.
LEMMA GotoTypeOK ==
    ASSUME LoopTypeOK, NEW w \in Workers, NEW label \in WorkerPc, Goto(w, label),
           UNCHANGED <<scan, slotNow, lifeVars>>, disposition' \in [Proposals -> Disposition]
    PROVE  LoopTypeOK'
  BY DEF Goto, LoopTypeOK, lifeVars

\* The end of a cycle does too.
LEMMA EndCycleTypeOK ==
    ASSUME LoopTypeOK, NEW w \in Workers, EndCycle(w), UNCHANGED slotNow,
           scan' \in [1 .. Slots -> ScanStatus], disposition' \in [Proposals -> Disposition],
           restarts' \in 0 .. MaxRestarts, abandoned' \in SUBSET Proposals
    PROVE  LoopTypeOK'
  BY AIAssumption DEF EndCycle, LoopTypeOK, WorkerPc

\* Scanning keeps the types.
LEMMA CycleTypeOK ==
    ASSUME IInv, NEW w \in Workers, BeginScan(w) \/ CycleStep(w)
    PROVE  TypeOK'
<1>1. RepoTypeOK /\ ExchangeTypeOK /\ LoopTypeOK
  BY DEF IInv, TypeOK, LoopTypeOK
<1>2. /\ pc \in [Workers -> WorkerPc]
      /\ pc[w] # "IDLE" => scanning[w] \in 1 .. Slots
  BY <1>1 DEF LoopTypeOK, IInv, ScansOwned, ScanKnown
<1>3. UNCHANGED repoVars /\ UNCHANGED exchangeVars
  BY DEF BeginScan, CycleStep, ReadMarket, CompleteScan, FailScan
<1>4. RepoTypeOK' /\ ExchangeTypeOK'
  BY <1>1, <1>3 DEF RepoTypeOK, ExchangeTypeOK, repoVars, exchangeVars
<1>5. CASE BeginScan(w)
  <2>1. LoopTypeOK'
    BY <1>1, <1>5 DEF BeginScan, LoopTypeOK, ScanStatus, WorkerPc, lifeVars
  <2> QED
    BY <1>4, <2>1 DEF TypeOK, LoopTypeOK
<1>6. CASE ReadMarket(w)
  <2>1. Cardinality(OpenPositions) \in Nat
    <3>1. IsFiniteSet(OpenPositions)
      BY FS_Subset, IdentityAssumption DEF OpenPositions
    <3> QED
      BY <3>1, FS_CardinalityType
  <2>2. freeSlots' \in [Workers -> 0 .. MaxPositions]
    BY <1>1, <1>6, <2>1, AIAssumption DEF ReadMarket, LoopTypeOK
  <2>3. {SymbolOf[p] : p \in OpenPositions} \subseteq Symbols
    BY IdentityAssumption DEF OpenPositions
  <2>4. openSymbols' \in [Workers -> SUBSET Symbols]
    BY <1>1, <1>6, <2>3 DEF ReadMarket, LoopTypeOK
  <2>5. LoopTypeOK'
    BY <1>1, <1>6, <2>2, <2>4 DEF ReadMarket, LoopTypeOK, WorkerPc, lifeVars, scanVars
  <2> QED
    BY <1>4, <2>5 DEF TypeOK, LoopTypeOK
<1>7. CASE CompleteScan(w)
  <2>1. disposition' \in [Proposals -> Disposition] /\ todo' \in [Workers -> SUBSET Proposals]
    BY <1>1, <1>7 DEF CompleteScan, LoopTypeOK, Disposition
  <2>2. scan' \in [1 .. Slots -> ScanStatus]
    BY <1>1, <1>2, <1>7 DEF CompleteScan, LoopTypeOK, ScanStatus
  <2>3. LoopTypeOK'
    BY <1>1, <1>7, <2>1, <2>2 DEF CompleteScan, LoopTypeOK, WorkerPc, lifeVars
  <2> QED
    BY <1>4, <2>3 DEF TypeOK, LoopTypeOK
<1>8. CASE FailScan(w)
  <2>1. scan' \in [1 .. Slots -> ScanStatus]
    BY <1>1, <1>2, <1>8 DEF FailScan, LoopTypeOK, ScanStatus
  <2>2. LoopTypeOK'
    BY <1>1, <1>8, <2>1, EndCycleTypeOK DEF FailScan, LoopTypeOK, lifeVars
  <2> QED
    BY <1>4, <2>2 DEF TypeOK, LoopTypeOK
<1> QED
  BY <1>5, <1>6, <1>7, <1>8 DEF CycleStep

\* Working through the candidates keeps them.
LEMMA BatchTypeOK ==
    ASSUME IInv, NEW w \in Workers, BatchStep(w)
    PROVE  TypeOK'
<1>1. RepoTypeOK /\ ExchangeTypeOK /\ LoopTypeOK
  BY DEF IInv, TypeOK, LoopTypeOK
<1>2. UNCHANGED exchangeVars
  BY DEF BatchStep, SkipCandidate, CandidateRefused, SaveProposal, MarkSubmitting, BatchEnds,
     FailureBreaks, RefusalContinues, RecordOpened
<1>3. ExchangeTypeOK'
  BY <1>1, <1>2 DEF ExchangeTypeOK, exchangeVars
<1>4. ASSUME NEW p \in Proposals,
             SkipCandidate(w, p) \/ CandidateRefused(w, p) \/ SaveProposal(w, p)
      PROVE  TypeOK'
  <2>1. RepoTypeOK'
    BY <1>1, <1>4, RepoTransactionsTypeOK DEF SkipCandidate, CandidateRefused, SaveProposal
  <2>2. disposition' \in [Proposals -> Disposition]
    BY <1>1, <1>4 DEF SkipCandidate, CandidateRefused, SaveProposal, SetDisposition,
       LoopTypeOK, Disposition, scanVars
  <2>3. \E label \in {"BATCH", "SAVED"} : Take(w, p, label)
    BY <1>4 DEF SkipCandidate, CandidateRefused, SaveProposal
  <2>4. UNCHANGED <<scan, slotNow, lifeVars>>
    BY <1>4 DEF SkipCandidate, CandidateRefused, SaveProposal, SetDisposition, scanVars
  <2>5. LoopTypeOK'
    BY <1>1, <2>2, <2>3, <2>4 DEF Take, LoopTypeOK, WorkerPc, lifeVars
  <2> QED
    BY <1>3, <2>1, <2>5 DEF TypeOK, LoopTypeOK
<1>5. CASE MarkSubmitting(w) \/ BatchEnds(w) \/ FailureBreaks(w) \/ RefusalContinues(w)
           \/ RecordOpened(w)
  <2>1. RepoTypeOK'
    BY <1>1, <1>5 DEF RepoTypeOK, repoVars, MarkSubmitting, BatchEnds, FailureBreaks,
       RefusalContinues, RecordOpened
  <2>2. disposition' \in [Proposals -> Disposition]
    BY <1>1, <1>5 DEF MarkSubmitting, BatchEnds, FailureBreaks, RefusalContinues, RecordOpened,
       SetDisposition, LoopTypeOK, Disposition, scanVars
  <2>3. UNCHANGED <<scan, slotNow, lifeVars>>
    BY <1>5 DEF MarkSubmitting, BatchEnds, FailureBreaks, RefusalContinues, RecordOpened,
       SetDisposition, scanVars
  <2>4. ASSUME MarkSubmitting(w) \/ RefusalContinues(w) PROVE LoopTypeOK'
    BY <1>1, <2>2, <2>3, <2>4, GotoTypeOK DEF MarkSubmitting, RefusalContinues, WorkerPc
  <2>5. ASSUME BatchEnds(w) \/ FailureBreaks(w) PROVE LoopTypeOK'
    BY <1>1, <2>2, <2>3, <2>5, EndCycleTypeOK
       DEF BatchEnds, FailureBreaks, LoopTypeOK, lifeVars
  <2>6. ASSUME RecordOpened(w) PROVE LoopTypeOK'
    <3>1. freeSlots[w] > 0 /\ job[w] \in Proposals
      BY <2>6 DEF RecordOpened, IInv, JobKnown, NoHand, Deciding
    <3>2. freeSlots' \in [Workers -> 0 .. MaxPositions]
      BY <1>1, <2>6, <3>1, AIAssumption DEF RecordOpened, LoopTypeOK
    <3>3. openSymbols' \in [Workers -> SUBSET Symbols]
      BY <1>1, <2>6, <3>1, IdentityAssumption DEF RecordOpened, LoopTypeOK
    <3> QED
      BY <1>1, <2>2, <2>3, <2>6, <3>2, <3>3 DEF RecordOpened, LoopTypeOK, WorkerPc, lifeVars
  <2>7. LoopTypeOK'
    BY <1>5, <2>4, <2>5, <2>6
  <2> QED
    BY <1>3, <2>1, <2>7 DEF TypeOK, LoopTypeOK
<1> QED
  BY <1>4, <1>5 DEF BatchStep
\* A step of execute keeps the types, given what it does to each group of variables.
LEMMA ExecuteTypeOK ==
    ASSUME IInv, NEW w \in Workers, SubmitStep(w) \/ SecureStep(w)
    PROVE  TypeOK'
<1>1. RepoTypeOK /\ ExchangeTypeOK /\ LoopTypeOK
  BY DEF IInv, TypeOK, LoopTypeOK
<1>2. /\ pc[w] \notin NoHand /\ job[w] \in Proposals
      /\ UNCHANGED scanVars /\ UNCHANGED lifeVars
  <2>1. CASE SubmitStep(w)
    BY <2>1 DEF SubmitStep, ReadClaim, ClaimRefused, CommitClaim, StageAdvances, GuardRefuses,
       LeverageRefused, StageFails, PostEntry, EntryRejected, EntryAccepted, EntryTimesOut,
       OutcomeUnknown, SubmitStage, NoHand, Deciding, IInv, JobKnown
  <2>2. CASE SecureStep(w)
    BY <2>2 DEF SecureStep, FillConfirmed, FillNotConfirmed, ProtectionInstalled,
       ProtectionFails, EmergencyCloseAccepted, EmergencyCloseFails, ReconcileMatches,
       ReconcileMismatch, SnapshotFails, KillAfterFailure, OutcomeUnknown, NoHand, Deciding,
       IInv, JobKnown
  <2> QED
    BY <2>1, <2>2
<1>3. \E label \in WorkerPc : Goto(w, label)
  <2>1. CASE SubmitStep(w)
    BY <2>1, <1>1 DEF SubmitStep, ReadClaim, ClaimRefused, CommitClaim, StageAdvances,
       GuardRefuses, LeverageRefused, StageFails, PostEntry, EntryRejected, EntryAccepted,
       EntryTimesOut, OutcomeUnknown, SubmitStage, AfterStage, WorkerPc, LoopTypeOK
  <2>2. CASE SecureStep(w)
    BY <2>2 DEF SecureStep, FillConfirmed, FillNotConfirmed, ProtectionInstalled,
       ProtectionFails, EmergencyCloseAccepted, EmergencyCloseFails, ReconcileMatches,
       ReconcileMismatch, SnapshotFails, KillAfterFailure, OutcomeUnknown, WorkerPc
  <2> QED
    BY <2>1, <2>2
<1>4. RepoTypeOK'
  <2>1. CASE SubmitStep(w)
    BY <2>1, <1>1, RepoTransactionsTypeOK DEF SubmitStep, ReadClaim, ClaimRefused, CommitClaim,
       StageAdvances, GuardRefuses, LeverageRefused, StageFails, PostEntry, EntryRejected,
       EntryAccepted, EntryTimesOut, OutcomeUnknown
  <2>2. CASE SecureStep(w)
    BY <2>2, <1>1, RepoTransactionsTypeOK DEF SecureStep, FillConfirmed, FillNotConfirmed,
       ProtectionInstalled, ProtectionFails, EmergencyCloseAccepted, EmergencyCloseFails,
       ReconcileMatches, ReconcileMismatch, SnapshotFails, KillAfterFailure, OutcomeUnknown
  <2> QED
    BY <2>1, <2>2
<1>5. ExchangeTypeOK'
  <2>1. UNCHANGED exchangeVars \/ PostCreate(job[w]) \/ SetTradingStop(job[w])
    BY DEF SubmitStep, ReadClaim, ClaimRefused, CommitClaim, StageAdvances, GuardRefuses,
       LeverageRefused, StageFails, PostEntry, EntryRejected, EntryAccepted, EntryTimesOut,
       OutcomeUnknown, SecureStep, FillConfirmed, FillNotConfirmed, ProtectionInstalled,
       ProtectionFails, EmergencyCloseAccepted, EmergencyCloseFails, ReconcileMatches,
       ReconcileMismatch, SnapshotFails, KillAfterFailure
  <2> QED
    BY <1>1, <1>2, <2>1, ExchangeStepsTypeOK
<1>6. LoopTypeOK'
  <2>1. disposition' \in [Proposals -> Disposition] /\ UNCHANGED <<scan, slotNow, lifeVars>>
    BY <1>1, <1>2 DEF LoopTypeOK, scanVars
  <2> QED
    BY <1>1, <1>3, <2>1, GotoTypeOK
<1> QED
  BY <1>4, <1>5, <1>6 DEF TypeOK, LoopTypeOK

\* Deaths, the clock, the administrator and the exchange keep the types.
LEMMA EnvironmentTypeOK ==
    ASSUME IInv,
           \/ \E w \in Workers : Restart(w)
           \/ NextSlot \/ TelegramEmergency
           \/ \E p \in Proposals : ApprovalAges(p) \/ BybitStep(p)
           \/ UNCHANGED vars
    PROVE  TypeOK'
<1>1. RepoTypeOK /\ ExchangeTypeOK /\ LoopTypeOK
  BY DEF IInv, TypeOK, LoopTypeOK
<1>2. ASSUME NEW w \in Workers, Restart(w) PROVE TypeOK'
  <2>1. restarts' \in 0 .. MaxRestarts
    BY <1>1, <1>2, AIAssumption DEF Restart, LoopTypeOK
  <2>2. LoopTypeOK'
    BY <1>1, <1>2, <2>1, EndCycleTypeOK DEF Restart, LoopTypeOK, scanVars
  <2>3. RepoTypeOK' /\ ExchangeTypeOK'
    BY <1>1, <1>2 DEF Restart, RepoTypeOK, ExchangeTypeOK, repoVars, exchangeVars
  <2> QED
    BY <2>2, <2>3 DEF TypeOK, LoopTypeOK
<1>3. CASE NextSlot \/ UNCHANGED vars
  <2>1. RepoTypeOK' /\ ExchangeTypeOK'
    BY <1>1, <1>3 DEF NextSlot, RepoTypeOK, ExchangeTypeOK, repoVars, exchangeVars, vars
  <2>2. slotNow' \in 1 .. Slots
    BY <1>1, <1>3, AIAssumption DEF NextSlot, LoopTypeOK, vars, scanVars
  <2>3. LoopTypeOK'
    BY <1>1, <1>3, <2>2 DEF NextSlot, LoopTypeOK, workerVars, lifeVars, scanVars, vars
  <2> QED
    BY <2>1, <2>3 DEF TypeOK, LoopTypeOK
<1>4. ASSUME UNCHANGED scanVars, UNCHANGED workerVars, UNCHANGED lifeVars PROVE LoopTypeOK'
  BY <1>1, <1>4 DEF LoopTypeOK, scanVars, workerVars, lifeVars
<1>5. CASE TelegramEmergency
  BY <1>1, <1>4, <1>5, RepoTransactionsTypeOK
     DEF TelegramEmergency, ExchangeTypeOK, exchangeVars, TypeOK, LoopTypeOK
<1>6. ASSUME NEW p \in Proposals, ApprovalAges(p) PROVE TypeOK'
  BY <1>1, <1>4, <1>6, RepoTransactionsTypeOK
     DEF ApprovalAges, ExchangeTypeOK, exchangeVars, TypeOK, LoopTypeOK
<1>7. ASSUME NEW p \in Proposals, BybitStep(p) PROVE TypeOK'
  BY <1>1, <1>4, <1>7, ExchangeStepsTypeOK
     DEF BybitStep, RepoTypeOK, repoVars, TypeOK, LoopTypeOK
<1> QED
  BY <1>2, <1>3, <1>5, <1>6, <1>7

\* Every step of every process keeps the types.
LEMMA NextTypeOK ==
    ASSUME IInv, [Next]_vars
    PROVE  TypeOK'
  BY CycleTypeOK, BatchTypeOK, ExecuteTypeOK, EnvironmentTypeOK DEF Next, WorkerStep
(***************************************************************************)
(* The invariant, step by step                                             *)
(***************************************************************************)

\* The invariant holds in empty tables with idle workers.
LEMMA InitIInv == Init => IInv
<1> SUFFICES ASSUME Init PROVE IInv
  OBVIOUS
<1>1. TypeOK
  BY InitTypeOK
<1>2. \A w \in Workers : pc[w] = "IDLE" /\ job[w] = NoProposal /\ todo[w] = {}
  BY DEF Init
<1>3. ScansOwned /\ \A w \in Workers : TodoIsFresh(w) /\ JobKnown(w)
  BY <1>2 DEF ScansOwned, ScanKnown, TodoIsFresh, JobKnown, NoHand
<1>4. \A p \in Proposals : /\ ledger[p] = "NONE" /\ posts[p] = 0 /\ disposition[p] = "NONE"
                           /\ order[p] = "NONE" /\ position[p] = "NONE"
  BY DEF Init, RepoInit, ExchangeInit
<1>5. \A p \in Proposals : Undecided(p) /\ RowHonest(p) /\ LeftSettled(p)
  BY <1>4 DEF Undecided, RowHonest, LeftSettled, Settled, Unresolved, UnresolvedStatus
<1> QED
  BY <1>1, <1>3, <1>5 DEF IInv

\* An entry is worker w's alone: a candidate it still has to look at, or the one in hand.
Mine(w, p) ==
    \/ pc[w] = "BATCH" /\ p \in todo[w]
    \/ pc[w] \notin NoHand /\ job[w] = p

\* All that is known of one entry outside the workers.
RowKept(p) ==
    /\ ledger'[p] = ledger[p] /\ disposition'[p] = disposition[p]
    /\ order'[p] = order[p] /\ posts'[p] = posts[p]
    /\ position'[p] = position[p] /\ protected'[p] = protected[p]

WorkerKept(w) ==
    /\ pc'[w] = pc[w] /\ scanning'[w] = scanning[w] /\ job'[w] = job[w]
    /\ todo'[w] = todo[w] /\ freeSlots'[w] = freeSlots[w]

\* A step of w on its own entry: everybody else's is left alone.
OwnStep(w, p) ==
    /\ Mine(w, p)
    /\ \A v \in Workers \ {w} : WorkerKept(v)
    /\ \A q \in Proposals \ {p} : RowKept(q)
    /\ scan' = scan
    /\ killSwitch => killSwitch'
    /\ abandoned \subseteq abandoned'
    /\ pc'[w] \notin Deciding
    /\ IF pc'[w] = "IDLE" THEN job'[w] = NoProposal /\ todo'[w] = {}
       ELSE scanning'[w] = scanning[w] /\ todo'[w] = todo[w] \ {p}
    /\ pc'[w] \notin NoHand => job'[w] = p

\* Such a step keeps the invariant, if what w knows of its entry stays true, the
\* entry's rows stay honest and w lets go of it only when it is settled.
LEMMA OwnStepKeeps ==
    ASSUME IInv, TypeOK', NEW w \in Workers, NEW p \in Proposals, OwnStep(w, p),
           JobKnown(w)', RowHonest(p)',
           pc'[w] \notin NoHand \/ p \in abandoned' \/ Settled(p)'
    PROVE  IInv'
<1>1. /\ pc[w] \notin Deciding \cup {"IDLE"} /\ ScanOf[p] = scanning[w]
      /\ scan[scanning[w]] = "COMPLETED"
      /\ pc[w] \notin NoHand => job[w] = p
  BY DEF OwnStep, Mine, IInv, TodoIsFresh, JobKnown, ScansOwned, ScanKnown, NoHand, Deciding
<1>2. \A v \in Workers \ {w} : pc[v] # "IDLE" => scanning[v] # scanning[w]
  BY <1>1 DEF IInv, ScansOwned, Deciding
<1>3. ScansOwned'
  <2>1. ScanKnown(w)'
    BY <1>1 DEF OwnStep, IInv, ScansOwned, ScanKnown, Deciding
  <2>2. \A v \in Workers \ {w} : ScanKnown(v)'
    BY DEF OwnStep, WorkerKept, IInv, ScansOwned, ScanKnown
  <2>3. \A u, v \in Workers :
            pc'[u] # "IDLE" /\ pc'[v] # "IDLE" /\ scanning'[u] = scanning'[v] => u = v
    BY <1>1, <1>2 DEF OwnStep, WorkerKept, IInv, ScansOwned
  <2> QED
    BY <2>1, <2>2, <2>3 DEF ScansOwned
<1>4. ASSUME NEW v \in Workers \ {w} PROVE TodoIsFresh(v)' /\ JobKnown(v)'
  <2>1. WorkerKept(v) /\ (pc[v] # "IDLE" => scanning[v] # scanning[w])
    BY <1>2 DEF OwnStep
  <2>2. \A q \in todo[v] : q \in Proposals \ {p} /\ RowKept(q)
    <3>1. todo[v] \subseteq Proposals /\ (pc[v] = "IDLE" => todo[v] = {})
      BY DEF IInv, TypeOK, ScansOwned, ScanKnown
    <3> QED
      BY <1>1, <2>1, <3>1 DEF OwnStep, IInv, TodoIsFresh
  <2>3. TodoIsFresh(v)'
    BY <2>1, <2>2 DEF IInv, TodoIsFresh, WorkerKept, RowKept
  <2>4. pc[v] \notin NoHand => job[v] \in Proposals \ {p} /\ RowKept(job[v])
    BY <1>1, <2>1 DEF OwnStep, IInv, JobKnown, NoHand
  <2>5. JobKnown(v)'
    BY <2>1, <2>4 DEF OwnStep, IInv, JobKnown, WorkerKept, RowKept, StopSet, Settled, Unresolved
  <2> QED
    BY <2>3, <2>5
<1>5. TodoIsFresh(w)'
  <2>1. todo'[w] = {} \/ (todo'[w] = todo[w] \ {p} /\ scanning'[w] = scanning[w])
    BY DEF OwnStep
  <2>2. todo[w] \subseteq Proposals
    BY DEF IInv, TypeOK
  <2> QED
    BY <2>1, <2>2 DEF IInv, TodoIsFresh, OwnStep, RowKept
<1>6. ASSUME NEW q \in Proposals \ {p} PROVE Undecided(q)' /\ RowHonest(q)' /\ LeftSettled(q)'
  <2>1. RowKept(q) /\ scan' = scan
    BY DEF OwnStep
  <2>2. Undecided(q)' /\ RowHonest(q)'
    BY <2>1 DEF IInv, Undecided, RowHonest, RowKept
  <2>3. Settled(q) => Settled(q)'
    BY <2>1 DEF OwnStep, Settled, StopSet, Unresolved, RowKept
  <2>4. ~Handles(w, q)
    BY <1>1 DEF Handles, NoHand
  <2>5. \A v \in Workers \ {w} : Handles(v, q)' <=> Handles(v, q)
    BY DEF OwnStep, WorkerKept, Handles
  <2>6. LeftSettled(q)'
    BY <2>3, <2>4, <2>5 DEF OwnStep, IInv, LeftSettled
  <2> QED
    BY <2>2, <2>6
<1>7. Undecided(p)'
  BY <1>1 DEF OwnStep, Undecided
<1>8. LeftSettled(p)'
  BY DEF OwnStep, LeftSettled, Handles, NoHand
<1> QED
  BY <1>3, <1>4, <1>5, <1>6, <1>7, <1>8 DEF IInv
\* Every step of execute leads to a label with the entry in hand.
ExecuteLabel == WorkerPc \ NoHand

LEMMA ExecuteLabels ==
    {"CLAIM_COMMIT", "PREPARE", "AUTHORIZE", "POSITIONS", "ORDERS", "CREATE", "RESPONSE",
     "POLL", "PROTECT", "CLOSE", "RECONCILE", "OPENED", "REFUSED", "KILL", "FAIL"}
        \subseteq ExecuteLabel
  BY DEF ExecuteLabel, WorkerPc, NoHand, Deciding, SubmitStage

\* A step of execute on the entry in hand.
LEMMA HandStep ==
    ASSUME IInv, TypeOK', NEW w \in Workers, pc[w] \notin NoHand,
           NEW label \in ExecuteLabel, Goto(w, label),
           UNCHANGED scanVars, UNCHANGED lifeVars, killSwitch => killSwitch',
           \A q \in Proposals \ {job[w]} :
              /\ ledger'[q] = ledger[q] /\ order'[q] = order[q] /\ posts'[q] = posts[q]
              /\ position'[q] = position[q] /\ protected'[q] = protected[q],
           JobKnown(w)', RowHonest(job[w])'
    PROVE  IInv'
<1>1. job[w] \in Proposals /\ job[w] \notin todo[w]
  BY DEF IInv, JobKnown, TodoIsFresh
<1>2. /\ pc'[w] = label /\ UNCHANGED <<scanning, job, todo, freeSlots>>
      /\ \A v \in Workers \ {w} : pc'[v] = pc[v]
  BY DEF Goto, IInv, TypeOK
<1>3. \A q \in Proposals \ {job[w]} : RowKept(q)
  BY DEF RowKept, scanVars
<1>4. OwnStep(w, job[w])
  BY <1>1, <1>2, <1>3 DEF OwnStep, Mine, WorkerKept, scanVars, lifeVars, NoHand, ExecuteLabel
<1> QED
  BY <1>1, <1>2, <1>4, OwnStepKeeps DEF ExecuteLabel

\* A move that changes no row.
LEMMA QuietMove ==
    ASSUME IInv, TypeOK', NEW w \in Workers, pc[w] \notin NoHand,
           NEW label \in ExecuteLabel, Goto(w, label),
           UNCHANGED ledger, UNCHANGED exchangeVars, UNCHANGED scanVars, UNCHANGED lifeVars,
           killSwitch => killSwitch', JobKnown(w)'
    PROVE  IInv'
<1>1. RowHonest(job[w])
  BY DEF IInv, JobKnown
<1>2. RowHonest(job[w])'
  BY <1>1 DEF RowHonest, exchangeVars, scanVars, Goto
<1> QED
  BY <1>2, HandStep DEF exchangeVars

\* A transaction that writes st to the ledger row of the entry in hand.
LEMMA LedgerMove ==
    ASSUME IInv, TypeOK', NEW w \in Workers, pc[w] \notin NoHand,
           NEW label \in ExecuteLabel, Goto(w, label),
           NEW s, ledger' = [ledger EXCEPT ![job[w]] = s], s # "NONE",
           UNCHANGED killSwitch,
           UNCHANGED exchangeVars, UNCHANGED scanVars, UNCHANGED lifeVars,
           s = "REJECTED" => order[job[w]] \in {"NONE", "REFUSED", "REJECTED"},
           s = "FILLED_PROTECTED" => StopSet(job[w]),
           pc[w] # "SAVED", JobKnown(w)'
    PROVE  IInv'
<1>1. /\ job[w] \in Proposals /\ RowHonest(job[w]) /\ disposition[job[w]] = "SUBMITTING"
      /\ ledger \in [Proposals -> LedgerStatus]
  BY DEF IInv, JobKnown, TypeOK, RepoTypeOK
<1>2. job' = job /\ ledger'[job[w]] = s
      /\ \A q \in Proposals \ {job[w]} : ledger'[q] = ledger[q]
  BY <1>1 DEF Goto
<1>3. RowHonest(job[w])'
  BY <1>1, <1>2 DEF RowHonest, StopSet, Filled, exchangeVars, scanVars
<1> QED
  BY <1>2, <1>3, HandStep DEF exchangeVars

\* The claim: the ledger row is new.
LEMMA ClaimKeeps ==
    ASSUME IInv, TypeOK', NEW w \in Workers,
           ReadClaim(w) \/ ClaimRefused(w) \/ CommitClaim(w)
    PROVE  IInv'
<1>0. /\ pc[w] \notin NoHand
      /\ {"CLAIM_COMMIT", "REFUSED", "PREPARE"} \subseteq ExecuteLabel
  BY ExecuteLabels DEF ReadClaim, ClaimRefused, CommitClaim, NoHand, Deciding
<1>1. CASE ReadClaim(w)
  <2>1. JobKnown(w)'
    BY <1>0, <1>1 DEF ReadClaim, Goto, IInv, JobKnown, TypeOK, Unclaimed, PreSend, PreFill, AfterFill,
       repoVars, exchangeVars, scanVars, StopSet, Settled, Unresolved
  <2> QED
    BY <1>1, <2>1, <1>0, QuietMove DEF ReadClaim, repoVars
<1>2. CASE ClaimRefused(w)
  <2>1. JobKnown(w)'
    BY <1>0, <1>2 DEF ClaimRefused, Goto, IInv, JobKnown, RowHonest, TypeOK, Unclaimed, PreSend,
       PreFill, AfterFill, repoVars, exchangeVars, scanVars, StopSet, Settled, Unresolved
  <2> QED
    BY <1>2, <2>1, <1>0, QuietMove DEF ClaimRefused, repoVars
<1>3. CASE CommitClaim(w)
  <2>1. JobKnown(w) /\ pc[w] = "CLAIM_COMMIT" /\ RowHonest(job[w]) /\ pc'[w] = "PREPARE"
        /\ UNCHANGED <<scanning, job, freeSlots>> /\ ledger'[job[w]] = "PENDING"
    BY <1>0, <1>3 DEF CommitClaim, ClaimAICommit, Goto, IInv, JobKnown, TypeOK, RepoTypeOK
  <2>2. JobKnown(w)'
    BY <1>0, <1>3, <2>1 DEF CommitClaim, JobKnown, RowHonest, Unclaimed, PreSend, PreFill, AfterFill,
       exchangeVars, scanVars
  <2> QED
    BY <1>3, <2>2, <1>0, LedgerMove DEF CommitClaim, ClaimAICommit
<1> QED
  BY <1>1, <1>2, <1>3
\* An unknown outcome: the row says so, and the kill switch is next.
LEMMA UnknownKeeps ==
    ASSUME IInv, TypeOK', NEW w \in Workers, OutcomeUnknown(w),
           UNCHANGED exchangeVars, UNCHANGED scanVars, UNCHANGED lifeVars,
           pc[w] \notin NoHand, pc[w] # "SAVED"
    PROVE  IInv'
<1>1. JobKnown(w)'
  BY DEF OutcomeUnknown, Goto, IInv, JobKnown, TypeOK, Unclaimed, PreSend, PreFill, AfterFill,
     scanVars
<1>2. ledger' = [ledger EXCEPT ![job[w]] = "UNKNOWN"] /\ UNCHANGED killSwitch
      /\ Goto(w, "KILL")
  BY DEF OutcomeUnknown, MarkAI, UpdateAIExecution, UpdateExecution
<1> QED
  BY <1>1, <1>2, ExecuteLabels, LedgerMove

\* An entry refused before or by the exchange: nothing of it is left there.
LEMMA RejectedKeeps ==
    ASSUME IInv, TypeOK', NEW w \in Workers, NEW label \in {"REFUSED", "FAIL"},
           MarkAI(job[w], "REJECTED", "REJECTED"), Goto(w, label),
           UNCHANGED exchangeVars, UNCHANGED scanVars, UNCHANGED lifeVars,
           pc[w] \in PreSend \cup PreFill,
           label = "REFUSED" => pc[w] \in PreSend,
           pc[w] \in PreFill => order[job[w]] \in {"REFUSED", "REJECTED"}
    PROVE  IInv'
<1>1. /\ pc[w] \notin NoHand /\ pc[w] # "SAVED" /\ pc[w] \in WorkerPc
      /\ label \in ExecuteLabel
  BY ExecuteLabels DEF PreSend, PreFill, NoHand, Deciding, WorkerPc, SubmitStage
<1>2. job[w] \in Proposals /\ JobKnown(w) /\ RowHonest(job[w])
  BY <1>1 DEF IInv, JobKnown
<1>3. ledger' = [ledger EXCEPT ![job[w]] = "REJECTED"] /\ UNCHANGED killSwitch
  BY DEF MarkAI, UpdateAIExecution, UpdateExecution
<1>4. /\ pc'[w] = label /\ UNCHANGED <<scanning, job, freeSlots>>
      /\ ledger'[job[w]] = "REJECTED"
  BY <1>2, <1>3 DEF Goto, IInv, TypeOK, RepoTypeOK
<1>5. JobKnown(w)'
  BY <1>1, <1>2, <1>4 DEF JobKnown, Unclaimed, PreSend, PreFill, AfterFill, Settled, Unresolved,
     UnresolvedStatus, scanVars, exchangeVars
<1>6. order[job[w]] \in {"NONE", "REFUSED", "REJECTED"}
  BY <1>1, <1>2 DEF JobKnown, RowHonest
<1> QED
  BY <1>1, <1>3, <1>5, <1>6, LedgerMove

\* The create request: its sender has the claim and has sent nothing yet.
LEMMA PostEntryKeeps ==
    ASSUME IInv, TypeOK', NEW w \in Workers, PostEntry(w)
    PROVE  IInv'
<1>1. pc[w] \notin NoHand /\ pc[w] \in PreSend /\ pc[w] # "SAVED"
  BY DEF PostEntry, NoHand, Deciding, PreSend
<1>2. /\ job[w] \in Proposals /\ JobKnown(w) /\ RowHonest(job[w])
      /\ ledger[job[w]] = "PENDING" /\ posts[job[w]] = 0 /\ order[job[w]] = "NONE"
      /\ disposition[job[w]] = "SUBMITTING"
      /\ order \in [Proposals -> OrderStatus] /\ posts \in [Proposals -> Nat]
      /\ pc \in [Workers -> WorkerPc]
  BY <1>1 DEF IInv, JobKnown, RowHonest, TypeOK, ExchangeTypeOK
<1>3. /\ pc'[w] = "RESPONSE" /\ UNCHANGED <<scanning, job, freeSlots>>
      /\ posts'[job[w]] = 1 /\ order'[job[w]] = "SENT"
      /\ \A q \in Proposals \ {job[w]} : posts'[q] = posts[q] /\ order'[q] = order[q]
      /\ UNCHANGED <<ledger, killSwitch, position, protected>>
  BY <1>2 DEF PostEntry, PostCreate, Goto, repoVars
<1>4. JobKnown(w)'
  BY <1>1, <1>2, <1>3 DEF PostEntry, JobKnown, Unclaimed, PreSend, PreFill, AfterFill, scanVars
<1>5. RowHonest(job[w])'
  BY <1>2, <1>3 DEF PostEntry, RowHonest, Filled, scanVars
<1> QED
  BY <1>1, <1>3, <1>4, <1>5, ExecuteLabels, HandStep DEF PostEntry

\* The submission.
LEMMA SubmitKeeps ==
    ASSUME IInv, TypeOK', NEW w \in Workers, SubmitStep(w)
    PROVE  IInv'
<1> USE ExecuteLabels
<1>0. pc[w] \in WorkerPc
  BY DEF IInv, TypeOK
<1>1. CASE ReadClaim(w) \/ ClaimRefused(w) \/ CommitClaim(w)
  BY <1>1, ClaimKeeps
<1>2. CASE StageAdvances(w)
  <2>1. /\ pc[w] \in PreSend \ {"CREATE"} /\ pc[w] \notin NoHand
        /\ AfterStage[pc[w]] \in PreSend /\ AfterStage[pc[w]] \in ExecuteLabel
    BY <1>0, <1>2 DEF StageAdvances, SubmitStage, AfterStage, WorkerPc, PreSend, NoHand, Deciding
  <2>2. JobKnown(w)'
    BY <1>2, <2>1 DEF StageAdvances, Goto, IInv, JobKnown, TypeOK, Unclaimed, PreSend, PreFill,
       AfterFill, repoVars, exchangeVars, scanVars
  <2> QED
    BY <1>2, <2>1, <2>2, QuietMove DEF StageAdvances, repoVars
<1>3. CASE GuardRefuses(w)
  <2>1. pc[w] \in PreSend
    BY <1>0, <1>3 DEF GuardRefuses, SubmitStage, WorkerPc, PreSend
  <2> QED
    BY <1>3, <2>1, RejectedKeeps DEF GuardRefuses, PreFill, PreSend
<1>4. CASE LeverageRefused(w)
  BY <1>4, RejectedKeeps DEF LeverageRefused, PreSend, PreFill
<1>5. CASE StageFails(w)
  BY <1>0, <1>5, UnknownKeeps
     DEF StageFails, OutcomeUnknown, SubmitStage, WorkerPc, NoHand, Deciding
<1>6. CASE PostEntry(w)
  BY <1>6, PostEntryKeeps
<1>7. CASE EntryRejected(w)
  BY <1>7, RejectedKeeps DEF EntryRejected, PreSend, PreFill
<1>8. CASE EntryAccepted(w)
  <2>1. JobKnown(w)' /\ pc[w] \notin NoHand
    BY <1>8 DEF EntryAccepted, Goto, IInv, JobKnown, TypeOK, Unclaimed, PreSend, PreFill,
       AfterFill, repoVars, exchangeVars, scanVars, NoHand, Deciding
  <2> QED
    BY <1>8, <2>1, QuietMove DEF EntryAccepted, repoVars
<1>9. CASE EntryTimesOut(w)
  BY <1>9, UnknownKeeps DEF EntryTimesOut, OutcomeUnknown, NoHand, Deciding
<1> QED
  BY <1>1, <1>2, <1>3, <1>4, <1>5, <1>6, <1>7, <1>8, <1>9 DEF SubmitStep
\* A recorded fill.
LEMMA FillConfirmedKeeps ==
    ASSUME IInv, TypeOK', NEW w \in Workers, FillConfirmed(w)
    PROVE  IInv'
<1>1. pc[w] = "POLL" /\ pc[w] \notin NoHand
  BY DEF FillConfirmed, NoHand, Deciding
<1>2. job[w] \in Proposals /\ JobKnown(w) /\ ledger \in [Proposals -> LedgerStatus]
      /\ pc \in [Workers -> WorkerPc] /\ order[job[w]] \in Filled
  BY <1>1 DEF FillConfirmed, IInv, JobKnown, TypeOK, RepoTypeOK, Filled
<1>3. ledger' = [ledger EXCEPT ![job[w]] = "SUBMITTED"] /\ UNCHANGED killSwitch
      /\ Goto(w, "PROTECT") /\ UNCHANGED exchangeVars /\ UNCHANGED scanVars /\ UNCHANGED lifeVars
  BY DEF FillConfirmed, MarkAIFilled, UpdateAIExecution, UpdateExecution
<1>4. pc'[w] = "PROTECT" /\ UNCHANGED <<scanning, job, freeSlots>>
      /\ ledger'[job[w]] = "SUBMITTED"
  BY <1>2, <1>3 DEF Goto
<1>5. JobKnown(w)'
  BY <1>1, <1>2, <1>3, <1>4 DEF JobKnown, Unclaimed, PreSend, PreFill, AfterFill, scanVars,
     exchangeVars
<1> QED
  BY <1>1, <1>3, <1>5, ExecuteLabels, LedgerMove

\* The native stop is set; its worker knows it, or goes on to the emergency close.
LEMMA StopSetKeeps ==
    ASSUME IInv, TypeOK', NEW w \in Workers, ProtectionInstalled(w)
    PROVE  IInv'
<1>1. pc[w] = "PROTECT" /\ pc[w] \notin NoHand /\ position[job[w]] = "OPEN"
  BY DEF ProtectionInstalled, SetTradingStop, NoHand, Deciding
<1>2. job[w] \in Proposals /\ JobKnown(w) /\ RowHonest(job[w])
      /\ protected \in [Proposals -> BOOLEAN] /\ pc \in [Workers -> WorkerPc]
      /\ ledger[job[w]] = "SUBMITTED" /\ order[job[w]] \in Filled
  BY <1>1 DEF IInv, JobKnown, TypeOK, ExchangeTypeOK, AfterFill
<1>3. PICK label \in {"RECONCILE", "CLOSE"} : Goto(w, label)
  BY DEF ProtectionInstalled
<1>4. /\ pc'[w] = label /\ UNCHANGED <<scanning, job, freeSlots>>
      /\ protected'[job[w]] = TRUE
      /\ \A q \in Proposals \ {job[w]} : protected'[q] = protected[q]
      /\ UNCHANGED <<ledger, killSwitch, order, posts, position>>
  BY <1>2, <1>3 DEF ProtectionInstalled, SetTradingStop, Goto, repoVars
<1>5. JobKnown(w)'
  BY <1>1, <1>2, <1>4 DEF ProtectionInstalled, JobKnown, StopSet, Unclaimed, PreSend, PreFill,
     AfterFill, scanVars
<1>6. RowHonest(job[w])'
  BY <1>2, <1>4 DEF ProtectionInstalled, RowHonest, scanVars
<1> QED
  BY <1>1, <1>3, <1>4, <1>5, <1>6, ExecuteLabels, HandStep DEF ProtectionInstalled

\* Fill, protection, emergency close and reconciliation.
LEMMA SecureKeeps ==
    ASSUME IInv, TypeOK', NEW w \in Workers, SecureStep(w)
    PROVE  IInv'
<1> USE ExecuteLabels
<1>1. CASE FillConfirmed(w)
  BY <1>1, FillConfirmedKeeps
<1>2. CASE FillNotConfirmed(w)
  BY <1>2, UnknownKeeps DEF FillNotConfirmed, OutcomeUnknown, NoHand, Deciding
<1>3. CASE ProtectionInstalled(w)
  BY <1>3, StopSetKeeps
<1>4. CASE ProtectionFails(w)
  <2>1. JobKnown(w)' /\ pc[w] \notin NoHand
    BY <1>4 DEF ProtectionFails, Goto, IInv, JobKnown, TypeOK, Unclaimed, PreSend, PreFill,
       AfterFill, repoVars, exchangeVars, scanVars, NoHand, Deciding
  <2> QED
    BY <1>4, <2>1, QuietMove DEF ProtectionFails, repoVars
<1>5. CASE EmergencyCloseAccepted(w)
  <2>1. ledger' = [ledger EXCEPT ![job[w]] = "EMERGENCY_CLOSED"] /\ UNCHANGED killSwitch
    BY <1>5 DEF EmergencyCloseAccepted, MarkAI, UpdateAIExecution, UpdateExecution
  <2>2. JobKnown(w)' /\ pc[w] \notin NoHand /\ pc[w] # "SAVED"
    BY <1>5 DEF EmergencyCloseAccepted, Goto, IInv, JobKnown, TypeOK, Unclaimed, PreSend,
       PreFill, AfterFill, scanVars, NoHand, Deciding
  <2> QED
    BY <1>5, <2>1, <2>2, LedgerMove DEF EmergencyCloseAccepted
<1>6. CASE EmergencyCloseFails(w)
  BY <1>6, UnknownKeeps DEF EmergencyCloseFails, OutcomeUnknown, NoHand, Deciding
<1>7. CASE ReconcileMatches(w)
  <2>1. ledger' = [ledger EXCEPT ![job[w]] = "FILLED_PROTECTED"] /\ UNCHANGED killSwitch
    BY <1>7 DEF ReconcileMatches, MarkAI, UpdateAIExecution, UpdateExecution
  <2>2. /\ pc[w] = "RECONCILE" /\ pc[w] \notin NoHand /\ job[w] \in Proposals /\ JobKnown(w)
        /\ StopSet(job[w]) /\ ledger \in [Proposals -> LedgerStatus]
    BY <1>7 DEF ReconcileMatches, IInv, JobKnown, TypeOK, RepoTypeOK, NoHand, Deciding
  <2>3. pc'[w] = "OPENED" /\ UNCHANGED <<scanning, job, freeSlots>>
        /\ ledger'[job[w]] = "FILLED_PROTECTED"
    BY <1>7, <2>1, <2>2 DEF ReconcileMatches, Goto, IInv, TypeOK
  <2>4. JobKnown(w)'
    BY <1>7, <2>2, <2>3 DEF ReconcileMatches, JobKnown, Unclaimed, PreSend, PreFill, AfterFill,
       scanVars
  <2> QED
    BY <1>7, <2>1, <2>2, <2>4, LedgerMove DEF ReconcileMatches
<1>8. CASE ReconcileMismatch(w)
  BY <1>8, UnknownKeeps DEF ReconcileMismatch, OutcomeUnknown, NoHand, Deciding
<1>9. CASE SnapshotFails(w)
  <2>1. /\ pc[w] = "RECONCILE" /\ pc[w] \notin NoHand /\ JobKnown(w) /\ pc'[w] = "FAIL"
        /\ UNCHANGED <<scanning, job, freeSlots>>
    BY <1>9 DEF SnapshotFails, Goto, IInv, TypeOK, NoHand, Deciding
  <2>2. JobKnown(w)'
    BY <1>9, <2>1 DEF SnapshotFails, JobKnown, Unclaimed, PreSend, PreFill, AfterFill, Settled,
       StopSet, repoVars, exchangeVars, scanVars
  <2> QED
    BY <1>9, <2>1, <2>2, QuietMove DEF SnapshotFails, repoVars
<1>10. CASE KillAfterFailure(w)
  <2>1. /\ pc[w] = "KILL" /\ pc[w] \notin NoHand /\ JobKnown(w) /\ pc'[w] = "FAIL"
        /\ UNCHANGED <<scanning, job, freeSlots>> /\ killSwitch' /\ UNCHANGED ledger
    BY <1>10 DEF KillAfterFailure, ActivateKillSwitch, recordVars, Goto, IInv, TypeOK, NoHand,
       Deciding
  <2>2. JobKnown(w)'
    BY <1>10, <2>1 DEF KillAfterFailure, JobKnown, Unclaimed, PreSend, PreFill, AfterFill,
       Settled, scanVars
  <2> QED
    BY <1>10, <2>1, <2>2, QuietMove DEF KillAfterFailure
<1> QED
  BY <1>1, <1>2, <1>3, <1>4, <1>5, <1>6, <1>7, <1>8, <1>9, <1>10 DEF SecureStep

\* A candidate is taken up.
LEMMA TakeKeeps ==
    ASSUME IInv, TypeOK', NEW w \in Workers, NEW p \in Proposals,
           SkipCandidate(w, p) \/ CandidateRefused(w, p) \/ SaveProposal(w, p)
    PROVE  IInv'
<1>1. PICK label \in {"BATCH", "SAVED"} : Take(w, p, label) /\ (label = "SAVED" => SaveProposal(w, p))
  BY DEF SkipCandidate, CandidateRefused, SaveProposal
<1>2. /\ pc[w] = "BATCH" /\ p \in todo[w] /\ ScanOf[p] = scanning[w]
      /\ disposition[p] = "CANDIDATE" /\ ledger[p] = "NONE" /\ RowHonest(p)
      /\ disposition \in [Proposals -> Disposition] /\ pc \in [Workers -> WorkerPc]
      /\ job \in [Workers -> Proposals \cup {NoProposal}]
      /\ todo \in [Workers -> SUBSET Proposals] /\ freeSlots \in [Workers -> 0 .. MaxPositions]
  BY <1>1 DEF Take, IInv, TodoIsFresh, TypeOK
<1>3. /\ pc'[w] = label /\ job'[w] = p /\ todo'[w] = todo[w] \ {p}
      /\ \A v \in Workers \ {w} : pc'[v] = pc[v] /\ job'[v] = job[v] /\ todo'[v] = todo[v]
      /\ UNCHANGED <<scanning, freeSlots>>
  BY <1>1, <1>2 DEF Take
<1>4. /\ UNCHANGED <<ledger, killSwitch, order, posts, position, protected, scan, abandoned>>
      /\ \A q \in Proposals \ {p} : disposition'[q] = disposition[q]
      /\ label = "SAVED" => disposition'[p] = "CANDIDATE"
  BY <1>1, <1>2 DEF SkipCandidate, CandidateRefused, SaveProposal, SaveAIProposal, SetDisposition,
     repoVars, exchangeVars, scanVars, lifeVars
<1>5. OwnStep(w, p)
  BY <1>2, <1>3, <1>4 DEF OwnStep, Mine, WorkerKept, RowKept, Deciding, NoHand
<1>6. label = "SAVED" => freeSlots[w] > 0
  BY <1>1, <1>2, AIAssumption DEF SaveProposal, Skips
<1>7. JobKnown(w)'
  BY <1>2, <1>3, <1>4, <1>6 DEF JobKnown, NoHand, Unclaimed, PreSend, PreFill, AfterFill
<1>8. posts[p] = 0
  BY <1>2 DEF RowHonest
<1>9. disposition'[p] # "FILLED_PROTECTED"
  BY <1>2 DEF SkipCandidate, CandidateRefused, SaveProposal, SetDisposition, scanVars
<1>10. RowHonest(p)'
  BY <1>2, <1>4, <1>8, <1>9 DEF RowHonest
<1>11. Settled(p)'
  BY <1>2, <1>4 DEF Settled, Unresolved, UnresolvedStatus
<1> QED
  BY <1>5, <1>7, <1>10, <1>11, OwnStepKeeps
\* The decision row of the entry in hand is written.
LEMMA DispositionKeeps ==
    ASSUME IInv, TypeOK', NEW w \in Workers,
           MarkSubmitting(w) \/ RefusalContinues(w) \/ RecordOpened(w) \/ FailureBreaks(w)
    PROVE  IInv'
<1>1. /\ pc[w] \in {"SAVED", "REFUSED", "OPENED", "FAIL"} /\ pc[w] \notin NoHand
      /\ job[w] \in Proposals /\ JobKnown(w) /\ RowHonest(job[w]) /\ job[w] \notin todo[w]
  BY DEF MarkSubmitting, RefusalContinues, RecordOpened, FailureBreaks, IInv, JobKnown,
     TodoIsFresh, NoHand, Deciding
<1>2. /\ disposition \in [Proposals -> Disposition] /\ pc \in [Workers -> WorkerPc]
      /\ job \in [Workers -> Proposals \cup {NoProposal}] /\ scanning \in [Workers -> 0 .. Slots]
      /\ todo \in [Workers -> SUBSET Proposals] /\ freeSlots \in [Workers -> 0 .. MaxPositions]
  BY DEF IInv, TypeOK
<1>3. /\ UNCHANGED <<ledger, killSwitch, order, posts, position, protected, scan, abandoned>>
      /\ \A q \in Proposals \ {job[w]} : disposition'[q] = disposition[q]
  BY <1>1, <1>2 DEF MarkSubmitting, RefusalContinues, RecordOpened, FailureBreaks,
     SetDisposition, repoVars, exchangeVars, lifeVars
<1>4. /\ \A v \in Workers \ {w} : WorkerKept(v)
      /\ pc'[w] \in {"CLAIM", "BATCH", "IDLE"}
      /\ pc'[w] = "CLAIM" <=> MarkSubmitting(w)
      /\ IF pc'[w] = "IDLE" THEN job'[w] = NoProposal /\ todo'[w] = {}
         ELSE UNCHANGED <<scanning, todo, job>>
  <2>1. CASE MarkSubmitting(w)
    BY <2>1, <1>2 DEF MarkSubmitting, Goto, WorkerKept
  <2>2. CASE RefusalContinues(w)
    BY <2>2, <1>2 DEF RefusalContinues, Goto, WorkerKept, MarkSubmitting
  <2>3. CASE RecordOpened(w)
    BY <2>3, <1>2 DEF RecordOpened, WorkerKept, MarkSubmitting
  <2>4. CASE FailureBreaks(w)
    BY <2>4, <1>2 DEF FailureBreaks, EndCycle, WorkerKept, MarkSubmitting
  <2> QED
    BY <2>1, <2>2, <2>3, <2>4
<1>5. OwnStep(w, job[w])
  BY <1>1, <1>3, <1>4 DEF OwnStep, Mine, RowKept, NoHand, Deciding
<1>6. /\ disposition'[job[w]] \in {"SUBMITTING", "BLOCKED", "FILLED_PROTECTED", "FAILED_CLOSED"}
      /\ disposition'[job[w]] = "BLOCKED" => pc[w] = "REFUSED"
      /\ disposition'[job[w]] = "FILLED_PROTECTED" => pc[w] = "OPENED"
      /\ MarkSubmitting(w) => disposition'[job[w]] = "SUBMITTING" /\ pc[w] = "SAVED"
  BY <1>1, <1>2 DEF MarkSubmitting, RefusalContinues, RecordOpened, FailureBreaks, SetDisposition
<1>7. JobKnown(w)'
  <2>1. CASE MarkSubmitting(w)
    <3>1. pc'[w] = "CLAIM" /\ UNCHANGED <<scanning, job, freeSlots>>
      BY <2>1, <1>2 DEF MarkSubmitting, Goto
    <3> QED
      BY <2>1, <3>1, <1>1, <1>3, <1>6 DEF JobKnown, Unclaimed, PreSend, PreFill, AfterFill
  <2>2. CASE ~MarkSubmitting(w)
    BY <2>2, <1>4 DEF JobKnown, NoHand
  <2> QED
    BY <2>1, <2>2
<1>8. RowHonest(job[w]) /\ (pc[w] = "REFUSED" => posts[job[w]] = 0)
      /\ (pc[w] = "OPENED" => ledger[job[w]] = "FILLED_PROTECTED")
  BY <1>1 DEF JobKnown
<1>9. PICK p \in Proposals : p = job[w]
  BY <1>1
<1>10. RowHonest(p)'
  BY <1>3, <1>6, <1>8, <1>9 DEF RowHonest
<1>11. pc'[w] \notin NoHand \/ Settled(p)'
  <2>1. pc[w] # "SAVED" => Settled(p)
    BY <1>1, <1>9 DEF JobKnown, Settled, Unresolved, UnresolvedStatus
  <2>2. Settled(p) => Settled(p)'
    BY <1>3 DEF Settled, StopSet, Unresolved
  <2>3. pc[w] = "SAVED" => pc'[w] = "CLAIM"
    BY <1>4 DEF MarkSubmitting, RefusalContinues, RecordOpened, FailureBreaks
  <2> QED
    BY <2>1, <2>2, <2>3 DEF NoHand, Deciding
<1> QED
  BY <1>5, <1>7, <1>9, <1>10, <1>11, OwnStepKeeps

\* A worker leaves its scan: nothing in hand, or its process died with it.
LEMMA LeavingKeeps ==
    ASSUME IInv, TypeOK', NEW w \in Workers, pc[w] # "IDLE", EndCycle(w),
           UNCHANGED <<ledger, killSwitch, disposition>>, UNCHANGED exchangeVars,
           \/ scan' = scan
           \/ pc[w] \in Deciding /\ scan' = [scan EXCEPT ![scanning[w]] = "FAILED"],
           abandoned \subseteq abandoned',
           \A p \in Proposals : Handles(w, p) => p \in abandoned' \/ Settled(p)
    PROVE  IInv'
<1>1. /\ pc'[w] = "IDLE" /\ job'[w] = NoProposal /\ todo'[w] = {}
      /\ \A v \in Workers \ {w} : WorkerKept(v)
  BY DEF EndCycle, WorkerKept, IInv, TypeOK
<1>2. \A s \in 1 .. Slots :
          /\ scan'[s] = scan[s] \/ (pc[w] \in Deciding /\ s = scanning[w])
          /\ scan'[s] = "COMPLETED" => scan[s] = "COMPLETED"
          /\ scan[s] = "COMPLETED" => scan'[s] = "COMPLETED"
  BY DEF IInv, TypeOK, ScansOwned, ScanKnown, Deciding
<1>3. ScansOwned'
  <2>1. ASSUME NEW v \in Workers \ {w}, pc[v] # "IDLE"
        PROVE  scanning[v] \in 1 .. Slots /\ scan'[scanning[v]] = scan[scanning[v]]
    <3>1. scanning[v] \in 1 .. Slots /\ scanning[v] # scanning[w]
      BY <2>1 DEF IInv, ScansOwned, ScanKnown
    <3> QED
      BY <1>2, <3>1
  <2>2. \A v \in Workers : ScanKnown(v)'
    BY <1>1, <2>1 DEF IInv, ScansOwned, ScanKnown, WorkerKept
  <2>3. \A u, v \in Workers :
            pc'[u] # "IDLE" /\ pc'[v] # "IDLE" /\ scanning'[u] = scanning'[v] => u = v
    BY <1>1 DEF IInv, ScansOwned, WorkerKept
  <2> QED
    BY <2>2, <2>3 DEF ScansOwned
<1>4. ASSUME NEW v \in Workers PROVE TodoIsFresh(v)' /\ JobKnown(v)'
  <2>1. CASE v = w
    BY <1>1, <2>1 DEF TodoIsFresh, JobKnown, NoHand
  <2>2. CASE v # w
    BY <1>1, <2>2 DEF WorkerKept, IInv, TodoIsFresh, JobKnown, StopSet, Settled, Unresolved,
       exchangeVars
  <2> QED
    BY <2>1, <2>2
<1>5. ASSUME NEW p \in Proposals PROVE Undecided(p)' /\ RowHonest(p)' /\ LeftSettled(p)'
  <2>1. ScanOf[p] \in 1 .. Slots
    BY AIAssumption
  <2>2. Undecided(p)' /\ RowHonest(p)'
    <3>1. Undecided(p) /\ RowHonest(p)
      BY DEF IInv
    <3>2. scan'[ScanOf[p]] # "COMPLETED" => scan[ScanOf[p]] # "COMPLETED"
      BY <1>2, <2>1
    <3>3. ledger' = ledger /\ disposition' = disposition
      OBVIOUS
    <3>4. Undecided(p)'
      BY <3>1, <3>2, <3>3 DEF Undecided
    <3>5. RowHonest(p)'
      BY <3>1, <3>3 DEF RowHonest, exchangeVars
    <3> QED
      BY <3>4, <3>5
  <2>3. Settled(p) => Settled(p)'
    BY DEF Settled, StopSet, Unresolved, exchangeVars
  <2>4. \A v \in Workers \ {w} : Handles(v, p)' <=> Handles(v, p)
    BY <1>1 DEF WorkerKept, Handles
  <2>5. LeftSettled(p)'
    BY <1>1, <2>3, <2>4 DEF IInv, LeftSettled
  <2> QED
    BY <2>2, <2>5
<1> QED
  BY <1>3, <1>4, <1>5 DEF IInv

\* A slot's row is inserted: nobody else scans it.
LEMMA BeginScanKeeps ==
    ASSUME IInv, TypeOK', NEW w \in Workers, BeginScan(w)
    PROVE  IInv'
<1>1. /\ pc[w] = "IDLE" /\ pc'[w] = "READ" /\ scanning'[w] = slotNow
      /\ job'[w] = NoProposal /\ todo'[w] = {}
      /\ slotNow \in 1 .. Slots /\ scan[slotNow] = "NONE" /\ scan'[slotNow] = "RUNNING"
      /\ \A s \in 1 .. Slots : s # slotNow => scan'[s] = scan[s]
      /\ \A v \in Workers \ {w} : WorkerKept(v)
      /\ UNCHANGED <<ledger, killSwitch, disposition, abandoned, order, posts, position, protected>>
  BY DEF BeginScan, WorkerKept, IInv, TypeOK, ScansOwned, ScanKnown, repoVars, exchangeVars,
     lifeVars
<1>2. \A v \in Workers \ {w} : pc[v] # "IDLE" => scanning[v] \in 1 .. Slots /\ scanning[v] # slotNow
  BY <1>1 DEF IInv, ScansOwned, ScanKnown
<1>3. ScansOwned'
  <2>1. \A v \in Workers : ScanKnown(v)'
    BY <1>1, <1>2 DEF IInv, ScansOwned, ScanKnown, WorkerKept, Deciding
  <2>2. \A u, v \in Workers :
            pc'[u] # "IDLE" /\ pc'[v] # "IDLE" /\ scanning'[u] = scanning'[v] => u = v
    BY <1>1, <1>2 DEF IInv, ScansOwned, WorkerKept
  <2> QED
    BY <2>1, <2>2 DEF ScansOwned
<1>4. ASSUME NEW v \in Workers PROVE TodoIsFresh(v)' /\ JobKnown(v)'
  <2>1. CASE v = w
    BY <1>1, <2>1 DEF TodoIsFresh, JobKnown, NoHand, Deciding
  <2>2. CASE v # w
    BY <1>1, <2>2 DEF WorkerKept, IInv, TodoIsFresh, JobKnown, StopSet, Settled, Unresolved
  <2> QED
    BY <2>1, <2>2
<1>5. ASSUME NEW p \in Proposals PROVE Undecided(p)' /\ RowHonest(p)' /\ LeftSettled(p)'
  <2>1. ScanOf[p] \in 1 .. Slots
    BY AIAssumption
  <2>2. Undecided(p)' /\ RowHonest(p)'
    BY <1>1, <2>1 DEF IInv, Undecided, RowHonest
  <2>3. Settled(p) => Settled(p)'
    BY <1>1 DEF Settled, StopSet, Unresolved
  <2>4. \A v \in Workers : Handles(v, p) => Handles(v, p)'
    BY <1>1 DEF WorkerKept, Handles
  <2>5. LeftSettled(p)'
    BY <1>1, <2>3, <2>4 DEF IInv, LeftSettled
  <2> QED
    BY <2>2, <2>5
<1> QED
  BY <1>3, <1>4, <1>5 DEF IInv
\* The decisions of a scan are stored, all at once.
LEMMA CompleteScanKeeps ==
    ASSUME IInv, TypeOK', NEW w \in Workers, CompleteScan(w)
    PROVE  IInv'
<1>1. /\ pc[w] = "DECIDE" /\ pc'[w] = "BATCH" /\ scanning' = scanning
      /\ scanning[w] \in 1 .. Slots /\ scan[scanning[w]] = "RUNNING"
      /\ scan'[scanning[w]] = "COMPLETED"
      /\ \A s \in 1 .. Slots : s # scanning[w] => scan'[s] = scan[s]
      /\ \A v \in Workers \ {w} : WorkerKept(v)
      /\ UNCHANGED <<ledger, killSwitch, abandoned, order, posts, position, protected>>
  BY DEF CompleteScan, WorkerKept, IInv, TypeOK, ScansOwned, ScanKnown, Deciding, repoVars,
     exchangeVars, lifeVars
<1>2. \A v \in Workers \ {w} :
          pc[v] # "IDLE" => scanning[v] \in 1 .. Slots /\ scanning[v] # scanning[w]
  BY <1>1 DEF IInv, ScansOwned, ScanKnown
<1>3. \A p \in Proposals : ScanOf[p] # scanning[w] => disposition'[p] = disposition[p]
  BY DEF CompleteScan
<1>4. \A p \in Proposals : ScanOf[p] = scanning[w] =>
          /\ disposition[p] = "NONE" /\ ledger[p] = "NONE" /\ posts[p] = 0
          /\ disposition'[p] \in {"WAIT", "CANDIDATE"}
  BY <1>1 DEF CompleteScan, IInv, Undecided, RowHonest
<1>5. \A p \in todo'[w] : p \in Proposals /\ ScanOf[p] = scanning[w] /\ disposition'[p] = "CANDIDATE"
  BY DEF CompleteScan, IInv, TypeOK
<1>6. ScansOwned'
  <2>1. \A v \in Workers : ScanKnown(v)'
    BY <1>1, <1>2 DEF IInv, ScansOwned, ScanKnown, WorkerKept, Deciding
  <2>2. \A u, v \in Workers :
            pc'[u] # "IDLE" /\ pc'[v] # "IDLE" /\ scanning'[u] = scanning'[v] => u = v
    BY <1>1, <1>2 DEF IInv, ScansOwned, WorkerKept
  <2> QED
    BY <2>1, <2>2 DEF ScansOwned
<1>7. ASSUME NEW v \in Workers PROVE TodoIsFresh(v)' /\ JobKnown(v)'
  <2>1. CASE v = w
    BY <1>1, <1>4, <1>5, <2>1 DEF TodoIsFresh, JobKnown, NoHand
  <2>2. CASE v # w
    <3>1. WorkerKept(v)
      BY <1>1, <2>2
    <3>2. todo[v] \subseteq Proposals /\ (pc[v] = "IDLE" => todo[v] = {})
      BY DEF IInv, TypeOK, ScansOwned, ScanKnown
    <3>3. \A p \in todo[v] : disposition'[p] = disposition[p]
      BY <1>2, <1>3, <2>2, <3>2 DEF IInv, TodoIsFresh
    <3>4. TodoIsFresh(v)'
      BY <1>1, <3>1, <3>3 DEF IInv, TodoIsFresh, WorkerKept
    <3>5. pc[v] \notin NoHand => disposition'[job[v]] = disposition[job[v]]
      BY <1>2, <1>3, <2>2 DEF IInv, JobKnown, NoHand
    <3>6. JobKnown(v)'
      BY <1>1, <3>1, <3>5 DEF IInv, JobKnown, WorkerKept, StopSet, Settled, Unresolved
    <3> QED
      BY <3>4, <3>6
  <2> QED
    BY <2>1, <2>2
<1>8. ASSUME NEW p \in Proposals PROVE Undecided(p)' /\ RowHonest(p)' /\ LeftSettled(p)'
  <2>1. ScanOf[p] \in 1 .. Slots
    BY AIAssumption
  <2>2. Undecided(p)'
    BY <1>1, <1>3, <2>1 DEF IInv, Undecided
  <2>3. RowHonest(p)'
    BY <1>1, <1>3, <1>4 DEF IInv, RowHonest
  <2>4. Settled(p) => Settled(p)'
    BY <1>1 DEF Settled, StopSet, Unresolved
  <2>5. \A v \in Workers \ {w} : Handles(v, p)' <=> Handles(v, p)
    BY <1>1 DEF WorkerKept, Handles
  <2>6. ~Handles(w, p)
    BY <1>1, AIAssumption DEF IInv, ScansOwned, ScanKnown, Handles, Deciding
  <2>7. LeftSettled(p)'
    BY <1>1, <2>4, <2>5, <2>6 DEF IInv, LeftSettled
  <2> QED
    BY <2>2, <2>3, <2>7
<1> QED
  BY <1>6, <1>7, <1>8 DEF IInv
\* A step that leaves scans, decisions, workers and the ledger alone, and at most stops
\* trading.
LEMMA BystanderKeeps ==
    ASSUME IInv, TypeOK', UNCHANGED <<scan, disposition, ledger>>, UNCHANGED exchangeVars,
           UNCHANGED lifeVars, \A w \in Workers : WorkerKept(w), killSwitch => killSwitch'
    PROVE  IInv'
<1> USE DEF exchangeVars, lifeVars
<1>1. \A p \in Proposals : Settled(p) => Settled(p)'
  BY DEF Settled, StopSet, Unresolved
<1>2. ScansOwned'
  BY DEF IInv, ScansOwned, ScanKnown, WorkerKept
<1>3. \A w \in Workers : TodoIsFresh(w)' /\ JobKnown(w)'
  BY DEF IInv, TodoIsFresh, JobKnown, WorkerKept, StopSet, Settled, Unresolved
<1>4. \A p \in Proposals : Undecided(p)' /\ RowHonest(p)'
  BY DEF IInv, Undecided, RowHonest
<1>5. \A p \in Proposals : LeftSettled(p)'
  BY <1>1 DEF IInv, LeftSettled, Handles, WorkerKept
<1> QED
  BY <1>2, <1>3, <1>4, <1>5 DEF IInv

\* The account is read: free slots and open symbols are the worker's own.
LEMMA ReadMarketKeeps ==
    ASSUME IInv, TypeOK', NEW w \in Workers, ReadMarket(w)
    PROVE  IInv'
<1>1. /\ pc[w] = "READ" /\ pc'[w] = "DECIDE"
      /\ UNCHANGED <<scanning, job, todo>>
      /\ \A v \in Workers \ {w} : WorkerKept(v)
      /\ UNCHANGED <<ledger, killSwitch, scan, disposition, abandoned, order, posts, position,
                     protected>>
  BY DEF ReadMarket, WorkerKept, IInv, TypeOK, repoVars, exchangeVars, scanVars, lifeVars
<1>2. ScansOwned'
  BY <1>1 DEF IInv, ScansOwned, ScanKnown, WorkerKept, Deciding
<1>3. ASSUME NEW v \in Workers PROVE TodoIsFresh(v)' /\ JobKnown(v)'
  <2>1. CASE v = w
    BY <1>1, <2>1 DEF IInv, ScansOwned, ScanKnown, TodoIsFresh, JobKnown, NoHand, Deciding
  <2>2. CASE v # w
    BY <1>1, <2>2 DEF WorkerKept, IInv, TodoIsFresh, JobKnown, StopSet, Settled, Unresolved
  <2> QED
    BY <2>1, <2>2
<1>4. ASSUME NEW p \in Proposals PROVE Undecided(p)' /\ RowHonest(p)' /\ LeftSettled(p)'
  <2>1. Undecided(p)' /\ RowHonest(p)'
    BY <1>1 DEF IInv, Undecided, RowHonest
  <2>2. \A v \in Workers : Handles(v, p)' <=> Handles(v, p)
    BY <1>1 DEF WorkerKept, Handles
  <2>3. Settled(p) => Settled(p)'
    BY <1>1 DEF Settled, StopSet, Unresolved
  <2> QED
    BY <1>1, <2>1, <2>2, <2>3 DEF IInv, LeftSettled
<1> QED
  BY <1>2, <1>3, <1>4 DEF IInv

\* Whatever the exchange does with an order, the rows keep their word.
LEMMA BybitKeeps ==
    ASSUME IInv, TypeOK', NEW p \in Proposals, BybitStep(p)
    PROVE  IInv'
<1> USE DEF repoVars, scanVars, workerVars, lifeVars
<1>1. /\ order \in [Proposals -> OrderStatus] /\ position \in [Proposals -> PositionStatus]
      /\ protected \in [Proposals -> BOOLEAN]
  BY DEF IInv, TypeOK, ExchangeTypeOK
<1>2. /\ \A q \in Proposals \ {p} : RowKept(q)
      /\ ledger' = ledger /\ posts' = posts /\ disposition' = disposition
      /\ \/ /\ order[p] = "SENT" /\ order'[p] \in {"NEW", "REFUSED"}
            /\ position'[p] = position[p] /\ protected'[p] = protected[p]
         \/ /\ order[p] = "NEW" /\ order'[p] \in Filled
            /\ position'[p] = "OPEN" /\ protected'[p] = protected[p]
         \/ /\ order[p] = "NEW" /\ order'[p] \in {"CANCELLED", "REJECTED"}
            /\ position'[p] = position[p] /\ protected'[p] = protected[p]
         \/ /\ position[p] = "OPEN" /\ position'[p] = "CLOSED"
            /\ order'[p] = order[p]
  <2> USE DEF BybitStep, RowKept
  <2>1. CASE CreateArrives(p)
    BY <1>1, <2>1 DEF CreateArrives
  <2>2. CASE OrderFills(p)
    BY <1>1, <2>2 DEF OrderFills, Filled
  <2>3. CASE OrderEndsUnfilled(p)
    BY <1>1, <2>3 DEF OrderEndsUnfilled
  <2>4. CASE PositionCloses(p)
    BY <1>1, <2>4 DEF PositionCloses
  <2> QED
    BY <2>1, <2>2, <2>3, <2>4 DEF ExchangeStep
<1>3. /\ UNCHANGED <<scan, killSwitch, abandoned, pc, scanning, job, todo, freeSlots>>
  BY DEF BybitStep
<1>4. RowHonest(p) /\ (StopSet(p) => StopSet(p)') /\ (order[p] \in Filled => order'[p] \in Filled)
  BY <1>2 DEF IInv, RowHonest, StopSet, Filled
<1>5. ScansOwned'
  BY <1>3 DEF IInv, ScansOwned, ScanKnown
<1>6. \A q \in Proposals : /\ StopSet(q) => StopSet(q)'
                           /\ Settled(q) => Settled(q)'
                           /\ order[q] \in Filled => order'[q] \in Filled
  BY <1>2, <1>3, <1>4 DEF RowKept, StopSet, Settled, Unresolved
<1>7. \A w \in Workers : TodoIsFresh(w)'
  BY <1>2, <1>3 DEF IInv, TodoIsFresh
<1>8. ASSUME NEW w \in Workers PROVE JobKnown(w)'
  <2>1. JobKnown(w)
    BY DEF IInv
  <2> QED
    BY <1>2, <1>3, <1>6, <2>1 DEF JobKnown
<1>9. \A q \in Proposals : Undecided(q)' /\ LeftSettled(q)'
  BY <1>2, <1>3, <1>6 DEF IInv, Undecided, LeftSettled, Handles
<1>10. \A q \in Proposals : RowHonest(q)'
  <2>1. RowHonest(p)'
    BY <1>2, <1>4 DEF RowHonest, Filled
  <2>2. \A q \in Proposals \ {p} : RowHonest(q)'
    BY <1>2 DEF IInv, RowHonest, RowKept
  <2> QED
    BY <2>1, <2>2
<1> QED
  BY <1>5, <1>7, <1>8, <1>9, <1>10 DEF IInv

\* Every step keeps the invariant.
LEMMA NextIInv ==
    ASSUME IInv, [Next]_vars
    PROVE  IInv'
<1> USE DEF scanVars, workerVars, lifeVars, repoVars, recordVars
<1>0. TypeOK'
  BY NextTypeOK
<1>1. ASSUME NEW w \in Workers, BeginScan(w) PROVE IInv'
  BY <1>0, <1>1, BeginScanKeeps
<1>2. ASSUME NEW w \in Workers, ReadMarket(w) \/ CompleteScan(w) PROVE IInv'
  BY <1>0, <1>2, ReadMarketKeeps, CompleteScanKeeps
<1>3. ASSUME NEW w \in Workers, FailScan(w) PROVE IInv'
  <2>1. \A p \in Proposals : ~Handles(w, p)
    BY <1>3, AIAssumption DEF FailScan, IInv, ScansOwned, ScanKnown, Handles, Deciding
  <2> QED
    BY <1>0, <1>3, <2>1, LeavingKeeps DEF FailScan, Deciding
<1>4. ASSUME NEW w \in Workers, BatchEnds(w) PROVE IInv'
  <2>1. \A p \in Proposals : ~Handles(w, p)
    BY <1>4 DEF BatchEnds, Handles
  <2> QED
    BY <1>0, <1>4, <2>1, LeavingKeeps DEF BatchEnds
<1>5. ASSUME NEW w \in Workers, Restart(w) PROVE IInv'
  <2>1. \A p \in Proposals : Handles(w, p) => p \in abandoned'
    BY <1>5 DEF Restart
  <2> QED
    BY <1>0, <1>5, <2>1, LeavingKeeps DEF Restart
<1>6. ASSUME NEW w \in Workers, BatchStep(w) PROVE IInv'
  BY <1>0, <1>4, <1>6, TakeKeeps, DispositionKeeps DEF BatchStep
<1>7. ASSUME NEW w \in Workers, SubmitStep(w) \/ SecureStep(w) PROVE IInv'
  BY <1>0, <1>7, SubmitKeeps, SecureKeeps
<1>8. CASE NextSlot \/ TelegramEmergency \/ (\E p \in Proposals : ApprovalAges(p)) \/ UNCHANGED vars
  <2>1. UNCHANGED <<scan, disposition, ledger>> /\ UNCHANGED exchangeVars /\ UNCHANGED lifeVars
        /\ UNCHANGED workerVars /\ (killSwitch => killSwitch')
    BY <1>8 DEF NextSlot, TelegramEmergency, ApprovalAges, ApprovalExpires, ActivateKillSwitch, vars
  <2> QED
    BY <1>0, <2>1, BystanderKeeps DEF WorkerKept
<1>9. ASSUME NEW p \in Proposals, BybitStep(p) PROVE IInv'
  BY <1>0, <1>9, BybitKeeps
<1> QED
  BY <1>1, <1>2, <1>3, <1>5, <1>6, <1>7, <1>8, <1>9 DEF Next, WorkerStep, CycleStep

\* The inductive invariant holds in every reachable state.
LEMMA Invariance == Spec => []IInv
  BY InitIInv, NextIInv, PTL DEF Spec

(***************************************************************************)
(* Theorems                                                                *)
(***************************************************************************)

\* The tables, the scans, the workers and the exchange stay within their types.  That
\* free_slots is never counted below zero rests on JobKnown: a worker with a candidate
\* in hand has a slot left.
THEOREM TypeCorrect == Spec => []TypeOK
<1>1. IInv => TypeOK
  BY DEF IInv
<1> QED
  BY <1>1, Invariance, PTL

\* The autonomous path posts no client order id twice, and its rows REJECTED and
\* FILLED_PROTECTED stay true, though it takes no entry lock.
THEOREM EntriesHonest == Spec => []EntriesAreHonest
<1>1. IInv => EntriesAreHonest
  BY DEF IInv, RowHonest, EntriesAreHonest, AtMostOneEntry, LedgerNeverFlatters
<1> QED
  BY <1>1, Invariance, PTL

\* A decision row that says an entry was blocked, skipped or never wanted is never wrong.
THEOREM DispositionHonest == Spec => []DispositionIsHonest
<1>1. IInv => DispositionIsHonest
  BY DEF IInv, RowHonest, DispositionIsHonest
<1> QED
  BY <1>1, Invariance, PTL

\* Every way execute ends leaves the entry settled or trading stopped; a death of the
\* process is the only one that does not.
THEOREM NothingLeftOpen == Spec => []SettledOrStopped
<1>1. IInv => SettledOrStopped
  BY DEF IInv, LeftSettled, Settled, StopSet, SettledOrStopped
<1> QED
  BY <1>1, Invariance, PTL

(***************************************************************************)
(* AIEntryGates                                                            *)
(*                                                                         *)
(* The safety properties look at the moment of the order; GatesInv carries *)
(* what each read established from the step that made it to that moment,   *)
(* against a clock, a market, a venue and a position that do not wait.     *)
(***************************************************************************)
\* The account has been read; the candidate has been admitted.
AfterAccount == {"FEES", "DECIDE", "CLOSES", "QUOTE", "GUARD_FEES", "EDGE", "POST"}
Admitted     == {"QUOTE", "GUARD_FEES", "EDGE", "POST"}

LastClose == closes[Len(closes)]

\* The times a cycle carries are not in the future.
TimesArePast == cycle.at <= now /\ cycle.readAt <= now /\ cycle.feeAt <= now

\* The rate in force was last charged now, and a saved one no earlier than its stamp.
RateIsCharged == lastCharged[rate] = now

CacheIsHonest ==
    cache # NoRate => lastCharged[cache.rate] >= cache.verified /\ cache.verified <= now

\* The guard's rate is as recent as the answer or the cache it came from.
FeeInHand ==
    step \in {"EDGE", "POST"} =>
        cycle.fee \in Rates /\ lastCharged[cycle.fee] >= cycle.feeAt - MaxAge

\* A symbol that was free when the account was read is free, and was last closed before.
AccountIsCurrent ==
    step \in AfterAccount /\ ~cycle.held =>
        holding = NoPosition /\ (closes # <<>> => LastClose.at <= cycle.readAt)

ClosesArePast == closes # <<>> => LastClose.at <= now

DecisionInHand == step \in Admitted \cup {"CLOSES"} => cycle.decision \in Decisions

\* An admitted candidate's symbol was free and, as the cycle sees it, not cooling down.
NotCoolingDown ==
    step \in Admitted =>
        /\ ~cycle.held
        /\ closes # <<>> /\ LastClose.at <= cycle.at /\ cycle.at - LastClose.at < Cooldown
               => LastClose.reason # "SL" /\ LastClose.side = cycle.decision.side

\* Its levels are prices.
LevelsArePrices ==
    step \in Admitted =>
        Levels(cycle.decision).stop > 0 /\ Levels(cycle.decision).target > 0

\* The order that leaves clears the gate at the guard's own quote and rate.
EdgeInHand ==
    step = "POST" => CostAwareEdge(Levels(cycle.decision), cycle.fresh, cycle.fee)

\* So did the order behind a position; it paid a rate of the venue.
EdgeWasJudged ==
    holding # NoPosition /\ holding.fee # NoRate =>
        /\ holding.fee \in Rates /\ holding.charged \in Rates
        /\ holding.stop > 0 /\ holding.target > 0
        /\ \E q \in Quotes :
              /\ holding.judged = EntryAt(holding.side, q)
              /\ CostAwareEdge([side |-> holding.side, stop |-> holding.stop,
                                target |-> holding.target], q, holding.fee)

GatesInv ==
    /\ GatesTypeOK
    /\ TimesArePast
    /\ RateIsCharged
    /\ CacheIsHonest
    /\ FeeInHand
    /\ AccountIsCurrent
    /\ ClosesArePast
    /\ DecisionInHand
    /\ NotCoolingDown
    /\ LevelsArePrices
    /\ EdgeInHand
    /\ EdgeWasJudged

(***************************************************************************)
(* Type correctness                                                        *)
(***************************************************************************)

\* Levels moved to the grid are whole ticks.
LEMMA LevelsTyped ==
    ASSUME NEW d \in Decisions
    PROVE  /\ Levels(d).side \in Sides
           /\ Levels(d).stop \in Int
           /\ Levels(d).target \in Int
BY GatesAssumption DEF Levels, FloorTick, CeilingTick, Sides

\* A quote's sides are positive, the ask not below the bid.
LEMMA QuoteTyped ==
    ASSUME NEW q \in Quotes
    PROVE  q.bid \in Nat /\ q.ask \in Nat /\ q.bid > 0 /\ q.ask >= q.bid
BY GatesAssumption

\* The locals of a cycle that starts.
LEMMA NewCycleTyped ==
    ASSUME NEW t \in Time, NEW q \in Quotes
    PROVE  NewCycle(t, q) \in Cycle
BY DEF NewCycle, Cycle, Fee

\* The locals of a cycle that ends.
LEMMA ReturnTyped ==
    ASSUME GatesTypeOK, Return
    PROVE  step' = "IDLE" /\ cycle' \in Cycle /\ cycle'.at = 0 /\ cycle'.readAt = 0
           /\ cycle'.feeAt = 0
<1>1. (CHOOSE q \in Quotes : TRUE) \in Quotes
  BY DEF GatesTypeOK
<1>2. 0 \in Time
  BY GatesAssumption DEF Time
<1> QED
  BY <1>1, <1>2, NewCycleTyped DEF Return, Proceed, NewCycle

\* The initial state has the right types.
LEMMA InitGatesTypeOK == GatesInit => GatesTypeOK
<1> SUFFICES ASSUME GatesInit PROVE GatesTypeOK
  OBVIOUS
<1>1. 0 \in Time /\ now \in Time /\ scannedAt \in -1 .. now
  BY GatesAssumption DEF GatesInit, Time
<1>2. cycle \in Cycle
  BY <1>1, NewCycleTyped DEF GatesInit
<1>3. lastCharged \in [Rates -> -1 .. MaxTime]
  BY GatesAssumption DEF GatesInit
<1>4. holding \in {NoPosition} \cup Position
  BY GatesAssumption DEF GatesInit, Held, Position, Sides, Fee
<1> QED
  BY <1>1, <1>2, <1>3, <1>4 DEF GatesInit, GatesTypeOK

\* An answer, the cache or neither: the cycle and the cache stay well typed.
LEMMA FeesTyped ==
    ASSUME GatesTypeOK, NEW asOf \in Time, NEW next,
           next \in {"DECIDE", "EDGE"},
           \/ FeesAnswered(asOf, next, cycle)
           \/ FeesFromCache(asOf, next, cycle)
           \/ NoFees(asOf)
    PROVE  /\ cache' \in {NoRate} \cup [rate : Rates, verified : Time]
           /\ cycle' \in Cycle
           /\ step' \in {"IDLE", "DECIDE", "EDGE"}
<1>1. CASE FeesAnswered(asOf, next, cycle)
  BY <1>1 DEF GatesTypeOK, FeesAnswered, Proceed, Cycle, Fee
<1>2. CASE FeesFromCache(asOf, next, cycle)
  <2>1. cache.rate \in Fee
    BY <1>2 DEF GatesTypeOK, FeesFromCache, CacheUsable, Fee
  <2> QED
    BY <1>2, <2>1 DEF GatesTypeOK, FeesFromCache, Proceed, Cycle
<1>3. CASE NoFees(asOf)
  BY <1>3, ReturnTyped DEF GatesTypeOK, NoFees
<1> QED
  BY <1>1, <1>2, <1>3

\* Every step keeps the types: an order is filled with the levels of a decision.
LEMMA NextGatesTypeOK == GatesTypeOK /\ DecisionInHand /\ [GatesNext]_gateVars => GatesTypeOK'
<1> SUFFICES ASSUME GatesTypeOK, DecisionInHand, [GatesNext]_gateVars PROVE GatesTypeOK'
  OBVIOUS
<1> USE DEF worldVars
<1>0. /\ cycle.at \in Time /\ cycle.feeAt \in Time
      /\ quote \in Quotes /\ now \in Time
  BY DEF GatesTypeOK, Cycle
<1>1. CASE BeginCycle
  <2>1. cycle' \in Cycle
    BY <1>1, <1>0, NewCycleTyped DEF BeginCycle, Proceed
  <2>2. scannedAt' \in -1 .. now'
    BY <1>1, <1>0 DEF BeginCycle, Time
  <2> QED
    BY <1>1, <2>1, <2>2 DEF BeginCycle, Proceed, GatesTypeOK
<1>2. CASE ReadQuotes
  BY <1>2 DEF ReadQuotes, Proceed, GatesTypeOK, Cycle
<1>3. CASE ReadAccount
  BY <1>3 DEF ReadAccount, Proceed, GatesTypeOK, Cycle
<1>4. CASE ReadFees
  BY <1>4, <1>0, FeesTyped DEF ReadFees, GatesTypeOK
<1>5. CASE ModelDecides
  <2>1. CASE Return
    BY <1>5, <2>1, ReturnTyped DEF ModelDecides, GatesTypeOK
  <2>2. ASSUME NEW d \in Decisions, Proceed("CLOSES", [cycle EXCEPT !.decision = d])
        PROVE  GatesTypeOK'
    BY <1>5, <2>2 DEF ModelDecides, Proceed, GatesTypeOK, Cycle
  <2> QED
    BY <1>5, <2>1, <2>2 DEF ModelDecides
<1>6. CASE JudgeCandidate
  BY <1>6, ReturnTyped DEF JudgeCandidate, Proceed, GatesTypeOK
<1>7. CASE GuardReadsQuote
  <2>1. CASE Return
    BY <1>7, <2>1, ReturnTyped DEF GuardReadsQuote, GatesTypeOK
  <2>2. CASE Proceed("GUARD_FEES", [cycle EXCEPT !.fresh = quote, !.feeAt = now])
    BY <1>7, <2>2 DEF GuardReadsQuote, Proceed, GatesTypeOK, Cycle
  <2> QED
    BY <1>7, <2>1, <2>2 DEF GuardReadsQuote
<1>8. CASE GuardReadsFees
  BY <1>8, <1>0, FeesTyped DEF GuardReadsFees, GatesTypeOK
<1>9. CASE GuardJudges
  BY <1>9, ReturnTyped DEF GuardJudges, Proceed, GatesTypeOK
<1>10. CASE OrderIsFilled
  <2> DEFINE l == Levels(cycle.decision)
             p == [side |-> l.side, stop |-> l.stop, target |-> l.target,
                   entry |-> EntryAt(l.side, quote), judged |-> EntryAt(l.side, cycle.fresh),
                   fee |-> cycle.fee, charged |-> rate]
  <2>1. /\ holding' \in {holding, p} /\ Return
        /\ UNCHANGED <<now, quote, rate, lastCharged, cache, closes, scannedAt>>
    BY <1>10 DEF OrderIsFilled
  <2>2. /\ l.side \in Sides /\ l.stop \in Int /\ l.target \in Int
        /\ cycle.fee \in Fee /\ rate \in Fee /\ cycle.fresh \in Quotes
    BY <1>10, LevelsTyped DEF OrderIsFilled, DecisionInHand, Admitted, GatesTypeOK, Cycle, Fee
  <2>3. EntryAt(l.side, quote) \in Nat /\ EntryAt(l.side, cycle.fresh) \in Nat
    BY <2>2, <1>0, QuoteTyped DEF EntryAt
  <2>4. p \in Position
    BY <2>2, <2>3 DEF Position
  <2> QED
    BY <2>1, <2>4, ReturnTyped DEF GatesTypeOK
<1>11. CASE CycleEnds
  BY <1>11, ReturnTyped DEF CycleEnds, GatesTypeOK
<1>12. CASE Tick
  <2>1. now' \in Time /\ scannedAt \in -1 .. now'
    BY <1>12, GatesAssumption DEF Tick, GatesTypeOK, Time
  <2>2. lastCharged' \in [Rates -> -1 .. MaxTime]
    BY <1>12, <2>1 DEF Tick, GatesTypeOK, Time
  <2> QED
    BY <1>12, <2>1, <2>2 DEF Tick, GatesTypeOK
<1>13. CASE MarketMoves
  BY <1>13 DEF MarketMoves, GatesTypeOK
<1>14. CASE RateChanges
  <2>1. now \in -1 .. MaxTime
    BY <1>0, GatesAssumption DEF Time
  <2> QED
    BY <1>14, <2>1 DEF RateChanges, GatesTypeOK
<1>15. CASE HoldingCloses
  <2>1. PICK reason \in {"SL", "TP", "OTHER"} :
            closes' = Append(closes, [at |-> now, side |-> holding.side, reason |-> reason])
    BY <1>15 DEF HoldingCloses
  <2>2. [at |-> now, side |-> holding.side, reason |-> reason] \in Close
    BY <1>15, <1>0 DEF HoldingCloses, GatesTypeOK, Position, Close
  <2>3. closes' \in Seq(Close)
    BY <2>1, <2>2 DEF GatesTypeOK
  <2> QED
    BY <1>15, <2>3 DEF HoldingCloses, GatesTypeOK
<1>16. CASE UNCHANGED gateVars
  BY <1>16 DEF gateVars, GatesTypeOK
<1> QED
  BY <1>1, <1>2, <1>3, <1>4, <1>5, <1>6, <1>7, <1>8, <1>9, <1>10, <1>11, <1>12, <1>13,
     <1>14, <1>15, <1>16 DEF GatesNext, ScanStep, GuardStep

\* The last of some closes is a close.
LEMMA LastCloseTyped ==
    ASSUME GatesTypeOK, closes # <<>>
    PROVE  LastClose \in Close /\ LastClose.at \in Nat
<1>1. closes \in Seq(Close)
  BY DEF GatesTypeOK
<1>2. Len(closes) \in Nat /\ Len(closes) > 0
  BY <1>1
<1>3. LastClose \in Close
  BY <1>1, <1>2 DEF LastClose
<1> QED
  BY <1>3 DEF Close, Time

(***************************************************************************)
(* The inductive invariant: the process                                    *)
(***************************************************************************)

\* The initial state satisfies the invariant (no cycle, no closes, no judged position).
LEMMA InitGatesInv == GatesInit => GatesInv
<1> SUFFICES ASSUME GatesInit PROVE GatesInv
  OBVIOUS
<1>1. GatesTypeOK
  BY InitGatesTypeOK
<1>2. TimesArePast /\ RateIsCharged
  BY <1>1 DEF GatesInit, NewCycle, TimesArePast, RateIsCharged, GatesTypeOK
<1>3. CacheIsHonest /\ ClosesArePast
  BY DEF GatesInit, CacheIsHonest, ClosesArePast
<1>4. FeeInHand /\ AccountIsCurrent /\ DecisionInHand /\ NotCoolingDown /\ LevelsArePrices
      /\ EdgeInHand
  BY DEF GatesInit, FeeInHand, AccountIsCurrent, DecisionInHand, NotCoolingDown, LevelsArePrices,
         EdgeInHand, AfterAccount, Admitted
<1>5. EdgeWasJudged
  BY DEF GatesInit, EdgeWasJudged, Held
<1> QED
  BY <1>1, <1>2, <1>3, <1>4, <1>5 DEF GatesInv

\* What does not depend on the cycle stands while clock, world and cache do.
LEMMA WorldStands ==
    ASSUME GatesInv, UNCHANGED <<now, worldVars, cache>>
    PROVE  RateIsCharged' /\ CacheIsHonest' /\ ClosesArePast' /\ EdgeWasJudged'
BY DEF GatesInv, RateIsCharged, CacheIsHonest, ClosesArePast, EdgeWasJudged, worldVars, LastClose

\* What does depend on it is empty once the cycle has ended.
LEMMA CycleIsOver ==
    ASSUME GatesTypeOK, Return, now' = now
    PROVE  /\ TimesArePast' /\ FeeInHand' /\ AccountIsCurrent' /\ DecisionInHand'
           /\ NotCoolingDown' /\ LevelsArePrices' /\ EdgeInHand'
<1>1. step' = "IDLE" /\ cycle'.at = 0 /\ cycle'.readAt = 0 /\ cycle'.feeAt = 0
  BY ReturnTyped
<1>2. TimesArePast'
  BY <1>1 DEF TimesArePast, GatesTypeOK, Time
<1> QED
  BY <1>1, <1>2 DEF FeeInHand, AccountIsCurrent, DecisionInHand, NotCoolingDown,
                    LevelsArePrices, EdgeInHand, AfterAccount, Admitted

\* A cycle that ends with nothing else done.
LEMMA EndingKeeps ==
    ASSUME GatesInv, Return, UNCHANGED <<now, worldVars, cache, scannedAt>>
    PROVE  GatesInv'
<1>1. GatesTypeOK'
  BY ReturnTyped DEF GatesInv, GatesTypeOK, worldVars
<1> QED
  BY <1>1, WorldStands, CycleIsOver DEF GatesInv

\* The steps before the fees: each read is kept with its time.
LEMMA ScanReadsKeep ==
    ASSUME GatesInv, GatesTypeOK', BeginCycle \/ ReadQuotes \/ ReadAccount
    PROVE  GatesInv'
<1>1. UNCHANGED <<now, worldVars, cache>>
  BY DEF BeginCycle, ReadQuotes, ReadAccount
<1>2. /\ step' \in {"MARKET", "ACCOUNT", "FEES"}
      /\ cycle \in Cycle /\ now \in Time
  BY DEF GatesInv, GatesTypeOK, BeginCycle, ReadQuotes, ReadAccount, Proceed
<1>3. FeeInHand' /\ DecisionInHand' /\ NotCoolingDown' /\ LevelsArePrices' /\ EdgeInHand'
  BY <1>2 DEF FeeInHand, DecisionInHand, NotCoolingDown, LevelsArePrices, EdgeInHand, Admitted
<1>4. TimesArePast'
  <2>1. CASE BeginCycle
    BY <2>1, <1>2 DEF TimesArePast, BeginCycle, Proceed, NewCycle, Time
  <2>2. CASE ReadQuotes
    BY <2>2, <1>1, <1>2 DEF GatesInv, TimesArePast, ReadQuotes, Proceed, Cycle
  <2>3. CASE ReadAccount
    BY <2>3, <1>1, <1>2 DEF GatesInv, TimesArePast, ReadAccount, Proceed, Cycle, Time
  <2> QED
    BY <2>1, <2>2, <2>3
<1>5. AccountIsCurrent'
  <2>1. CASE ReadAccount
    <3>1. /\ cycle'.held = (holding # NoPosition) /\ cycle'.readAt = now
          /\ UNCHANGED <<holding, closes>>
      BY <2>1, <1>2 DEF ReadAccount, Proceed, Cycle, worldVars
    <3> QED
      BY <3>1 DEF AccountIsCurrent, GatesInv, ClosesArePast, LastClose
  <2>2. CASE BeginCycle \/ ReadQuotes
    BY <2>2 DEF BeginCycle, ReadQuotes, Proceed, AccountIsCurrent, AfterAccount
  <2> QED
    BY <2>1, <2>2
<1> QED
  BY <1>1, <1>3, <1>4, <1>5, WorldStands DEF GatesInv

\* A rate asked for at asOf, answered or from the cache, was charged no longer ago than a
\* persisted one may be.
LEMMA FeesKeep ==
    ASSUME GatesInv, NEW asOf \in Time, asOf <= now, NEW next,
           FeesAnswered(asOf, next, cycle) \/ FeesFromCache(asOf, next, cycle),
           UNCHANGED <<now, worldVars>>
    PROVE  /\ CacheIsHonest'
           /\ cycle'.fee \in Rates /\ cycle'.feeAt = asOf
           /\ lastCharged'[cycle'.fee] >= cycle'.feeAt - MaxAge
           /\ \A f \in {"at", "readAt", "held", "seen", "fresh", "decision"} :
                 cycle'[f] = cycle[f]
<1> USE DEF worldVars
<1>1. cycle \in Cycle /\ now \in Nat /\ asOf \in Nat /\ MaxAge \in Nat
  BY GatesAssumption DEF GatesInv, GatesTypeOK, Time
<1>2. CASE FeesAnswered(asOf, next, cycle)
  <2>1. cache' = [rate |-> rate, verified |-> asOf] /\ lastCharged[rate] = now /\ rate \in Rates
    BY <1>2 DEF FeesAnswered, GatesInv, RateIsCharged, GatesTypeOK
  <2>2. cycle' = [cycle EXCEPT !.fee = rate, !.feeAt = asOf]
    BY <1>2 DEF FeesAnswered, Proceed
  <2>3. CacheIsHonest'
    BY <2>1, <1>1 DEF CacheIsHonest
  <2> QED
    BY <2>1, <2>2, <2>3, <1>1 DEF Cycle
<1>3. CASE FeesFromCache(asOf, next, cycle)
  <2>1. /\ cache \in [rate : Rates, verified : Time] /\ cache' = cache
        /\ lastCharged[cache.rate] >= cache.verified /\ cache.verified <= now
        /\ asOf - cache.verified <= MaxAge
        /\ lastCharged[cache.rate] \in Int
    BY <1>3 DEF FeesFromCache, CacheUsable, GatesInv, CacheIsHonest, GatesTypeOK
  <2>2. cycle' = [cycle EXCEPT !.fee = cache.rate, !.feeAt = asOf]
    BY <1>3 DEF FeesFromCache, Proceed
  <2>3. cache.rate \in Rates /\ cache.verified \in Int
    BY <2>1 DEF Time
  <2>4. CacheIsHonest'
    BY <2>1 DEF CacheIsHonest
  <2>5. lastCharged[cache.rate] >= asOf - MaxAge
    BY <2>1, <2>3, <1>1
  <2> QED
    BY <2>2, <2>3, <2>4, <2>5, <1>1 DEF Cycle
<1> QED
  BY <1>2, <1>3

\* The scan's request for fees.
LEMMA ReadFeesKeeps ==
    ASSUME GatesInv, GatesTypeOK', ReadFees
    PROVE  GatesInv'
<1>1. CASE NoFees(cycle.at)
  BY <1>1, EndingKeeps DEF ReadFees, NoFees
<1>2. CASE FeesAnswered(cycle.at, "DECIDE", cycle) \/ FeesFromCache(cycle.at, "DECIDE", cycle)
  <2>1. /\ cycle.at \in Time /\ cycle.at <= now /\ now' = now
        /\ UNCHANGED <<worldVars, scannedAt>>
        /\ step = "FEES" /\ step' = "DECIDE"
    BY <1>2 DEF ReadFees, GatesInv, GatesTypeOK, Cycle, TimesArePast, FeesAnswered, FeesFromCache, Proceed
  <2>2. /\ CacheIsHonest' /\ cycle'.feeAt = cycle.at
        /\ cycle'.at = cycle.at /\ cycle'.readAt = cycle.readAt /\ cycle'.held = cycle.held
    BY <1>2, <2>1, FeesKeep
  <2>3. FeeInHand' /\ DecisionInHand' /\ NotCoolingDown' /\ LevelsArePrices' /\ EdgeInHand'
    BY <2>1 DEF FeeInHand, DecisionInHand, NotCoolingDown, LevelsArePrices, EdgeInHand, Admitted
  <2>4. TimesArePast' /\ AccountIsCurrent'
    BY <2>1, <2>2 DEF GatesInv, TimesArePast, AccountIsCurrent, AfterAccount, worldVars, LastClose
  <2>5. RateIsCharged' /\ ClosesArePast' /\ EdgeWasJudged'
    BY <2>1 DEF GatesInv, RateIsCharged, ClosesArePast, EdgeWasJudged, worldVars, LastClose
  <2> QED
    BY <2>2, <2>3, <2>4, <2>5 DEF GatesInv
<1> QED
  BY <1>1, <1>2 DEF ReadFees

\* The model's answer is taken as it is.
LEMMA ModelDecidesKeeps ==
    ASSUME GatesInv, GatesTypeOK', ModelDecides
    PROVE  GatesInv'
<1>1. CASE Return
  BY <1>1, EndingKeeps DEF ModelDecides
<1>2. ASSUME NEW d \in Decisions, Proceed("CLOSES", [cycle EXCEPT !.decision = d])
      PROVE  GatesInv'
  <2>1. /\ cycle'.at = cycle.at /\ cycle'.readAt = cycle.readAt /\ cycle'.feeAt = cycle.feeAt
        /\ cycle'.held = cycle.held /\ cycle'.decision = d
        /\ step = "DECIDE" /\ step' = "CLOSES" /\ UNCHANGED <<now, worldVars, cache>>
    BY <1>2 DEF ModelDecides, Proceed, GatesInv, GatesTypeOK, Cycle
  <2>2. TimesArePast' /\ AccountIsCurrent' /\ DecisionInHand'
    BY <2>1 DEF GatesInv, TimesArePast, AccountIsCurrent, DecisionInHand, AfterAccount, worldVars,
                LastClose
  <2>3. FeeInHand' /\ NotCoolingDown' /\ LevelsArePrices' /\ EdgeInHand'
    BY <2>1 DEF FeeInHand, NotCoolingDown, LevelsArePrices, EdgeInHand, Admitted
  <2> QED
    BY <2>1, <2>2, <2>3, WorldStands DEF GatesInv
<1> QED
  BY <1>1, <1>2 DEF ModelDecides

\* _validated_levels keeps both levels within a tenth of a positive entry.
LEMMA ValidLevelsArePositive ==
    ASSUME NEW l, l.side \in Sides, l.stop \in Int, l.target \in Int,
           NEW entry \in Nat, entry > 0, ValidLevels(l, entry)
    PROVE  l.stop > 0 /\ l.target > 0
<1>1. CASE l.side = "LONG"
  BY <1>1 DEF ValidLevels, Sign
<1>2. CASE l.side # "LONG"
  BY <1>2 DEF ValidLevels, Sign
<1> QED
  BY <1>1, <1>2

\* If no close of the list makes the symbol cool down, the last one does not.
LEMMA LastCloseDecides ==
    ASSUME GatesTypeOK, NEW d, NEW asOf, ~CoolingDown(d, asOf),
           closes # <<>>, LastClose.at <= asOf, asOf - LastClose.at < Cooldown
    PROVE  LastClose.reason # "SL" /\ LastClose.side = d.side
<1>1. Len(closes) \in DOMAIN closes /\ \A later \in DOMAIN closes : ~(later > Len(closes))
  BY DEF GatesTypeOK
<1> QED
  BY <1>1 DEF CoolingDown, LastClose

\* A candidate is admitted by the snapshot's quote, positions and closes.
LEMMA JudgeCandidateKeeps ==
    ASSUME GatesInv, GatesTypeOK', JudgeCandidate
    PROVE  GatesInv'
<1>1. CASE Return
  BY <1>1, EndingKeeps DEF JudgeCandidate
<1>2. ASSUME ~SymbolTaken, ~CoolingDown(cycle.decision, cycle.at),
             PreviewPasses(cycle.decision), Proceed("QUOTE", cycle)
      PROVE  GatesInv'
  <2>1. /\ cycle' = cycle /\ step = "CLOSES" /\ step' = "QUOTE"
        /\ UNCHANGED <<now, worldVars, cache>>
    BY <1>2 DEF JudgeCandidate, Proceed
  <2>2. cycle.decision \in Decisions /\ cycle.seen \in Quotes
    BY <2>1 DEF GatesInv, DecisionInHand, GatesTypeOK, Cycle
  <2>3. TimesArePast' /\ AccountIsCurrent' /\ DecisionInHand'
    BY <2>1 DEF GatesInv, TimesArePast, AccountIsCurrent, DecisionInHand, AfterAccount, worldVars,
                LastClose
  <2>4. FeeInHand' /\ EdgeInHand'
    BY <2>1 DEF FeeInHand, EdgeInHand
  <2>5. NotCoolingDown'
    BY <1>2, <2>1, LastCloseDecides DEF GatesInv, NotCoolingDown, SymbolTaken, worldVars, LastClose
  <2>6. LevelsArePrices'
    <3> DEFINE l == Levels(cycle.decision)
               entry == EntryAt(l.side, cycle.seen)
    <3>1. l.side \in Sides /\ l.stop \in Int /\ l.target \in Int
      BY <2>2, LevelsTyped
    <3>2. entry \in Nat /\ entry > 0
      BY <2>2, QuoteTyped DEF EntryAt
    <3>3. ValidLevels(l, entry)
      BY <1>2 DEF PreviewPasses, Levels
    <3> HIDE DEF l, entry
    <3>4. l.stop > 0 /\ l.target > 0
      BY <3>1, <3>2, <3>3, ValidLevelsArePositive
    <3> QED
      BY <2>1, <3>4 DEF LevelsArePrices, l
  <2> QED
    BY <2>1, <2>3, <2>4, <2>5, <2>6, WorldStands DEF GatesInv
<1> QED
  BY <1>1, <1>2 DEF JudgeCandidate

\* The guard takes a new quote and the time of its fee request.
LEMMA GuardReadsQuoteKeeps ==
    ASSUME GatesInv, GatesTypeOK', GuardReadsQuote
    PROVE  GatesInv'
<1>1. CASE Return
  BY <1>1, EndingKeeps DEF GuardReadsQuote
<1>2. CASE Proceed("GUARD_FEES", [cycle EXCEPT !.fresh = quote, !.feeAt = now])
  <2>1. /\ cycle'.at = cycle.at /\ cycle'.readAt = cycle.readAt /\ cycle'.feeAt = now
        /\ cycle'.held = cycle.held /\ cycle'.decision = cycle.decision
        /\ step = "QUOTE" /\ step' = "GUARD_FEES" /\ UNCHANGED <<now, worldVars, cache>>
        /\ now \in Nat
    BY <1>2 DEF GuardReadsQuote, Proceed, GatesInv, GatesTypeOK, Cycle, Time
  <2>2. TimesArePast' /\ AccountIsCurrent' /\ DecisionInHand' /\ NotCoolingDown'
    BY <2>1 DEF GatesInv, TimesArePast, AccountIsCurrent, DecisionInHand, NotCoolingDown,
                AfterAccount, Admitted, worldVars, LastClose
  <2>3. LevelsArePrices'
    BY <2>1 DEF GatesInv, LevelsArePrices, Admitted
  <2>4. FeeInHand' /\ EdgeInHand'
    BY <2>1 DEF FeeInHand, EdgeInHand
  <2> QED
    BY <2>1, <2>2, <2>3, <2>4, WorldStands DEF GatesInv
<1> QED
  BY <1>1, <1>2 DEF GuardReadsQuote

\* The guard's request for fees.
LEMMA GuardReadsFeesKeeps ==
    ASSUME GatesInv, GatesTypeOK', GuardReadsFees
    PROVE  GatesInv'
<1>1. CASE NoFees(cycle.feeAt)
  BY <1>1, EndingKeeps DEF GuardReadsFees, NoFees
<1>2. CASE \/ FeesAnswered(cycle.feeAt, "EDGE", cycle)
           \/ FeesFromCache(cycle.feeAt, "EDGE", cycle)
  <2>1. /\ cycle.feeAt \in Time /\ cycle.feeAt <= now /\ now' = now
        /\ UNCHANGED <<worldVars, scannedAt>>
        /\ step = "GUARD_FEES" /\ step' = "EDGE"
    BY <1>2 DEF GuardReadsFees, GatesInv, GatesTypeOK, Cycle, TimesArePast, FeesAnswered, FeesFromCache,
                Proceed
  <2>2. /\ CacheIsHonest' /\ cycle'.feeAt = cycle.feeAt
        /\ cycle'.fee \in Rates /\ lastCharged'[cycle'.fee] >= cycle'.feeAt - MaxAge
        /\ cycle'.at = cycle.at /\ cycle'.readAt = cycle.readAt /\ cycle'.held = cycle.held
        /\ cycle'.decision = cycle.decision
    BY <1>2, <2>1, FeesKeep
  <2>3. TimesArePast' /\ AccountIsCurrent' /\ DecisionInHand' /\ NotCoolingDown'
    BY <2>1, <2>2 DEF GatesInv, TimesArePast, AccountIsCurrent, DecisionInHand, NotCoolingDown,
                      AfterAccount, Admitted, worldVars, LastClose
  <2>4. LevelsArePrices'
    BY <2>1, <2>2 DEF GatesInv, LevelsArePrices, Admitted
  <2>5. FeeInHand' /\ EdgeInHand'
    BY <2>1, <2>2 DEF FeeInHand, EdgeInHand
  <2>6. RateIsCharged' /\ ClosesArePast' /\ EdgeWasJudged'
    BY <2>1 DEF GatesInv, RateIsCharged, ClosesArePast, EdgeWasJudged, worldVars, LastClose
  <2> QED
    BY <2>2, <2>3, <2>4, <2>5, <2>6 DEF GatesInv
<1> QED
  BY <1>1, <1>2 DEF GuardReadsFees

\* The gate at the guard's quote and rate.
LEMMA GuardJudgesKeeps ==
    ASSUME GatesInv, GatesTypeOK', GuardJudges
    PROVE  GatesInv'
<1>1. CASE Return
  BY <1>1, EndingKeeps DEF GuardJudges
<1>2. ASSUME Proceed("POST", cycle),
             CostAwareEdge(Levels(cycle.decision), cycle.fresh, cycle.fee)
      PROVE  GatesInv'
  <2>1. cycle' = cycle /\ step = "EDGE" /\ step' = "POST" /\ UNCHANGED <<now, worldVars, cache>>
    BY <1>2 DEF GuardJudges, Proceed
  <2>2. /\ TimesArePast' /\ AccountIsCurrent' /\ DecisionInHand' /\ NotCoolingDown'
        /\ FeeInHand'
    BY <2>1 DEF GatesInv, TimesArePast, AccountIsCurrent, DecisionInHand, NotCoolingDown,
                FeeInHand, AfterAccount, Admitted, worldVars, LastClose
  <2>3. LevelsArePrices'
    BY <2>1 DEF GatesInv, LevelsArePrices, Admitted
  <2>4. EdgeInHand'
    BY <1>2, <2>1 DEF EdgeInHand
  <2> QED
    BY <2>1, <2>2, <2>3, <2>4, WorldStands DEF GatesInv
<1> QED
  BY <1>1, <1>2 DEF GuardJudges

\* The order that is filled leaves a position that cleared the gate.
LEMMA OrderIsFilledKeeps ==
    ASSUME GatesInv, GatesTypeOK', OrderIsFilled
    PROVE  GatesInv'
<1> DEFINE l == Levels(cycle.decision)
           p == [side |-> l.side, stop |-> l.stop, target |-> l.target,
                 entry |-> EntryAt(l.side, quote), judged |-> EntryAt(l.side, cycle.fresh),
                 fee |-> cycle.fee, charged |-> rate]
<1>1. /\ holding' \in {holding, p} /\ Return /\ step = "POST"
      /\ UNCHANGED <<now, quote, rate, lastCharged, cache, closes, scannedAt>>
  BY DEF OrderIsFilled
<1>2. RateIsCharged' /\ CacheIsHonest' /\ ClosesArePast'
  BY <1>1 DEF GatesInv, RateIsCharged, CacheIsHonest, ClosesArePast, LastClose
<1>3. /\ cycle.fee \in Rates /\ rate \in Rates /\ cycle.fresh \in Quotes
      /\ l.stop > 0 /\ l.target > 0 /\ CostAwareEdge(l, cycle.fresh, cycle.fee)
  BY <1>1 DEF GatesInv, FeeInHand, LevelsArePrices, EdgeInHand, Admitted, GatesTypeOK, Cycle
<1>4. l = [side |-> l.side, stop |-> l.stop, target |-> l.target]
  BY DEF Levels
<1>5. EdgeWasJudged'
  <2>1. CASE holding' = holding
    BY <2>1 DEF GatesInv, EdgeWasJudged
  <2>2. CASE holding' = p
    <3> HIDE DEF l
    <3>1. /\ holding'.side = l.side /\ holding'.stop = l.stop /\ holding'.target = l.target
          /\ holding'.judged = EntryAt(l.side, cycle.fresh)
          /\ holding'.fee = cycle.fee /\ holding'.charged = rate
      BY <2>2
    <3> QED
      BY <3>1, <1>3, <1>4 DEF EdgeWasJudged
  <2> QED
    BY <1>1, <2>1, <2>2
<1> QED
  BY <1>1, <1>2, <1>5, CycleIsOver DEF GatesInv

(***************************************************************************)
(* The inductive invariant: clock, market and venue                        *)
(***************************************************************************)

\* Time passes: what was charged in the past stays charged no earlier.
LEMMA TickKeeps ==
    ASSUME GatesInv, GatesTypeOK', Tick
    PROVE  GatesInv'
<1>1. /\ now \in Nat /\ now' = now + 1
      /\ lastCharged' = [lastCharged EXCEPT ![rate] = now + 1] /\ rate \in Rates
      /\ lastCharged \in [Rates -> Int]
      /\ UNCHANGED <<quote, rate, holding, closes, cache, step, cycle, scannedAt>>
  BY GatesAssumption DEF Tick, GatesInv, GatesTypeOK, Time
<1>2. cycle \in Cycle /\ MaxAge \in Nat
  BY GatesAssumption DEF GatesInv, GatesTypeOK
<1>3. TimesArePast' /\ RateIsCharged'
  BY <1>1, <1>2 DEF GatesInv, TimesArePast, RateIsCharged, Cycle, Time
<1>4. CacheIsHonest'
  <2>1. CASE cache # NoRate
    <3>1. cache.rate \in Rates /\ cache.verified \in Int
      BY <2>1 DEF GatesInv, GatesTypeOK, Time
    <3> QED
      BY <1>1, <2>1, <3>1 DEF GatesInv, CacheIsHonest
  <2> QED
    BY <1>1, <2>1 DEF CacheIsHonest
<1>5. FeeInHand'
  BY <1>1, <1>2 DEF GatesInv, FeeInHand, TimesArePast, Cycle, Time
<1>6. ClosesArePast'
  <2>1. CASE closes # <<>>
    <3>1. LastClose.at \in Int
      BY <2>1, LastCloseTyped DEF GatesInv
    <3> QED
      BY <1>1, <3>1 DEF GatesInv, ClosesArePast, LastClose
  <2> QED
    BY <1>1, <2>1 DEF ClosesArePast
<1>7. AccountIsCurrent' /\ DecisionInHand' /\ NotCoolingDown' /\ LevelsArePrices' /\ EdgeInHand'
  BY <1>1 DEF GatesInv, AccountIsCurrent, DecisionInHand, NotCoolingDown, LevelsArePrices,
              EdgeInHand, LastClose
<1>8. EdgeWasJudged'
  BY <1>1 DEF GatesInv, EdgeWasJudged
<1> QED
  BY <1>3, <1>4, <1>5, <1>6, <1>7, <1>8 DEF GatesInv

\* The venue charges another rate from now on.
LEMMA RateChangesKeeps ==
    ASSUME GatesInv, GatesTypeOK', RateChanges
    PROVE  GatesInv'
<1>1. /\ now \in Nat /\ rate' \in Rates
      /\ lastCharged' = [lastCharged EXCEPT ![rate'] = now]
      /\ lastCharged \in [Rates -> Int]
      /\ UNCHANGED <<now, quote, holding, closes, cache, step, cycle, scannedAt>>
  BY DEF RateChanges, GatesInv, GatesTypeOK, Time
<1>2. cycle \in Cycle /\ MaxAge \in Nat
  BY GatesAssumption DEF GatesInv, GatesTypeOK
<1>3. TimesArePast' /\ RateIsCharged'
  BY <1>1 DEF GatesInv, TimesArePast, RateIsCharged
<1>4. CacheIsHonest'
  <2>1. CASE cache # NoRate
    <3>1. cache.rate \in Rates /\ cache.verified \in Int
      BY <2>1 DEF GatesInv, GatesTypeOK, Time
    <3> QED
      BY <1>1, <2>1, <3>1 DEF GatesInv, CacheIsHonest
  <2> QED
    BY <1>1, <2>1 DEF CacheIsHonest
<1>5. FeeInHand'
  BY <1>1, <1>2 DEF GatesInv, FeeInHand, TimesArePast, Cycle, Time
<1>6. /\ ClosesArePast' /\ AccountIsCurrent' /\ DecisionInHand' /\ NotCoolingDown'
      /\ LevelsArePrices' /\ EdgeInHand'
  BY <1>1 DEF GatesInv, ClosesArePast, AccountIsCurrent, DecisionInHand, NotCoolingDown,
              LevelsArePrices, EdgeInHand, LastClose
<1>7. EdgeWasJudged'
  BY <1>1 DEF GatesInv, EdgeWasJudged
<1> QED
  BY <1>3, <1>4, <1>5, <1>6, <1>7 DEF GatesInv

\* The market moves: the cycle's quotes are its own.
LEMMA MarketMovesKeeps ==
    ASSUME GatesInv, GatesTypeOK', MarketMoves
    PROVE  GatesInv'
<1>1. UNCHANGED <<now, rate, lastCharged, holding, closes, cache, step, cycle, scannedAt>>
  BY DEF MarketMoves
<1>2. TimesArePast' /\ RateIsCharged' /\ CacheIsHonest' /\ FeeInHand' /\ ClosesArePast'
  BY <1>1 DEF GatesInv, TimesArePast, RateIsCharged, CacheIsHonest, FeeInHand, ClosesArePast,
              LastClose
<1>3. AccountIsCurrent' /\ DecisionInHand' /\ NotCoolingDown' /\ LevelsArePrices' /\ EdgeInHand'
  BY <1>1 DEF GatesInv, AccountIsCurrent, DecisionInHand, NotCoolingDown, LevelsArePrices,
              EdgeInHand, LastClose
<1>4. EdgeWasJudged'
  BY <1>1 DEF GatesInv, EdgeWasJudged
<1> QED
  BY <1>2, <1>3, <1>4 DEF GatesInv

\* A position that closes under a cycle was in that cycle's snapshot, if it has one: no
\* candidate is admitted, and the new close need not be in order with anything.
LEMMA HoldingClosesKeeps ==
    ASSUME GatesInv, GatesTypeOK', HoldingCloses
    PROVE  GatesInv'
<1>1. /\ holding # NoPosition /\ holding' = NoPosition
      /\ UNCHANGED <<now, quote, rate, lastCharged, cache, step, cycle, scannedAt>>
  BY DEF HoldingCloses
<1>2. closes' # <<>> /\ LastClose'.at = now
  BY DEF HoldingCloses, LastClose, GatesInv, GatesTypeOK
<1>3. /\ TimesArePast' /\ RateIsCharged' /\ CacheIsHonest' /\ FeeInHand' /\ DecisionInHand'
      /\ LevelsArePrices' /\ EdgeInHand'
  BY <1>1 DEF GatesInv, TimesArePast, RateIsCharged, CacheIsHonest, FeeInHand, DecisionInHand,
              LevelsArePrices, EdgeInHand
<1>4. ClosesArePast'
  BY <1>1, <1>2 DEF ClosesArePast, GatesInv, GatesTypeOK, Time
<1>5. step \notin AfterAccount \/ cycle.held
  BY <1>1 DEF GatesInv, AccountIsCurrent
<1>6. AccountIsCurrent'
  BY <1>1, <1>5 DEF AccountIsCurrent
<1>7. NotCoolingDown'
  BY <1>1, <1>5 DEF GatesInv, NotCoolingDown, AfterAccount, Admitted
<1>8. EdgeWasJudged'
  BY <1>1 DEF EdgeWasJudged
<1> QED
  BY <1>3, <1>4, <1>6, <1>7, <1>8 DEF GatesInv

\* Every step keeps the invariant.
LEMMA NextGatesInv == GatesInv /\ [GatesNext]_gateVars => GatesInv'
<1> SUFFICES ASSUME GatesInv, [GatesNext]_gateVars PROVE GatesInv'
  OBVIOUS
<1>1. GatesTypeOK'
  BY NextGatesTypeOK DEF GatesInv
<1>2. CASE BeginCycle
  BY <1>1, <1>2, ScanReadsKeep
<1>3. CASE ScanStep
  BY <1>1, <1>3, ScanReadsKeep, ReadFeesKeeps, ModelDecidesKeeps, JudgeCandidateKeeps
  DEF ScanStep
<1>4. CASE GuardStep
  BY <1>1, <1>4, GuardReadsQuoteKeeps, GuardReadsFeesKeeps, GuardJudgesKeeps, OrderIsFilledKeeps
  DEF GuardStep
<1>5. CASE CycleEnds
  BY <1>5, EndingKeeps DEF CycleEnds
<1>6. CASE Tick \/ RateChanges
  BY <1>1, <1>6, TickKeeps, RateChangesKeeps
<1>7. CASE MarketMoves \/ HoldingCloses
  BY <1>1, <1>7, MarketMovesKeeps, HoldingClosesKeeps
<1>8. CASE UNCHANGED gateVars
  <2> USE <1>8 DEF gateVars, worldVars
  <2>1. /\ TimesArePast' /\ RateIsCharged' /\ CacheIsHonest' /\ FeeInHand'
        /\ AccountIsCurrent' /\ ClosesArePast'
    BY DEF GatesInv, TimesArePast, RateIsCharged, CacheIsHonest, FeeInHand, AccountIsCurrent,
           ClosesArePast, LastClose
  <2>2. DecisionInHand' /\ NotCoolingDown' /\ LevelsArePrices' /\ EdgeInHand'
    BY DEF GatesInv, DecisionInHand, NotCoolingDown, LevelsArePrices, EdgeInHand, LastClose
  <2>3. EdgeWasJudged'
    BY DEF GatesInv, EdgeWasJudged
  <2> QED
    BY <1>1, <2>1, <2>2, <2>3 DEF GatesInv
<1> QED
  BY <1>2, <1>3, <1>4, <1>5, <1>6, <1>7, <1>8 DEF GatesNext

\* The invariant holds in every reachable state.
THEOREM GatesInvariant == GatesSpec => []GatesInv
<1>1. GatesInit => GatesInv
  BY InitGatesInv
<1>2. GatesInv /\ [GatesNext]_gateVars => GatesInv'
  BY NextGatesInv
<1> QED
  BY <1>1, <1>2, PTL DEF GatesSpec

\* The clock, the cache, the position, the closes and the locals of the cycle have the
\* types of their columns and variables.
THEOREM GatesTypeCorrect == GatesSpec => []GatesTypeOK
<1>1. GatesInv => GatesTypeOK
  BY DEF GatesInv
<1> QED
  BY <1>1, GatesInvariant, PTL

(***************************************************************************)
(* The fee rate and the cooldown                                           *)
(***************************************************************************)

\* An order leaves with a rate the venue was charging no more than FEE_CACHE_MAX_AGE before
\* the guard asked for it, whichever of the two requests of a cycle saved it and whichever
\* of them fell back (_get_taker_fee_rates_from and the guard's own lookup).
THEOREM FeeRateRecent == GatesSpec => []FeeRateIsRecent
<1>1. GatesInv => FeeRateIsRecent
  BY DEF GatesInv, FeeInHand, FeeRateIsRecent
<1> QED
  BY <1>1, GatesInvariant, PTL

\* An order that leaves within the cooldown of the last close (_execute_candidates) comes
\* from a cycle whose snapshot was read after that close, and which started before it.
THEOREM CooldownGap == GatesSpec => []CooldownHasOneGap
<1>1. GatesInv => CooldownHasOneGap
  <2> SUFFICES ASSUME GatesInv, step = "POST", closes # <<>>,
                      now - LastClose.at < Cooldown,
                      LastClose.reason = "SL" \/ LastClose.side # cycle.decision.side
               PROVE  cycle.at < LastClose.at /\ LastClose.at <= cycle.readAt
    BY DEF CooldownHasOneGap, LastClose
  <2>1. LastClose.at \in Int /\ cycle.at \in Int /\ now \in Int /\ Cooldown \in Int
    BY GatesAssumption, LastCloseTyped DEF GatesInv, GatesTypeOK, Cycle, Time
  <2>2. /\ ~cycle.held
        /\ ~(LastClose.at <= cycle.at /\ cycle.at - LastClose.at < Cooldown)
    BY DEF GatesInv, NotCoolingDown, Admitted
  <2>3. LastClose.at <= cycle.readAt
    BY <2>2 DEF GatesInv, AccountIsCurrent, AfterAccount
  <2>4. cycle.at <= now
    BY DEF GatesInv, TimesArePast
  <2> QED
    BY <2>1, <2>2, <2>3, <2>4
<1> QED
  BY <1>1, GatesInvariant, PTL

(***************************************************************************)
(* The edge                                                                *)
(***************************************************************************)

\* Multiplication by a natural number is monotone; a positive factor cancels.
LEMMA TimesMonotone ==
    ASSUME NEW k \in Nat, NEW a \in Int, NEW b \in Int, a <= b
    PROVE  k * a <= k * b
OBVIOUS

LEMMA TimesCancels ==
    ASSUME NEW k \in Nat, k > 0, NEW a \in Int, NEW b \in Int, k * a <= k * b
    PROVE  a <= b
<1> SUFFICES ASSUME b + 1 <= a PROVE FALSE
  OBVIOUS
<1>1. k * (b + 1) <= k * a
  BY TimesMonotone
<1>2. k * (b + 1) = k * b + k
  OBVIOUS
<1> QED
  BY <1>1, <1>2

\* An estimate that charges fee f and slippage s on an amount p earned and an amount q
\* paid, and still comes out ahead, comes out ahead with the slippage taken out of the
\* amounts themselves and a fee c, no higher, charged on what is left.
LEMMA EstimateCoversSlippage ==
    ASSUME NEW S \in Nat, S > 0, NEW s \in Nat,
           NEW f \in Nat, f <= S, NEW c \in Nat, c <= f,
           NEW p \in Nat, NEW q \in Nat, NEW x \in Int, NEW y \in Int,
           (S - f - s) * p >= (S + f + s) * q,
           S * x >= (S - s) * p,
           S * y <= (S + s) * q
    PROVE  (S - c) * x >= (S + c) * y
<1>1. c * p <= f * p /\ c * q <= f * q
  <2>1. p * c <= p * f /\ q * c <= q * f
    BY TimesMonotone
  <2> QED
    BY <2>1
<1>2. /\ S * p - f * p - s * p >= S * q + f * q + s * q
      /\ f * p \in Nat /\ s * p \in Nat /\ f * q \in Nat /\ s * q \in Nat
      /\ S * p \in Nat /\ S * q \in Nat /\ c * p \in Nat /\ c * q \in Nat
  OBVIOUS
<1>3. S * p - c * p - s * p >= S * q + c * q + s * q
  BY <1>1, <1>2
<1>4. q <= p
  <2>1. S * q <= S * p
    BY <1>2
  <2> QED
    BY <2>1, TimesCancels
<1>5. (c * s) * q <= (c * s) * p
  BY <1>4, TimesMonotone
<1>6. S * (S * q + c * q + s * q) <= S * (S * p - c * p - s * p)
  BY <1>2, <1>3, TimesMonotone
<1>7. (S - c) * ((S - s) * p) <= (S - c) * (S * x)
  BY TimesMonotone
<1>8. (S + c) * (S * y) <= (S + c) * ((S + s) * q)
  BY TimesMonotone
<1>9. (S - c) * ((S - s) * p) = S * (S * p - c * p - s * p) + (c * s) * p
  OBVIOUS
<1>10. (S + c) * ((S + s) * q) = S * (S * q + c * q + s * q) + (c * s) * q
  OBVIOUS
<1>11. (S + c) * (S * y) <= (S - c) * (S * x)
  BY <1>5, <1>6, <1>7, <1>8, <1>9, <1>10
<1>12. (S + c) * (S * y) = S * ((S + c) * y) /\ (S - c) * (S * x) = S * ((S - c) * x)
  OBVIOUS
<1>13. S * ((S + c) * y) <= S * ((S - c) * x)
  BY <1>11, <1>12
<1> QED
  BY <1>13, TimesCancels

\* What require_cost_aware_edge demands of an entry at j, a target and a stop, with the
\* amounts of 2 targets and 3 stops against 5 entries.
LEMMA EdgeInAmounts ==
    ASSUME NEW l, l.side \in Sides, NEW T \in Nat, T = l.target, NEW K \in Nat, K = l.stop,
           NEW q \in Quotes, NEW j \in Nat, j = EntryAt(l.side, q),
           NEW f \in Nat, CostAwareEdge(l, q, f)
    PROVE  /\ f <= Scale
           /\ l.side = "LONG"  => (Scale - f - SlipRate) * (2 * T + 3 * K)
                                      >= (Scale + f + SlipRate) * (5 * j)
           /\ l.side = "SHORT" => (Scale - f - SlipRate) * (5 * j)
                                      >= (Scale + f + SlipRate) * (2 * T + 3 * K)
<1> DEFINE spread == Scale * (q.ask - q.bid)
<1>1. Scale \in Nat /\ SlipRate \in Nat
  BY CostAssumption
<1>2. spread \in Nat
  <2>1. q.ask - q.bid \in Nat
    BY QuoteTyped
  <2> QED
    BY <2>1, <1>1
<1>3. f <= Scale
  BY <1>1 DEF CostAwareEdge, ValidRate
<1>4. /\ RoundTripCost(j, T, q, f) = (f + SlipRate) * (j + T) + spread
      /\ RoundTripCost(j, K, q, f) = (f + SlipRate) * (j + K) + spread
  BY DEF RoundTripCost
<1>5. /\ LiveCostEstimate(l, q, f).netReward
            = Scale * Sign(l.side) * (T - j) - RoundTripCost(j, T, q, f)
      /\ LiveCostEstimate(l, q, f).netRisk
            = Scale * Sign(l.side) * (j - K) + RoundTripCost(j, K, q, f)
  BY DEF LiveCostEstimate
<1>6. 2 * LiveCostEstimate(l, q, f).netReward >= 3 * LiveCostEstimate(l, q, f).netRisk
  BY DEF CostAwareEdge
<1> HIDE DEF spread
<1>7. 2 * (Scale * Sign(l.side) * (T - j) - ((f + SlipRate) * (j + T) + spread))
        >= 3 * (Scale * Sign(l.side) * (j - K) + ((f + SlipRate) * (j + K) + spread))
  BY <1>4, <1>5, <1>6
<1>8. CASE l.side = "LONG"
  <2>1. Sign(l.side) = 1
    BY <1>8 DEF Sign
  <2>2. 2 * (Scale * (T - j) - ((f + SlipRate) * (j + T) + spread))
          >= 3 * (Scale * (j - K) + ((f + SlipRate) * (j + K) + spread))
    BY <1>1, <1>7, <2>1
  <2> QED
    BY <1>1, <1>2, <1>3, <1>8, <2>2
<1>9. CASE l.side = "SHORT"
  <2>1. Sign(l.side) = -1
    BY <1>9 DEF Sign
  <2>2. 2 * (Scale * (j - T) - ((f + SlipRate) * (j + T) + spread))
          >= 3 * (Scale * (K - j) + ((f + SlipRate) * (j + K) + spread))
    BY <1>1, <1>7, <2>1
  <2> QED
    BY <1>1, <1>2, <1>3, <1>9, <2>2
<1> QED
  BY <1>8, <1>9 DEF Sides

\* The worst exit is at most the slippage away from its level.
LEMMA WorstExitBounds ==
    ASSUME NEW p, NEW level \in Nat
    PROVE  /\ WorstExit(p, level) \in Int
           /\ p.side = "LONG"  => Scale * WorstExit(p, level) >= (Scale - SlipRate) * level
           /\ p.side = "SHORT" => Scale * WorstExit(p, level) <= (Scale + SlipRate) * level
<1> DEFINE slip == (level * SlipRate) \div Scale
<1>1. Scale \in Nat /\ Scale > 0 /\ SlipRate \in Nat /\ level * SlipRate \in Nat
  BY CostAssumption
<1>2. slip \in Int /\ Scale * slip <= level * SlipRate
  BY <1>1
<1>3. WorstExit(p, level) = level - Sign(p.side) * slip
  BY DEF WorstExit
<1> HIDE DEF slip
<1>4. CASE p.side = "LONG"
  <2>1. WorstExit(p, level) = level - slip
    BY <1>2, <1>3, <1>4 DEF Sign
  <2>2. Scale * (level - slip) = Scale * level - Scale * slip
    BY <1>1, <1>2
  <2> QED
    BY <1>1, <1>2, <1>4, <2>1, <2>2
<1>5. CASE p.side # "LONG"
  <2>1. WorstExit(p, level) = level + slip
    BY <1>2, <1>3, <1>5 DEF Sign
  <2>2. Scale * (level + slip) = Scale * level + Scale * slip
    BY <1>1, <1>2
  <2> QED
    BY <1>1, <1>2, <1>5, <2>1, <2>2
<1> QED
  BY <1>4, <1>5

\* A filled AI entry is worth its risk in real fills: build_ai_preview and the guard's
\* require_cost_aware_edge judge an estimate; whatever the quote, the rates and the levels,
\* a fill within the slippage allowed at no higher fee earns, from the worst exit at the
\* target, 1.5 times what it loses from the worst exit at the stop.
THEOREM EdgeReal == GatesSpec => []EdgeIsReal
<1>1. GatesInv => EdgeIsReal
  <2> SUFFICES ASSUME GatesInv, holding # NoPosition, holding.fee # NoRate,
                      NEW p, p = holding, p.charged <= p.fee,
                      Scale * Sign(p.side) * (p.entry - p.judged) <= SlipRate * p.judged
               PROVE  2 * Earned(p, WorstExit(p, p.target))
                        >= -3 * Earned(p, WorstExit(p, p.stop))
    BY DEF EdgeIsReal
  <2>1. PICK q \in Quotes :
            /\ p.judged = EntryAt(p.side, q)
            /\ CostAwareEdge([side |-> p.side, stop |-> p.stop, target |-> p.target], q, p.fee)
    BY DEF GatesInv, EdgeWasJudged
  <2> DEFINE T == p.target
             K == p.stop
             j == p.judged
             e == p.entry
             f == p.fee
             c == p.charged
             X == WorstExit(p, T)
             Y == WorstExit(p, K)
  <2>2. /\ T \in Nat /\ K \in Nat /\ j \in Nat /\ e \in Nat /\ f \in Nat /\ c \in Nat
        /\ p.side \in Sides /\ c <= f
    <3>1. p \in Position
      BY DEF GatesInv, GatesTypeOK
    <3>2. /\ f \in Rates /\ c \in Rates /\ T > 0 /\ K > 0
      BY DEF GatesInv, EdgeWasJudged
    <3>3. f \in Nat /\ c \in Nat
      BY <3>2, GatesAssumption
    <3> QED
      BY <3>1, <3>2, <3>3 DEF Position
  <2>3. Scale \in Nat /\ Scale > 0 /\ SlipRate \in Nat
    BY CostAssumption
  <2>4. /\ f <= Scale
        /\ p.side = "LONG"  => (Scale - f - SlipRate) * (2 * T + 3 * K)
                                   >= (Scale + f + SlipRate) * (5 * j)
        /\ p.side = "SHORT" => (Scale - f - SlipRate) * (5 * j)
                                   >= (Scale + f + SlipRate) * (2 * T + 3 * K)
    BY <2>1, <2>2, EdgeInAmounts
  <2>5. /\ X \in Int /\ Y \in Int
        /\ p.side = "LONG"  => /\ Scale * X >= (Scale - SlipRate) * T
                               /\ Scale * Y >= (Scale - SlipRate) * K
        /\ p.side = "SHORT" => /\ Scale * X <= (Scale + SlipRate) * T
                               /\ Scale * Y <= (Scale + SlipRate) * K
    BY <2>2, WorstExitBounds
  <2>6. /\ Earned(p, X) = Scale * Sign(p.side) * (X - e) - c * (e + X)
        /\ Earned(p, Y) = Scale * Sign(p.side) * (Y - e) - c * (e + Y)
    BY DEF Earned
  <2>7. Scale * Sign(p.side) * (e - j) <= SlipRate * j
    OBVIOUS
  <2> HIDE DEF T, K, j, e, f, c, X, Y
  <2>8. CASE p.side = "LONG"
    <3>1. Sign(p.side) = 1
      BY <2>8 DEF Sign
    <3>2. Scale * (2 * X + 3 * Y) >= (Scale - SlipRate) * (2 * T + 3 * K)
      BY <2>2, <2>3, <2>5, <2>8
    <3>3. Scale * (5 * e) <= (Scale + SlipRate) * (5 * j)
      BY <2>2, <2>3, <2>7, <3>1
    <3>4. (Scale - c) * (2 * X + 3 * Y) >= (Scale + c) * (5 * e)
      BY <2>2, <2>3, <2>4, <2>5, <2>8, <3>2, <3>3, EstimateCoversSlippage
    <3>5. /\ Earned(p, X) = Scale * (X - e) - c * (e + X)
          /\ Earned(p, Y) = Scale * (Y - e) - c * (e + Y)
      BY <2>3, <2>6, <3>1
    <3>6. 2 * Earned(p, X) + 3 * Earned(p, Y)
            = (Scale - c) * (2 * X + 3 * Y) - (Scale + c) * (5 * e)
      BY <2>2, <2>3, <2>5, <3>5
    <3>7. 2 * Earned(p, X) >= -3 * Earned(p, Y)
      BY <2>2, <2>3, <2>5, <3>4, <3>5, <3>6
    <3> QED
      BY <3>7 DEF X, Y, T, K
  <2>9. CASE p.side = "SHORT"
    <3>1. Sign(p.side) = -1
      BY <2>9 DEF Sign
    <3>2. Scale * (2 * X + 3 * Y) <= (Scale + SlipRate) * (2 * T + 3 * K)
      BY <2>2, <2>3, <2>5, <2>9
    <3>3. Scale * (5 * e) >= (Scale - SlipRate) * (5 * j)
      BY <2>2, <2>3, <2>7, <3>1
    <3>4. (Scale - c) * (5 * e) >= (Scale + c) * (2 * X + 3 * Y)
      BY <2>2, <2>3, <2>4, <2>5, <2>9, <3>2, <3>3, EstimateCoversSlippage
    <3>5. /\ Earned(p, X) = Scale * (e - X) - c * (e + X)
          /\ Earned(p, Y) = Scale * (e - Y) - c * (e + Y)
      BY <2>2, <2>3, <2>5, <2>6, <3>1
    <3>6. 2 * Earned(p, X) + 3 * Earned(p, Y)
            = (Scale - c) * (5 * e) - (Scale + c) * (2 * X + 3 * Y)
      BY <2>2, <2>3, <2>5, <3>5
    <3>7. 2 * Earned(p, X) >= -3 * Earned(p, Y)
      BY <2>2, <2>3, <2>5, <3>4, <3>5, <3>6
    <3> QED
      BY <3>7 DEF X, Y, T, K
  <2> QED
    BY <2>2, <2>8, <2>9 DEF Sides
<1> QED
  BY <1>1, GatesInvariant, PTL
=============================================================================
