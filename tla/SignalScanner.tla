---------------------------- MODULE SignalScanner ----------------------------
(***************************************************************************)
(* From closed candle to protected position under the day's loss budget:   *)
(* the signal engine (src/app/trading/controlled_signal_engine.py), the    *)
(* multi-symbol scanner with its read-only account reader                  *)
(* (multi_symbol_scanner.py), and the budget part of the mutation guard    *)
(* (src/app/exchanges/bybit_v5_gateway.py), in the steady state in which   *)
(* execution is automatic.  One worker runs the three in a loop; stops and *)
(* targets fill, the profit protector tightens stops and the UTC day ends  *)
(* while it awaits.                                                        *)
(*                                                                         *)
(* Claims, order outcomes and failures of the execution itself are the     *)
(* subject of FrozenExecution; here a claimed order that passes the guard  *)
(* fills and is protected.                                                 *)
(***************************************************************************)
EXTENDS RiskSizing

CONSTANTS
    SymbolOrder,        \* the symbols in the order the engine analyses them
    Strategy,           \* Strategy[s]: what the frozen strategy can answer for s
    Quotes,             \* what the public reads of a symbol can answer
    Unrealised,         \* unrealised results the open positions can show
    NoProposal,         \* the phase record holds no proposal
    Unknown,            \* a baseline that is not yet set
    InitialWallet,      \* wallet balance at the start
    DayLength,          \* hours of a UTC day
    Horizon,            \* bound on the hours
    LastCandle,         \* bound on the candles
    MaxEntries,         \* bound on the entries
    MaxCrashes          \* bound on the crashes of the worker

\* What the frozen strategy answers for a symbol: decision, score and levels.
Decision == [decision : {"LONG", "SHORT", "WAIT"}, score : Nat, stop : Nat, target : Nat]

ASSUME ScannerAssumption ==
    /\ SymbolOrder \in Seq(Symbols) /\ ToSet(SymbolOrder) = Symbols
    /\ Strategy \in [Symbols -> SUBSET Decision]
    /\ Quotes \subseteq Instrument
    /\ InitialWallet \in Int /\ Unrealised \subseteq Int
    /\ {LastCandle, MaxEntries, MaxCrashes} \subseteq Nat
    /\ {DayLength, Horizon} \subseteq Nat \ {0}

VARIABLES
    hour,               \* hours since the start
    signals,            \* ControlledLiveSignalRecord rows
    scanner,            \* MultiSymbolScannerStateRecord
    phase, slot,        \* FirstLiveProposalStateRecord: status and proposal
    baseline,           \* ControlledLiveStateRecord.experiment_start_equity
    killSwitch,         \* ControlledLiveStateRecord.kill_switch_active
    positions,          \* open positions at the exchange
    fills,              \* executions of the current UTC day
    wallet,             \* wallet balance
    pc, at, next,       \* the worker: step, hour of the cycle, symbol to analyse
    reading,            \* the worker's account and market reading
    excess,             \* what fills cost beyond the losses planned for them
    late,               \* signals written when the cursor had passed their candle
    judged,             \* signals that a batch has contained
    proposed,           \* proposals made from each candle
    entries, crashes    \* bounds

workerVars   == <<pc, at, next, reading>>
rowVars      == <<signals, scanner, baseline>>
phaseVars    == <<phase, slot, killSwitch>>
exchangeVars == <<positions, fills, wallet, excess>>
historyVars  == <<late, judged, proposed>>
bounds       == <<entries, crashes>>
vars == <<hour, workerVars, rowVars, phaseVars, exchangeVars, historyVars, bounds>>

Candles == 0..LastCandle

Day(h) == h \div DayLength

\* ControlledLiveSignalRecord
SignalRow ==
    [symbol : Symbols, candle : Candles, decision : {"LONG", "SHORT", "WAIT"},
     score : Nat, stop : Nat, target : Nat]

\* MultiSymbolScannerStateRecord; cursor is last_scanned_candle_open, -1 for none.
ScannerRow ==
    [cursor : Candles \cup {-1}, status : {"RUNNING", "DEGRADED", "READY_FOR_USER_APPROVAL"}]

\* The loss baseline of ControlledLiveStateRecord.  starting_day_equity is stored and
\* passed on too, but no rule reads it.
Baseline == Int \cup {Unknown}

\* ManualExecutionPreview, with the signal it was made from
Preview ==
    [symbol : Symbols, side : Side, candle : Candles, quantity : Nat, stop : Nat,
     target : Nat, loss : Nat, claimed : BOOLEAN]

ASSUME NoProposalAssumption == NoProposal \notin Preview

\* ScannerReadSnapshot: the parts that have been read, and what they said.
Part == {"positions", "fills"}
Reading ==
    [parts : SUBSET Part, quotes : [Symbols -> Instrument], open : SUBSET Symbols,
     valid : BOOLEAN, planned : Int, equity : Int, available : Int, pnl : Int,
     losses : Nat, closed : Nat]

Nothing ==
    [parts |-> {}, quotes |-> [s \in Symbols |-> Unavailable], open |-> {}, valid |-> TRUE,
     planned |-> 0, equity |-> 0, available |-> 0, pnl |-> 0, losses |-> 0, closed |-> 0]

PhaseStatus ==
    {"AUTO_RUNNING", "APPROVED_FOR_EXECUTION", "AUTO_POSITION_OPEN",
     "HALTED_EXECUTION_FAILURE"}

WorkerPc ==
    {"IDLE", "ENGINE", "SCAN", "READ", "BATCH", "MARK", "EXECUTE", "GUARD", "POST"}

TypeOK ==
    /\ hour \in 0..Horizon
    /\ signals \subseteq SignalRow
    /\ scanner \in ScannerRow
    /\ phase \in PhaseStatus
    /\ slot \in Preview \cup {NoProposal}
    /\ (slot = NoProposal) = (phase = "AUTO_RUNNING")
    /\ baseline \in Baseline
    /\ killSwitch \in BOOLEAN
    /\ positions \in [Symbols -> PositionRow \cup {NoPosition}]
    /\ fills \in Seq(ExecutionRow)
    /\ wallet \in Int
    /\ pc \in WorkerPc
    /\ at \in 0..Horizon
    /\ next \in 1..Len(SymbolOrder) + 1
    /\ reading \in Reading
    /\ excess \in Nat
    /\ late \subseteq SignalRow /\ judged \subseteq SignalRow
    /\ proposed \in [Candles -> Nat]
    /\ entries \in 0..MaxEntries /\ crashes \in 0..MaxCrashes

Init ==
    /\ hour = 1
    /\ signals = {}
    /\ scanner = [cursor |-> -1, status |-> "RUNNING"]
    /\ phase = "AUTO_RUNNING" /\ slot = NoProposal /\ killSwitch = FALSE
    /\ baseline = Unknown
    /\ positions = [s \in Symbols |-> NoPosition]
    /\ fills = <<>>
    /\ wallet = InitialWallet
    /\ pc = "IDLE" /\ at = 0 /\ next = 1 /\ reading = Nothing
    /\ excess = 0
    /\ late = {} /\ judged = {} /\ proposed = [c \in Candles |-> 0]
    /\ entries = 0 /\ crashes = 0

Goto(label) == pc' = label /\ UNCHANGED <<at, next>>

(***************************************************************************)
(* ControlledLiveSignalEngine.cycle                                        *)
(***************************************************************************)

\* latest_open; -1 for none
LatestOpen(s) == Max({-1} \cup {r.candle : r \in {q \in signals : q.symbol = s}})

\* A cycle of the worker begins; "now" is read once.
BeginCycle ==
    /\ pc = "IDLE"
    /\ pc' = "ENGINE" /\ at' = hour /\ next' = 1
    /\ UNCHANGED <<hour, reading, rowVars, phaseVars, exchangeVars, historyVars, bounds>>

\* The next symbol, if the last closed candle is not yet analysed: the fetched
\* candles end with it and its decision is stored, or the symbol is skipped.
Analyse ==
    /\ pc = "ENGINE" /\ next <= Len(SymbolOrder)
    /\ LET s == SymbolOrder[next]
           target == at - 1
       IN \/ /\ LatestOpen(s) < target /\ target \in Candles
             /\ \E d \in Strategy[s] :
                   LET row == [symbol |-> s, candle |-> target, decision |-> d.decision,
                               score |-> d.score, stop |-> d.stop, target |-> d.target]
                   IN /\ signals' = signals \cup {row}
                      /\ late' = late \cup {x \in {row} : target <= scanner.cursor}
          \/ UNCHANGED <<signals, late>>
    /\ next' = next + 1
    /\ UNCHANGED <<hour, pc, at, reading, scanner, baseline, phaseVars,
                   exchangeVars, judged, proposed, bounds>>

EngineDone ==
    /\ pc = "ENGINE" /\ next > Len(SymbolOrder)
    /\ pc' = "SCAN" /\ at' = 0 /\ next' = 1
    /\ UNCHANGED <<hour, reading, rowVars, phaseVars, exchangeVars, historyVars, bounds>>

(***************************************************************************)
(* BybitMultiSymbolReadOnlyReader.read                                     *)
(***************************************************************************)

\* Only the decisions of an empty slot, or one whose position is open, are scanned.
BeginRead ==
    /\ pc = "SCAN"
    /\ slot = NoProposal \/ phase = "AUTO_POSITION_OPEN"
    /\ reading' = Nothing
    /\ Goto("READ")
    /\ UNCHANGED <<hour, rowVars, phaseVars, exchangeVars, historyVars, bounds>>

\* "Immutable proposal already exists"
ScanSkipped ==
    /\ pc = "SCAN"
    /\ slot # NoProposal /\ phase # "AUTO_POSITION_OPEN"
    /\ Goto("EXECUTE")
    /\ UNCHANGED <<hour, reading, rowVars, phaseVars, exchangeVars, historyVars, bounds>>

OpenSymbols == {s \in Symbols : positions[s] # NoPosition}

UsedMargin ==
    SumFunction([s \in OpenSymbols |-> positions[s].size * positions[s].entry * Hundred])
        \div Leverage

\* What one private request answers, added to a reading.
PositionsRead(r) ==
    [r EXCEPT !.parts = @ \cup {"positions"}, !.open = OpenSymbols,
              !.valid = ProtectionValid(positions),
              !.planned = IF ProtectionValid(positions) THEN OpenPlannedRisk(positions) ELSE 0]

\* Wallet and executions change together at the exchange and are read in one step.
FillsRead(r, u) ==
    [r EXCEPT !.parts = @ \cup {"fills"}, !.equity = wallet + u,
              !.available = wallet + u - UsedMargin, !.pnl = DayPnl(fills),
              !.losses = ScannerLosses(fills), !.closed = GuardLosses(fills)]

UnrealisedNow == IF OpenSymbols = {} THEN {0} ELSE Unrealised

\* The private requests of the reader are answered in any order.
ReadPart ==
    /\ pc = "READ"
    /\ \/ "positions" \notin reading.parts /\ reading' = PositionsRead(reading)
       \/ /\ "fills" \notin reading.parts
          /\ \E u \in UnrealisedNow : reading' = FillsRead(reading, u)
    /\ UNCHANGED <<hour, pc, at, next, rowVars, phaseVars, exchangeVars, historyVars, bounds>>

\* Mutant: a failed read uses up the candle it was made for.
TransientErrorConsumes ==
    /\ pc = "READ"
    /\ scanner' = [cursor |-> Max({r.candle : r \in signals} \cup {scanner.cursor}),
                   status |-> "DEGRADED"]
    /\ reading' = Nothing
    /\ Goto("EXECUTE")
    /\ UNCHANGED <<hour, signals, baseline, phaseVars, exchangeVars, historyVars, bounds>>

\* mark_transient_error: a read failed, or an open position has no valid protection.
ReadFails ==
    /\ pc = "READ"
    /\ scanner' = [scanner EXCEPT !.status = "DEGRADED"]
    /\ reading' = Nothing
    /\ Goto("EXECUTE")
    /\ UNCHANGED <<hour, signals, baseline, phaseVars, exchangeVars,
                   historyVars, bounds>>

ReadingComplete == pc = "READ" /\ reading.parts = Part /\ reading.valid

(***************************************************************************)
(* MultiSymbolFirstProposalCoordinator.cycle after the reading             *)
(***************************************************************************)

\* The rollover finds no room for another position.
CapacityFull ==
    /\ ReadingComplete
    /\ slot # NoProposal
    /\ Cardinality(reading.open) >= MaxPositions
    /\ reading' = Nothing
    /\ Goto("EXECUTE")
    /\ UNCHANGED <<hour, rowVars, phaseVars, exchangeVars, historyVars, bounds>>

\* release_position_slot_for_automatic_scan
ReleaseSlot ==
    /\ ReadingComplete
    /\ slot # NoProposal /\ ~killSwitch
    /\ Cardinality(reading.open) < MaxPositions
    /\ slot' = NoProposal /\ phase' = "AUTO_RUNNING"
    /\ UNCHANGED <<hour, workerVars, rowVars, killSwitch, exchangeVars, historyVars, bounds>>

\* refresh_loss_baselines: the experiment's equity anchor.
RefreshedBaseline(equity) == IF baseline = Unknown THEN equity ELSE baseline

\* next_candidate_batch: the admissible signals of the oldest candle past the cursor.
Pending ==
    {r \in signals : /\ r.decision # "WAIT"
                     /\ r.score >= SignalThreshold
                     /\ r.candle > scanner.cursor}

\* (The Shadow rows that databases from before migration 18 hold are left out.)
CandidateBatch ==
    {r \in Pending : \A q \in Pending : r.candle <= q.candle}

\* save_market_snapshot and refresh_loss_baselines.  The instrument and account rows
\* that the snapshot fills feed the Telegram status only and are left out.  The public
\* answers do not depend on the account; they are chosen here, for the symbols of the
\* batch, whose candidates alone look at them.
SaveSnapshot ==
    /\ ReadingComplete
    /\ slot = NoProposal
    /\ scanner' = [scanner EXCEPT !.status = "RUNNING"]
    /\ baseline' = RefreshedBaseline(reading.equity)
    /\ \E q \in [{r.symbol : r \in CandidateBatch} -> Quotes] :
          reading' = [reading EXCEPT
             !.quotes = [s \in Symbols |-> IF s \in DOMAIN q THEN q[s] ELSE @[s]]]
    /\ Goto("BATCH")
    /\ UNCHANGED <<hour, signals, phaseVars, exchangeVars, historyVars, bounds>>

SideOf(r) == IF r.decision = "LONG" THEN "BUY" ELSE "SELL"

EntryPrice(r, quote) == IF r.decision = "LONG" THEN quote.ask ELSE quote.bid

\* The account as build_manual_preview sees it.
Risk ==
    [equity |-> reading.equity, available |-> reading.available,
     open |-> Cardinality(reading.open), pnl |-> reading.pnl, losses |-> reading.losses,
     planned |-> reading.planned, experiment |-> baseline]

\* _build for one candidate
BuiltPreview(r) ==
    LET i == reading.quotes[r.symbol]
        side == SideOf(r)
        entry == EntryPrice(r, i)
        l == NativeLevels(side, r.stop, r.target)
        quantity == PreviewQuantity(side, entry, l.stop, i, Risk)
    IN [symbol |-> r.symbol, side |-> side, candle |-> r.candle, quantity |-> quantity,
        stop |-> l.stop, target |-> l.target,
        loss |-> quantity * UnitLoss(side, entry, l.stop), claimed |-> FALSE]

\* _build raises no CandidateRejected.
Buildable(r) ==
    LET i == reading.quotes[r.symbol]
        side == SideOf(r)
        entry == EntryPrice(r, i)
        l == NativeLevels(side, r.stop, r.target)
    IN /\ Eligible(i)
       /\ Cardinality(reading.open) < MaxPositions
       /\ r.symbol \notin reading.open
       /\ LevelsValid(side, entry, l)
       /\ RiskAllows(Risk)
       /\ PreviewExecutable(PreviewQuantity(side, entry, l.stop, i, Risk),
                            side, entry, l.stop, i, Risk)

Ranked == {r \in CandidateBatch : Buildable(r)}

BatchCandle == CHOOSE c \in Candles : \E r \in CandidateBatch : r.candle = c

NoCandidate ==
    /\ pc = "BATCH"
    /\ CandidateBatch = {}
    /\ reading' = Nothing
    /\ Goto("EXECUTE")
    /\ UNCHANGED <<hour, rowVars, phaseVars, exchangeVars, historyVars, bounds>>

\* mark_batch_scanned: every candidate of the batch was rejected.
BatchRejected ==
    /\ pc = "BATCH"
    /\ CandidateBatch # {} /\ Ranked = {}
    /\ scanner' = [scanner EXCEPT !.cursor = BatchCandle]
    /\ judged' = judged \cup CandidateBatch
    /\ reading' = Nothing
    /\ Goto("EXECUTE")
    /\ UNCHANGED <<hour, signals, baseline, phaseVars, exchangeVars, late,
                   proposed, bounds>>

\* save_ready with the winner: the best score; costs and turnover break ties.
SaveReady ==
    /\ pc = "BATCH"
    /\ \E r \in Ranked :
          /\ \A q \in Ranked : q.score <= r.score
          /\ slot' = BuiltPreview(r)
    /\ phase' = "APPROVED_FOR_EXECUTION"
    /\ judged' = judged \cup CandidateBatch
    /\ proposed' = [proposed EXCEPT ![BatchCandle] = @ + 1]
    /\ reading' = Nothing
    /\ Goto("MARK")
    /\ UNCHANGED <<hour, rowVars, killSwitch, exchangeVars, late, bounds>>

\* Mutant: the cursor stays where it was.
MarkReadyKeepsCursor ==
    /\ pc = "MARK"
    /\ scanner' = [scanner EXCEPT !.status = "READY_FOR_USER_APPROVAL"]
    /\ Goto("EXECUTE")
    /\ UNCHANGED <<hour, reading, signals, baseline, phaseVars, exchangeVars, historyVars,
                   bounds>>

\* mark_ready, a transaction of its own: the cursor passes the winner's candle.
MarkReady ==
    /\ pc = "MARK"
    /\ scanner' = [cursor |-> slot.candle, status |-> "READY_FOR_USER_APPROVAL"]
    /\ Goto("EXECUTE")
    /\ UNCHANGED <<hour, reading, signals, baseline, phaseVars,
                   exchangeVars, historyVars, bounds>>

(***************************************************************************)
(* _controlled_execution_cycle with the budget part of the guard           *)
(***************************************************************************)

\* The proposal is claimed and the guard starts with a fresh instrument and quote.
Claim ==
    /\ pc = "EXECUTE"
    /\ phase = "APPROVED_FOR_EXECUTION" /\ ~slot.claimed
    /\ slot' = [slot EXCEPT !.claimed = TRUE]
    /\ \E q \in Quotes : reading' = [Nothing EXCEPT !.quotes[slot.symbol] = q]
    /\ Goto("GUARD")
    /\ UNCHANGED <<hour, rowVars, phase, killSwitch, exchangeVars, historyVars, bounds>>

NothingToExecute ==
    /\ pc = "EXECUTE"
    /\ phase # "APPROVED_FOR_EXECUTION"
    /\ Goto("IDLE")
    /\ UNCHANGED <<hour, reading, rowVars, phaseVars, exchangeVars, historyVars, bounds>>

\* Any exception of the execution: kill switch, then the phase record.
Halt ==
    /\ killSwitch' = TRUE
    /\ phase' = "HALTED_EXECUTION_FAILURE"
    /\ reading' = Nothing
    /\ Goto("IDLE")
    /\ UNCHANGED slot

\* The claim was made before a crash: it is refused.
ClaimRefused ==
    /\ pc = "EXECUTE"
    /\ phase = "APPROVED_FOR_EXECUTION" /\ slot.claimed
    /\ Halt
    /\ UNCHANGED <<hour, rowVars, exchangeVars, historyVars, bounds>>

\* authorize reads the positions first, then the wallet and the executions.
GuardReads ==
    /\ pc = "GUARD" /\ reading.parts # Part
    /\ \/ reading.parts = {} /\ reading' = PositionsRead(reading)
       \/ /\ reading.parts = {"positions"}
          /\ \E u \in UnrealisedNow : reading' = FillsRead(reading, u)
    /\ UNCHANGED <<hour, pc, at, next, rowVars, phaseVars, exchangeVars, historyVars, bounds>>

\* executable_entry
QuotedEntry ==
    LET i == reading.quotes[slot.symbol] IN IF slot.side = "BUY" THEN i.ask ELSE i.bid

\* The fresh quote keeps the exact approved order within the instrument's limits.
GuardQuoteAllows(i) ==
    LET notional == slot.quantity * QuotedEntry * Hundred
    IN /\ Eligible(i)
       /\ slot.quantity % i.step = 0 /\ slot.quantity >= i.minQuantity
       /\ notional >= i.minNotional /\ notional <= MaxNotional

\* Mutant: the guard relies on the budget check of the preview.
GuardTrustsPreview ==
    /\ GuardQuoteAllows(reading.quotes[slot.symbol])
    /\ Cardinality(reading.open) < MaxPositions
    /\ slot.symbol \notin reading.open
    /\ reading.equity > 0
    /\ reading.valid
    /\ RefreshedBaseline(reading.equity) - reading.equity
         < ExperimentLimit
    /\ reading.closed < MaxLosses

\* authorize(CREATE) on the values it has read.
GuardAllows ==
    /\ GuardQuoteAllows(reading.quotes[slot.symbol])
    /\ Cardinality(reading.open) < MaxPositions
    /\ slot.symbol \notin reading.open
    /\ reading.equity > 0
    /\ reading.valid
    /\ RealizedDailyLoss(reading.pnl) + reading.planned + slot.loss <= DailyMax
    /\ RefreshedBaseline(reading.equity) - reading.equity
         < ExperimentLimit
    /\ reading.closed < MaxLosses

GuardPasses ==
    /\ pc = "GUARD" /\ reading.parts = Part
    /\ GuardAllows
    /\ baseline' = RefreshedBaseline(reading.equity)
    /\ reading' = [Nothing EXCEPT !.quotes = reading.quotes]
    /\ Goto("POST")
    /\ UNCHANGED <<hour, signals, scanner, phaseVars, exchangeVars,
                   historyVars, bounds>>

GuardRefuses ==
    /\ pc = "GUARD" /\ reading.parts = Part
    /\ ~GuardAllows
    /\ baseline' = RefreshedBaseline(reading.equity)
    /\ Halt
    /\ UNCHANGED <<hour, signals, scanner, exchangeVars, historyVars, bounds>>

(***************************************************************************)
(* The exchange                                                            *)
(***************************************************************************)

\* A price that slipped against the order by the planned rate.
Slipped(price, up) ==
    LET slip == (price * SlipRate) \div Hundred
    IN IF up THEN price + slip ELSE price - slip

Positive(n) == Max({0, n})

\* An execution is booked: the day's list and the wallet.
Booked(xs) ==
    /\ fills' = fills \o xs
    /\ wallet' = wallet + DayPnl(xs)

\* The entry fills at the quote or slipped, and its native levels are accepted.
EntryFills ==
    /\ pc = "POST"
    /\ entries < MaxEntries
    /\ \E price \in {QuotedEntry, Slipped(QuotedEntry, slot.side = "BUY")} :
          LET p == [side |-> slot.side, size |-> slot.quantity, entry |-> price,
                    stop |-> slot.stop, target |-> slot.target]
              fee == slot.quantity * price * FeeRate
          IN /\ Ordered(p.side, p.stop, p.entry, p.target)
             /\ positions' = [positions EXCEPT ![slot.symbol] = p]
             /\ Booked(<<[pnl |-> 0, fee |-> fee]>>)
             /\ excess' = excess + Positive(fee + StopRisk(p) - slot.loss)
    /\ phase' = "AUTO_POSITION_OPEN"
    /\ entries' = entries + 1
    /\ reading' = Nothing
    /\ Goto("IDLE")
    /\ UNCHANGED <<hour, rowVars, slot, killSwitch, historyVars, crashes>>

\* The entry is refused, or not confirmed (module FrozenExecution).
EntryFails ==
    /\ pc = "POST"
    /\ Halt
    /\ UNCHANGED <<hour, rowVars, exchangeVars, historyVars, bounds>>

\* A native stop or target of s fills at price: the position is gone, its result booked.
Exit(s, price) ==
    LET p == positions[s]
        x == [pnl |-> -(p.size * Adverse(p.side, p.entry, price) * Hundred),
              fee |-> p.size * price * FeeRate]
    IN /\ Booked(<<x>>)
       /\ positions' = [positions EXCEPT ![s] = NoPosition]
       /\ excess' = excess + Positive(-OrderResult(x) - StopRisk(p))
       /\ UNCHANGED <<hour, workerVars, rowVars, phaseVars, historyVars, bounds>>

\* The stop slips as far as planned, the worst case.
StopFills(s) ==
    /\ positions[s] # NoPosition
    /\ Exit(s, Slipped(positions[s].stop, positions[s].side = "SELL"))

TargetFills(s) ==
    /\ positions[s] # NoPosition
    /\ Exit(s, positions[s].target)

\* The profit protector moves the stop to the entry (module ProfitProtector).
BreakEven(s) ==
    /\ positions[s] # NoPosition
    /\ positions[s].stop # positions[s].entry
    /\ positions' = [positions EXCEPT ![s].stop = positions[s].entry]
    /\ UNCHANGED <<hour, workerVars, rowVars, phaseVars, fills, wallet, excess, historyVars,
                   bounds>>

\* An hour passes; at midnight the day's executions start again.
HourPasses ==
    /\ hour < Horizon
    /\ hour' = hour + 1
    /\ fills' = IF Day(hour + 1) # Day(hour) THEN <<>> ELSE fills
    /\ UNCHANGED <<workerVars, rowVars, phaseVars, positions, wallet, excess, historyVars,
                   bounds>>

\* The worker dies at any await or between two commits and is started again.
Crash ==
    /\ pc # "IDLE"
    /\ crashes < MaxCrashes
    /\ crashes' = crashes + 1
    /\ pc' = "IDLE" /\ at' = 0 /\ next' = 1 /\ reading' = Nothing
    /\ UNCHANGED <<hour, rowVars, phaseVars, exchangeVars, historyVars, entries>>

Next ==
    \/ BeginCycle \/ Analyse \/ EngineDone
    \/ BeginRead \/ ScanSkipped \/ ReadPart \/ ReadFails
    \/ CapacityFull \/ ReleaseSlot \/ SaveSnapshot
    \/ NoCandidate \/ BatchRejected \/ SaveReady \/ MarkReady
    \/ Claim \/ NothingToExecute \/ ClaimRefused
    \/ GuardReads \/ GuardPasses \/ GuardRefuses \/ EntryFills \/ EntryFails
    \/ \E s \in Symbols : StopFills(s) \/ TargetFills(s) \/ BreakEven(s)
    \/ HourPasses \/ Crash

Spec == Init /\ [][Next]_vars

(***************************************************************************)
(* Properties                                                              *)
(***************************************************************************)

\* The day's realized loss plus what every open position can still lose at its
\* native stop stays within daily_max_loss, except for what fills cost beyond the
\* loss planned for them: no torn reading, no stop that fills while the guard
\* awaits its answers, no profit and no midnight lets an entry through that
\* overdraws the budget (authorize, remaining_daily_risk_budget).
DayLossIsBudgeted ==
    RealizedDailyLoss(DayPnl(fills)) + OpenPlannedRisk(positions) <= DailyMax + excess

\* The cursor passes an admissible signal only in a batch that judged it, or the
\* signal was stored after the cursor had passed its candle ("no signal was
\* consumed" when a read fails, MultiSymbolFirstProposalCoordinator.cycle).
SignalsAreJudged ==
    \A r \in signals :
        r.decision # "WAIT" /\ r.score >= SignalThreshold /\ r.candle <= scanner.cursor
            => r \in judged \cup late

\* A candle's batch leads to one proposal; only a worker that dies between
\* save_ready and mark_ready can propose from it again, once for each such crash.
OneProposalPerBatch == \A c \in Candles : proposed[c] <= 1 + crashes

\* The reader's consecutive-loss stop means that many losing trades in a row.
StreakMeansLosingTrades ==
    ScannerLosses(fills) >= MaxLosses => GuardLosses(fills) >= MaxLosses
=============================================================================
