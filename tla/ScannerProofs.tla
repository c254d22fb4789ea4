---------------------------- MODULE ScannerProofs ----------------------------
(***************************************************************************)
(* Theorems about the two loops of the worker that read the public market: *)
(* the multi-symbol scanner, which proposes entries, and the hybrid market *)
(* discovery, which asks the provider about other markets.                 *)
(*                                                                         *)
(* The scanner and the day's loss budget, for any number of symbols, any   *)
(* strategy, quotes, limits and rates, any length of day and run and any   *)
(* number of crashes.  What a reading of the account took for the day's    *)
(* loss may be old when the entry goes out; BudgetInv says where what left *)
(* it since has gone.                                                      *)
(*                                                                         *)
(* The market discovery, for any markets, limits, intervals, length of     *)
(* day, number of restarts and run.  The gate and the counter live in one  *)
(* row, written before the request is sent, so a crash in between can only *)
(* leave them too strict.  The invariants say how a task that is under way *)
(* stands to that row: what it is about to send is what the row says was   *)
(* claimed last (ClaimInHand), and it has been counted already             *)
(* (PostIsCounted).  The gate compares a claim with the last one only;     *)
(* that it holds against every earlier request rests on scores that are    *)
(* not negative (LastClaimCovers).                                         *)
(***************************************************************************)
EXTENDS SignalScanner, MarketDiscovery, SumTheorems

(***************************************************************************)
(* The inductive invariants                                                *)
(***************************************************************************)

\* The worker marks, guards and posts a proposal that the phase record holds approved.
SlotInHand == pc \in {"MARK", "GUARD", "POST"} => phase = "APPROVED_FOR_EXECUTION"

TypeInv == TypeOK /\ SlotInHand

\* No native stop lies beyond its entry, so that leaving there never gains.
StopsLimitLosses ==
    \A s \in Symbols : positions[s] # NoPosition =>
        Adverse(positions[s].side, positions[s].entry, positions[s].stop) >= 0

DayLoss == RealizedDailyLoss(DayPnl(fills))

Planned == OpenPlannedRisk(positions)

\* What the guard has read covers what has become of it: a position that left since
\* has moved its planned risk into the day's loss, or into excess.
ReadingCovers ==
    pc = "GUARD" /\ reading.valid =>
        /\ reading.parts = {"positions"} => Planned <= reading.planned
        /\ reading.parts = Part =>
               DayLoss + Planned <= RealizedDailyLoss(reading.pnl) + reading.planned + excess

\* Once the guard has passed, there is room for the loss of the order.
RoomForOrder == pc = "POST" => DayLoss + Planned + slot.loss <= DailyMax + excess

BudgetInv ==
    /\ StopsLimitLosses
    /\ DayLossIsBudgeted
    /\ ReadingCovers
    /\ RoomForOrder

Admissible(r) == r.decision # "WAIT" /\ r.score >= SignalThreshold

\* Between save_ready and mark_ready the batch of the saved proposal is judged.
MarkedIsJudged ==
    pc = "MARK" =>
        /\ slot.candle > scanner.cursor
        /\ \A r \in signals : Admissible(r) /\ r.candle <= slot.candle => r \in judged \cup late

\* A candle past the cursor was proposed from only before a crash, the one that the
\* worker is about to mark excepted.
UnmarkedNeedsCrash ==
    \A c \in Candles :
        c > scanner.cursor /\ ~(pc = "MARK" /\ slot.candle = c) => proposed[c] <= crashes

ScanInv ==
    /\ SignalsAreJudged
    /\ OneProposalPerBatch
    /\ MarkedIsJudged
    /\ UnmarkedNeedsCrash

(***************************************************************************)
(* The operators of RiskSizing                                             *)
(***************************************************************************)

\* The smaller and the larger of two numbers.
LEMMA MinOfTwo ==
  ASSUME NEW a \in Int, NEW b \in Int
  PROVE  Min({a, b}) = IF a <= b THEN a ELSE b
BY DEF Min

LEMMA MaxOfTwo ==
  ASSUME NEW a \in Int, NEW b \in Int
  PROVE  Max({a, b}) = IF a >= b THEN a ELSE b
BY DEF Max

\* A product of naturals, and a quotient of integers.
LEMMA TimesType == \A a, b \in Nat : a * b \in Nat
OBVIOUS

LEMMA DivType ==
  ASSUME NEW d \in Nat \ {0}
  PROVE  /\ \A a \in Nat : a \div d \in Nat
         /\ \A a \in Int : a \div d \in Int
OBVIOUS

\* The rates, the tick and the leverage.
LEMMA RatesType ==
  /\ FeeRate \in Nat /\ SlipRate \in Nat /\ FeeRate + SlipRate <= 100
  /\ Tick \in Nat \ {0} /\ Leverage \in Nat \ {0}
  /\ RiskPct \in Nat /\ DailyMax \in Nat /\ MaxNotional \in Nat
BY RiskAssumption

\* A realized daily loss is a natural number, and zero when the day's result is.
LEMMA RealizedLossType ==
  ASSUME NEW pnl \in Int
  PROVE  /\ RealizedDailyLoss(pnl) \in Nat
         /\ RealizedDailyLoss(pnl) = IF pnl <= 0 THEN -pnl ELSE 0
BY MaxOfTwo DEF RealizedDailyLoss

LEMMA PositiveType ==
  ASSUME NEW n \in Int
  PROVE  Positive(n) \in Nat /\ Positive(n) >= n
BY MaxOfTwo DEF Positive

LEMMA AdverseType ==
  ASSUME NEW side, NEW from \in Int, NEW to \in Int
  PROVE  Adverse(side, from, to) \in Int
BY DEF Adverse

\* The planned risk of a position.
LEMMA StopRiskType ==
  ASSUME NEW p \in PositionRow
  PROVE  StopRisk(p) \in Int
<1>1. p.size \in Nat /\ p.entry \in Nat /\ p.stop \in Nat
  BY DEF PositionRow
<1>2. Adverse(p.side, p.entry, p.stop) \in Int
  BY <1>1, AdverseType
<1>3. p.stop * (FeeRate + SlipRate) \in Nat
  BY <1>1, RatesType
<1>4. Adverse(p.side, p.entry, p.stop) * Hundred + p.stop * (FeeRate + SlipRate) \in Int
  BY <1>2, <1>3 DEF Hundred
<1> QED BY <1>1, <1>4 DEF StopRisk

\* The planned risk of all positions.
LEMMA PlannedRiskType ==
  ASSUME NEW ps \in [Symbols -> PositionRow \cup {NoPosition}]
  PROVE  OpenPlannedRisk(ps) \in Int
<1> DEFINE O == {o \in Symbols : ps[o] # NoPosition}
<1>1. IsFiniteSet(O)
  BY RiskAssumption, FS_Subset
<1>2. [s \in O |-> StopRisk(ps[s])] \in [O -> Int]
  BY StopRiskType
<1> QED BY <1>1, <1>2, SumType DEF OpenPlannedRisk

\* The result of the day.
LEMMA DayPnlType ==
  ASSUME NEW xs \in Seq(ExecutionRow)
  PROVE  DayPnl(xs) \in Int
<1>1. DOMAIN xs = 1..Len(xs) /\ Len(xs) \in Nat
  OBVIOUS
<1>2. IsFiniteSet(DOMAIN xs)
  BY <1>1, FS_Interval
<1>3. [i \in DOMAIN xs |-> OrderResult(xs[i])] \in [DOMAIN xs -> Int]
  <2>1. \A x \in ExecutionRow : OrderResult(x) \in Int
    BY DEF ExecutionRow, OrderResult
  <2>2. \A i \in DOMAIN xs : xs[i] \in ExecutionRow
    OBVIOUS
  <2> QED BY <2>1, <2>2
<1> QED BY <1>2, <1>3, SumType DEF DayPnl

\* The count of the last losing orders.
LEMMA LosingRunType ==
  ASSUME NEW xs \in Seq(ExecutionRow), NEW orders \in SUBSET DOMAIN xs
  PROVE  LosingRun(xs, orders) \in Nat
<1>1. IsFiniteSet(DOMAIN xs)
  BY FS_Interval
<1>2. IsFiniteSet({i \in orders : \A j \in orders : j >= i => OrderResult(xs[j]) < 0})
  BY <1>1, FS_Subset
<1> QED BY <1>2, FS_CardinalityType DEF LosingRun

\* The levels of an order.
LEMMA NativeLevelsType ==
  ASSUME NEW side, NEW stop \in Nat, NEW target \in Nat
  PROVE  /\ NativeLevels(side, stop, target).stop \in Nat
         /\ NativeLevels(side, stop, target).target \in Nat
<1>1. \A v \in Nat : (v \div Tick) * Tick \in Nat /\ CeilStep(v, Tick) \in Nat
  <2> SUFFICES ASSUME NEW v \in Nat
               PROVE  (v \div Tick) * Tick \in Nat /\ CeilStep(v, Tick) \in Nat
    OBVIOUS
  <2>1. v + Tick - 1 \in Nat
    BY RatesType
  <2>2. v \div Tick \in Nat /\ (v + Tick - 1) \div Tick \in Nat
    BY <2>1, RatesType, DivType
  <2> QED BY <2>2, RatesType, TimesType DEF CeilStep
<1> QED BY <1>1 DEF NativeLevels

\* An order with valid levels loses money when it is stopped out.
LEMMA UnitLossPositive ==
  ASSUME NEW side \in Side, NEW entry \in Nat,
         NEW l, l.stop \in Nat, l.target \in Nat, LevelsValid(side, entry, l)
  PROVE  UnitLoss(side, entry, l.stop) \in Nat \ {0}
<1>1. Adverse(side, entry, l.stop) \in Nat \ {0}
  BY DEF LevelsValid, Ordered, Adverse, Side
<1>2. (entry + l.stop) * (FeeRate + SlipRate) \in Nat
  BY RatesType
<1> QED BY <1>1, <1>2 DEF UnitLoss, Hundred

\* The size of a preview that the risk rules let through.
LEMMA QuantityType ==
  ASSUME NEW side, NEW entry \in Nat \ {0}, NEW stop, UnitLoss(side, entry, stop) \in Nat \ {0},
         NEW i \in Instrument, i.step > 0,
         NEW risk, risk.equity \in Nat, risk.pnl \in Int, risk.planned \in Int
  PROVE  PreviewQuantity(side, entry, stop, i, risk) \in Nat
<1>1. RealizedDailyLoss(risk.pnl) \in Nat
  BY RealizedLossType
<1>2. RemainingDailyBudget(risk) \in Nat
  <2>1. DailyMax - RealizedDailyLoss(risk.pnl) - risk.planned \in Int
    BY <1>1, RatesType
  <2> QED BY <2>1, MaxOfTwo DEF RemainingDailyBudget
<1>3. (risk.equity * RiskPct) \div Hundred \in Nat
  BY RatesType, TimesType, DivType DEF Hundred
<1>4. RiskBudget(risk) \in Nat
  BY <1>2, <1>3, MinOfTwo DEF RiskBudget
<1>5. RiskBudget(risk) \div UnitLoss(side, entry, stop) \in Nat
  BY <1>4, DivType
<1>6. MaxNotional \div (entry * Hundred) \in Nat
  <2>1. entry * Hundred \in Nat \ {0}
    BY DEF Hundred
  <2> QED BY <2>1, RatesType, DivType
<1>7. Min({RiskBudget(risk) \div UnitLoss(side, entry, stop), MaxNotional \div (entry * Hundred)})
        \in Nat
  BY <1>5, <1>6, MinOfTwo
<1>8. i.step \in Nat \ {0}
  BY DEF Instrument
<1> QED BY <1>7, <1>8, DivType, TimesType DEF PreviewQuantity

(***************************************************************************)
(* Type correctness                                                        *)
(***************************************************************************)

\* The empty reading, with or without quotes.
LEMMA NothingType ==
  /\ Nothing \in Reading
  /\ \A q \in [Symbols -> Instrument] : [Nothing EXCEPT !.quotes = q] \in Reading
  /\ \A s \in Symbols, q \in Quotes : [Nothing EXCEPT !.quotes[s] = q] \in Reading
<1>1. Unavailable \in Instrument
  BY Zenon DEF Unavailable, Instrument
<1>2. Nothing \in Reading
  BY <1>1 DEF Nothing, Reading
<1>3. \A s \in Symbols, q \in Quotes : [Nothing.quotes EXCEPT ![s] = q] \in [Symbols -> Instrument]
  BY <1>1, ScannerAssumption DEF Nothing
<1>4. \A q \in [Symbols -> Instrument] : [Nothing EXCEPT !.quotes = q] \in Reading
  BY <1>2 DEF Reading
<1>5. \A s \in Symbols, q \in Quotes :
         [Nothing EXCEPT !.quotes[s] = q] = [Nothing EXCEPT !.quotes = [Nothing.quotes EXCEPT ![s] = q]]
  BY DEF Nothing
<1> QED BY <1>2, <1>3, <1>4, <1>5

\* The margin in use is an integer.
LEMMA UsedMarginType ==
  ASSUME TypeOK
  PROVE  UsedMargin \in Int
<1> DEFINE f == [s \in OpenSymbols |-> positions[s].size * positions[s].entry * Hundred]
<1>1. IsFiniteSet(OpenSymbols)
  BY RiskAssumption, FS_Subset DEF OpenSymbols
<1>2. \A s \in OpenSymbols : positions[s].size \in Nat /\ positions[s].entry \in Nat
  BY DEF TypeOK, OpenSymbols, PositionRow
<1>3. f \in [OpenSymbols -> Int]
  BY <1>2, TimesType DEF Hundred
<1>4. SumFunction(f) \in Int
  <2> HIDE DEF f
  <2> QED BY <1>1, <1>3, SumType
<1> HIDE DEF f
<1>5. SumFunction(f) \div Leverage \in Int
  BY <1>4, RatesType, DivType
<1> QED BY <1>5 DEF UsedMargin, f

\* Every answer keeps the reading well typed.
LEMMA AnswersType ==
  ASSUME TypeOK
  PROVE  /\ PositionsRead(reading) \in Reading
         /\ \A u \in UnrealisedNow : FillsRead(reading, u) \in Reading
<1>1. OpenPlannedRisk(positions) \in Int
  BY PlannedRiskType DEF TypeOK
<1>2. PositionsRead(reading) \in Reading
  <2>1. OpenSymbols \in SUBSET Symbols /\ ProtectionValid(positions) \in BOOLEAN
    BY DEF OpenSymbols, ProtectionValid
  <2>2. (IF ProtectionValid(positions) THEN OpenPlannedRisk(positions) ELSE 0) \in Int
    BY <1>1
  <2>3. reading.parts \cup {"positions"} \in SUBSET Part
    BY DEF TypeOK, Reading, Part
  <2> HIDE DEF Part
  <2> QED BY <2>1, <2>2, <2>3 DEF PositionsRead, TypeOK, Reading
<1>3. ASSUME NEW u \in UnrealisedNow PROVE FillsRead(reading, u) \in Reading
  <2>1. wallet \in Int /\ u \in Int
    BY ScannerAssumption DEF TypeOK, UnrealisedNow
  <2>2. wallet + u \in Int /\ wallet + u - UsedMargin \in Int
    BY <2>1, UsedMarginType
  <2>3. DayPnl(fills) \in Int
    BY DayPnlType DEF TypeOK
  <2>4. ScannerLosses(fills) \in Nat /\ GuardLosses(fills) \in Nat
    BY LosingRunType DEF TypeOK, ScannerLosses, GuardLosses
  <2>5. reading.parts \cup {"fills"} \in SUBSET Part
    BY DEF TypeOK, Reading, Part
  <2> QED BY <2>2, <2>3, <2>4, <2>5 DEF FillsRead, TypeOK, Reading
<1> QED BY <1>2, <1>3

\* The initial state has the right types.
LEMMA InitTypeInv == Init => TypeInv
<1> SUFFICES ASSUME Init PROVE TypeInv
  OBVIOUS
<1>1. /\ hour \in 0..Horizon /\ at \in 0..Horizon
      /\ next \in 1..Len(SymbolOrder) + 1
      /\ entries \in 0..MaxEntries /\ crashes \in 0..MaxCrashes
      /\ proposed \in [Candles -> Nat]
  BY ScannerAssumption DEF Init
<1>2. /\ scanner \in ScannerRow /\ reading \in Reading
      /\ phase \in PhaseStatus /\ pc \in WorkerPc
  BY NothingType DEF Init, ScannerRow, PhaseStatus, WorkerPc
<1>3. /\ signals \subseteq SignalRow /\ late \subseteq SignalRow /\ judged \subseteq SignalRow
      /\ slot \in Preview \cup {NoProposal}
      /\ baseline \in Baseline
      /\ positions \in [Symbols -> PositionRow \cup {NoPosition}]
      /\ wallet \in Int /\ excess \in Nat
  BY ScannerAssumption DEF Init, Baseline
<1>4. fills \in Seq(ExecutionRow)
  BY DEF Init
<1>5. killSwitch \in BOOLEAN /\ (slot = NoProposal) = (phase = "AUTO_RUNNING")
  BY Zenon DEF Init
<1>6. SlotInHand
  BY DEF Init, SlotInHand
<1> QED BY <1>1, <1>2, <1>3, <1>4, <1>5, <1>6 DEF TypeInv, TypeOK

\* Steps of the worker that leave phase record and exchange alone.
LEMMA WorkerStepType ==
  ASSUME TypeInv, UNCHANGED <<hour, phaseVars, exchangeVars, bounds>>,
         signals' \subseteq SignalRow, scanner' \in ScannerRow, baseline' \in Baseline,
         late' \subseteq SignalRow, UNCHANGED <<judged, proposed>>,
         reading' \in Reading, pc' \in WorkerPc, at' \in 0..Horizon,
         next' \in 1..Len(SymbolOrder) + 1, SlotInHand'
  PROVE  TypeInv'
BY DEF TypeInv, TypeOK, phaseVars, exchangeVars, bounds

\* Steps that only move the worker or change its reading.
LEMMA MoveType ==
  ASSUME TypeInv, UNCHANGED <<hour, rowVars, phaseVars, exchangeVars, historyVars, bounds>>,
         reading' \in Reading, pc' \in WorkerPc, at' \in 0..Horizon,
         next' \in 1..Len(SymbolOrder) + 1, SlotInHand'
  PROVE  TypeInv'
<1>1. /\ signals' \subseteq SignalRow /\ scanner' \in ScannerRow /\ baseline' \in Baseline
      /\ late' \subseteq SignalRow
  BY DEF TypeInv, TypeOK, rowVars, historyVars
<1> QED BY <1>1, WorkerStepType DEF historyVars

LEMMA GotoType ==
  ASSUME TypeInv, NEW label \in WorkerPc, Goto(label)
  PROVE  pc' \in WorkerPc /\ at' \in 0..Horizon /\ next' \in 1..Len(SymbolOrder) + 1
BY DEF Goto, TypeInv, TypeOK

LEMMA EngineType ==
  ASSUME TypeInv, BeginCycle \/ Analyse \/ EngineDone
  PROVE  TypeInv'
<1>1. Len(SymbolOrder) \in Nat
  BY ScannerAssumption
<1>2. 0 \in 0..Horizon /\ 1 \in 1..Len(SymbolOrder) + 1
  BY <1>1, ScannerAssumption
<1>3. CASE BeginCycle
  BY <1>2, <1>3, MoveType DEF BeginCycle, TypeInv, TypeOK, WorkerPc, SlotInHand
<1>4. CASE EngineDone
  BY <1>2, <1>4, MoveType DEF EngineDone, TypeInv, TypeOK, WorkerPc, SlotInHand
<1>5. CASE Analyse
  <2>1. next' \in 1..Len(SymbolOrder) + 1
    BY <1>1, <1>5 DEF Analyse, TypeInv, TypeOK
  <2>2. signals' \subseteq SignalRow /\ late' \subseteq SignalRow
    <3>1. SymbolOrder[next] \in Symbols
      BY <1>1, <1>5, ScannerAssumption DEF Analyse, TypeInv, TypeOK
    <3>2. Strategy[SymbolOrder[next]] \subseteq Decision
      BY <3>1, ScannerAssumption
    <3>3. ASSUME at - 1 \in Candles, NEW d \in Decision
          PROVE  [symbol |-> SymbolOrder[next], candle |-> at - 1, decision |-> d.decision,
                  score |-> d.score, stop |-> d.stop, target |-> d.target] \in SignalRow
      BY <3>1, <3>3 DEF Decision, SignalRow
    <3> QED BY <1>5, <3>2, <3>3 DEF Analyse, TypeInv, TypeOK
  <2> QED BY <1>5, <2>1, <2>2, WorkerStepType DEF Analyse, TypeInv, TypeOK, SlotInHand
<1> QED BY <1>3, <1>4, <1>5

LEMMA ReaderType ==
  ASSUME TypeInv,
         BeginRead \/ ScanSkipped \/ ReadPart \/ ReadFails \/ CapacityFull \/ NoCandidate
  PROVE  TypeInv'
<1>1. CASE BeginRead
  <2>1. SlotInHand' BY <1>1 DEF BeginRead, Goto, SlotInHand
  <2>2. "READ" \in WorkerPc BY DEF WorkerPc
  <2> QED BY <1>1, <2>1, <2>2, GotoType, MoveType, NothingType DEF BeginRead
<1>2. CASE ScanSkipped
  <2>1. SlotInHand' BY <1>2 DEF ScanSkipped, Goto, SlotInHand
  <2>2. "EXECUTE" \in WorkerPc BY DEF WorkerPc
  <2> QED BY <1>2, <2>1, <2>2, GotoType, MoveType DEF ScanSkipped, TypeInv, TypeOK
<1>3. CASE ReadPart
  <2>1. SlotInHand' BY <1>3 DEF ReadPart, SlotInHand
  <2>2. reading' \in Reading
    BY <1>3, AnswersType DEF ReadPart, TypeInv
  <2> QED BY <1>3, <2>1, <2>2, MoveType DEF ReadPart, TypeInv, TypeOK
<1>4. CASE ReadFails
  <2>1. SlotInHand' BY <1>4 DEF ReadFails, Goto, SlotInHand
  <2>2. "EXECUTE" \in WorkerPc BY DEF WorkerPc
  <2>3. scanner' \in ScannerRow
    BY <1>4 DEF ReadFails, TypeInv, TypeOK, ScannerRow
  <2> QED BY <1>4, <2>1, <2>2, <2>3, GotoType, WorkerStepType, NothingType
          DEF ReadFails, TypeInv, TypeOK, historyVars
<1>5. CASE CapacityFull
  <2>1. SlotInHand' BY <1>5 DEF CapacityFull, Goto, SlotInHand
  <2>2. "EXECUTE" \in WorkerPc BY DEF WorkerPc
  <2> QED BY <1>5, <2>1, <2>2, GotoType, MoveType, NothingType DEF CapacityFull
<1>6. CASE NoCandidate
  <2>1. SlotInHand' BY <1>6 DEF NoCandidate, Goto, SlotInHand
  <2>2. "EXECUTE" \in WorkerPc BY DEF WorkerPc
  <2> QED BY <1>6, <2>1, <2>2, GotoType, MoveType, NothingType DEF NoCandidate
<1> QED BY <1>1, <1>2, <1>3, <1>4, <1>5, <1>6

\* The candidates of a batch share one candle past the cursor, the oldest one.
LEMMA BatchIsOneCandle ==
  ASSUME TypeInv, CandidateBatch # {}
  PROVE  /\ BatchCandle \in Candles /\ BatchCandle > scanner.cursor
         /\ \A r \in CandidateBatch : r.candle = BatchCandle
         /\ \A r \in signals :
                Admissible(r) /\ r.candle <= BatchCandle
                    => r.candle <= scanner.cursor \/ r \in CandidateBatch
<1>1. \A r \in signals : r.candle \in Candles
  BY DEF TypeInv, TypeOK, SignalRow
<1>2. Candles \subseteq Int /\ scanner.cursor \in Int
  BY ScannerAssumption DEF TypeInv, TypeOK, ScannerRow, Candles
<1>3. CandidateBatch \subseteq Pending /\ Pending \subseteq signals
  BY DEF CandidateBatch, Pending
<1>4. \E c \in Candles : \E r \in CandidateBatch : r.candle = c
  BY <1>1, <1>3
<1>5. BatchCandle \in Candles /\ \E r \in CandidateBatch : r.candle = BatchCandle
  BY <1>4 DEF BatchCandle
<1> DEFINE cursor == scanner.cursor
<1>6. \A q, r \in CandidateBatch : q.candle = r.candle
  <2>1. \A q, r \in CandidateBatch : q.candle <= r.candle /\ r.candle <= q.candle
    BY <1>3 DEF CandidateBatch
  <2>2. \A q \in CandidateBatch : q.candle \in Int
    BY <1>1, <1>2, <1>3
  <2> QED BY <2>1, <2>2
<1>7. \A r \in CandidateBatch : r.candle = BatchCandle
  BY <1>5, <1>6
<1>8. BatchCandle > scanner.cursor
  BY <1>3, <1>5 DEF Pending
<1>9. ASSUME NEW r \in signals, Admissible(r), r.candle <= BatchCandle, ~(r.candle <= cursor)
      PROVE  r \in CandidateBatch
  <2>1. r.candle \in Int /\ cursor \in Int /\ BatchCandle \in Int
    BY <1>1, <1>2, <1>5
  <2>2. r.candle > cursor
    <3> HIDE DEF cursor
    <3> QED BY <1>9, <2>1
  <2>3. r \in Pending
    BY <1>9, <2>2 DEF Pending, Admissible
  <2>4. PICK q \in CandidateBatch : q.candle = BatchCandle
    BY <1>5
  <2>5. \A p \in Pending : BatchCandle <= p.candle
    BY <2>4 DEF CandidateBatch
  <2>6. \A p \in Pending : p.candle \in Int
    BY <1>1, <1>2, <1>3
  <2>7. \A p \in Pending : r.candle <= p.candle
    BY <1>9, <2>1, <2>5, <2>6
  <2> QED BY <2>3, <2>7 DEF CandidateBatch
<1> QED BY <1>5, <1>7, <1>8, <1>9

\* What _build makes of a candidate that it does not reject.
LEMMA BuiltPreviewType ==
  ASSUME TypeInv, NEW r \in Ranked
  PROVE  BuiltPreview(r) \in Preview /\ BuiltPreview(r).candle = r.candle
<1> DEFINE i == reading.quotes[r.symbol]
           side == SideOf(r)
           entry == EntryPrice(r, i)
           l == NativeLevels(side, r.stop, r.target)
           quantity == PreviewQuantity(side, entry, l.stop, i, Risk)
<1>1. r \in SignalRow
  BY DEF Ranked, CandidateBatch, Pending, TypeInv, TypeOK
<1>2. r.symbol \in Symbols /\ r.candle \in Candles /\ r.stop \in Nat /\ r.target \in Nat
  BY <1>1 DEF SignalRow
<1>3. i \in Instrument
  BY <1>2 DEF TypeInv, TypeOK, Reading
<1>4. i.bid \in Nat \ {0} /\ i.ask \in Nat \ {0} /\ i.step > 0
  <2>1. Eligible(i)
    BY DEF Ranked, Buildable
  <2> HIDE DEF i
  <2> QED BY <1>3, <2>1 DEF Eligible, Instrument
<1>5. side \in Side /\ entry \in Nat \ {0}
  BY <1>4 DEF SideOf, Side, EntryPrice
<1>6. l.stop \in Nat /\ l.target \in Nat
  BY <1>2, NativeLevelsType
<1>7. UnitLoss(side, entry, l.stop) \in Nat \ {0}
  <2>1. LevelsValid(side, entry, l)
    BY DEF Ranked, Buildable
  <2> HIDE DEF l, entry, side
  <2> QED BY <1>5, <1>6, <2>1, UnitLossPositive
<1>8. Risk.equity \in Nat /\ Risk.pnl \in Int /\ Risk.planned \in Int
  <2>1. RiskAllows(Risk)
    BY DEF Ranked, Buildable
  <2> QED BY <2>1 DEF RiskAllows, Risk, TypeInv, TypeOK, Reading
<1>9. quantity \in Nat
  <2> HIDE DEF l, entry, side, i
  <2> QED BY <1>3, <1>4, <1>5, <1>7, <1>8, QuantityType
<1>10. quantity * UnitLoss(side, entry, l.stop) \in Nat
  <2> HIDE DEF l, entry, side, quantity
  <2> QED BY <1>7, <1>9, TimesType
<1>11. BuiltPreview(r) =
         [symbol |-> r.symbol, side |-> side, candle |-> r.candle, quantity |-> quantity,
          stop |-> l.stop, target |-> l.target,
          loss |-> quantity * UnitLoss(side, entry, l.stop), claimed |-> FALSE]
  BY DEF BuiltPreview
<1> HIDE DEF l, entry, side, quantity
<1>12. BuiltPreview(r).candle = r.candle
  BY <1>11
<1> QED BY <1>2, <1>5, <1>6, <1>9, <1>10, <1>11, <1>12 DEF Preview

LEMMA SnapshotType ==
  ASSUME TypeInv, SaveSnapshot
  PROVE  TypeInv'
<1>1. SlotInHand' BY DEF SaveSnapshot, Goto, SlotInHand
<1>2. "BATCH" \in WorkerPc BY DEF WorkerPc
<1>3. scanner' \in ScannerRow
  BY DEF SaveSnapshot, TypeInv, TypeOK, ScannerRow
<1>4. baseline' \in Baseline
  BY DEF SaveSnapshot, RefreshedBaseline, TypeInv, TypeOK, Reading, Baseline
<1>5. reading' \in Reading
  <2>1. PICK q \in [{r.symbol : r \in CandidateBatch} -> Quotes] :
            reading' = [reading EXCEPT
               !.quotes = [s \in Symbols |-> IF s \in DOMAIN q THEN q[s] ELSE @[s]]]
    BY DEF SaveSnapshot
  <2>2. [s \in Symbols |-> IF s \in DOMAIN q THEN q[s] ELSE reading.quotes[s]]
            \in [Symbols -> Instrument]
    BY ScannerAssumption DEF TypeInv, TypeOK, Reading
  <2> QED BY <2>1, <2>2 DEF TypeInv, TypeOK, Reading
<1> QED BY <1>1, <1>2, <1>3, <1>4, <1>5, GotoType, WorkerStepType
        DEF SaveSnapshot, TypeInv, TypeOK, historyVars

LEMMA BatchType ==
  ASSUME TypeInv, BatchRejected \/ SaveReady \/ MarkReady \/ ReleaseSlot
  PROVE  TypeInv'
<1>1. CandidateBatch \subseteq SignalRow
  BY DEF CandidateBatch, Pending, TypeInv, TypeOK
<1>2. CASE BatchRejected
  <2>1. "EXECUTE" \in WorkerPc /\ SlotInHand'
    BY <1>2 DEF WorkerPc, BatchRejected, Goto, SlotInHand
  <2>2. scanner' \in ScannerRow
    BY <1>2, BatchIsOneCandle DEF BatchRejected, TypeInv, TypeOK, ScannerRow
  <2> QED BY <1>1, <1>2, <2>1, <2>2, GotoType, NothingType
          DEF BatchRejected, TypeInv, TypeOK, phaseVars, exchangeVars, bounds
<1>3. CASE SaveReady
  <2>1. "MARK" \in WorkerPc /\ "APPROVED_FOR_EXECUTION" \in PhaseStatus
    BY DEF WorkerPc, PhaseStatus
  <2>2. PICK r \in Ranked : slot' = BuiltPreview(r)
    BY <1>3 DEF SaveReady
  <2>3. slot' \in Preview
    BY <2>2, BuiltPreviewType
  <2>4. slot' # NoProposal
    BY <2>3, NoProposalAssumption
  <2>5. BatchCandle \in Candles
    BY <2>2, BatchIsOneCandle DEF Ranked
  <2>6. proposed' \in [Candles -> Nat]
    BY <1>3, <2>5 DEF SaveReady, TypeInv, TypeOK
  <2>7. (slot' = NoProposal) = (phase' = "AUTO_RUNNING")
    BY <1>3, <2>4 DEF SaveReady
  <2>8. SlotInHand'
    BY <1>3 DEF SaveReady, SlotInHand
  <2> QED BY <1>1, <1>3, <2>1, <2>3, <2>6, <2>7, <2>8, GotoType, NothingType
          DEF SaveReady, TypeInv, TypeOK, rowVars, exchangeVars, bounds
<1>4. CASE MarkReady
  <2>1. "EXECUTE" \in WorkerPc /\ SlotInHand'
    BY <1>4 DEF WorkerPc, MarkReady, Goto, SlotInHand
  <2>2. slot \in Preview
    BY <1>4 DEF MarkReady, TypeInv, TypeOK, SlotInHand
  <2>3. scanner' \in ScannerRow
    BY <1>4, <2>2 DEF MarkReady, ScannerRow, Preview
  <2> QED BY <1>4, <2>1, <2>3, GotoType, WorkerStepType DEF MarkReady, TypeInv, TypeOK, historyVars
<1>5. CASE ReleaseSlot
  <2>1. "AUTO_RUNNING" \in PhaseStatus
    BY DEF PhaseStatus
  <2>2. (slot' = NoProposal) = (phase' = "AUTO_RUNNING")
    BY <1>5 DEF ReleaseSlot
  <2>3. SlotInHand'
    BY <1>5 DEF ReleaseSlot, ReadingComplete, SlotInHand, workerVars
  <2> QED BY <1>5, <2>1, <2>2, <2>3
          DEF ReleaseSlot, TypeInv, TypeOK, workerVars, rowVars, exchangeVars, historyVars, bounds
<1> QED BY <1>2, <1>3, <1>4, <1>5

\* The claimed proposal and the fresh quotes.
LEMMA ClaimType ==
  ASSUME TypeInv, Claim \/ NothingToExecute \/ GuardReads
  PROVE  TypeInv'
<1>1. CASE Claim
  <2>1. slot \in Preview
    BY <1>1 DEF Claim, TypeInv, TypeOK
  <2>2. slot' \in Preview
    BY <1>1, <2>1 DEF Claim, Preview
  <2>3. slot' # NoProposal
    BY <2>2, NoProposalAssumption
  <2>4. (slot' = NoProposal) = (phase' = "AUTO_RUNNING")
    BY <1>1, <2>3 DEF Claim
  <2>5. slot.symbol \in Symbols
    BY <2>1 DEF Preview
  <2>6. reading' \in Reading
    BY <1>1, <2>5, NothingType DEF Claim
  <2>7. "GUARD" \in WorkerPc /\ SlotInHand'
    BY <1>1 DEF Claim, WorkerPc, SlotInHand
  <2> QED BY <1>1, <2>2, <2>4, <2>6, <2>7, GotoType
          DEF Claim, TypeInv, TypeOK, rowVars, exchangeVars, historyVars, bounds
<1>2. CASE NothingToExecute
  <2>1. SlotInHand' /\ "IDLE" \in WorkerPc
    BY <1>2 DEF NothingToExecute, Goto, SlotInHand, WorkerPc
  <2> QED BY <1>2, <2>1, GotoType, MoveType DEF NothingToExecute, TypeInv, TypeOK
<1>3. CASE GuardReads
  <2>1. SlotInHand'
    BY <1>3 DEF GuardReads, TypeInv, SlotInHand, phaseVars
  <2>2. reading' \in Reading
    BY <1>3, AnswersType DEF GuardReads, TypeInv
  <2> QED BY <1>3, <2>1, <2>2, MoveType DEF GuardReads, TypeInv, TypeOK
<1> QED BY <1>1, <1>2, <1>3

\* A halt, wherever it comes from.
LEMMA HaltType ==
  ASSUME TypeInv, Halt, phase # "AUTO_RUNNING",
         UNCHANGED <<hour, signals, scanner, exchangeVars, historyVars, bounds>>,
         baseline' \in Baseline
  PROVE  TypeInv'
<1>1. "IDLE" \in WorkerPc /\ "HALTED_EXECUTION_FAILURE" \in PhaseStatus /\ SlotInHand'
  BY DEF WorkerPc, PhaseStatus, Halt, Goto, SlotInHand
<1>2. (slot' = NoProposal) = (phase' = "AUTO_RUNNING")
  BY DEF TypeInv, TypeOK, Halt
<1>3. killSwitch' \in BOOLEAN
  BY Zenon DEF Halt
<1>4. pc' \in WorkerPc /\ at' \in 0..Horizon /\ next' \in 1..Len(SymbolOrder) + 1
      /\ reading' \in Reading
  BY <1>1, GotoType, NothingType DEF Halt
<1> QED BY <1>1, <1>2, <1>3, <1>4
        DEF Halt, TypeInv, TypeOK, exchangeVars, historyVars, bounds

LEMMA GuardType ==
  ASSUME TypeInv, ClaimRefused \/ GuardPasses \/ GuardRefuses \/ EntryFails
  PROVE  TypeInv'
<1>1. RefreshedBaseline(reading.equity) \in Baseline /\ baseline \in Baseline
  BY DEF RefreshedBaseline, TypeInv, TypeOK, Reading, Baseline
<1>2. CASE ClaimRefused
  BY <1>1, <1>2, HaltType DEF ClaimRefused, rowVars
<1>3. CASE GuardRefuses
  BY <1>1, <1>3, HaltType DEF GuardRefuses, TypeInv, SlotInHand
<1>4. CASE EntryFails
  BY <1>1, <1>4, HaltType DEF EntryFails, rowVars, TypeInv, SlotInHand
<1>5. CASE GuardPasses
  <2>1. SlotInHand' /\ "POST" \in WorkerPc
    BY <1>5 DEF GuardPasses, Goto, TypeInv, SlotInHand, phaseVars, WorkerPc
  <2>2. reading' \in Reading
    BY <1>5, NothingType DEF GuardPasses, TypeInv, TypeOK, Reading
  <2> QED BY <1>1, <1>5, <2>1, <2>2, GotoType, WorkerStepType
          DEF GuardPasses, TypeInv, TypeOK, historyVars
<1> QED BY <1>2, <1>3, <1>4, <1>5

\* A slipped price is a price.
LEMMA SlippedType ==
  ASSUME NEW price \in Nat, NEW up
  PROVE  Slipped(price, up) \in Nat
<1> DEFINE slip == (price * SlipRate) \div Hundred
<1>1. price * SlipRate \in Nat
  BY RatesType, TimesType
<1>2. slip \in Nat
  BY <1>1, DivType DEF Hundred
<1>3. price * SlipRate <= price * 100
  <2>1. SlipRate <= 100
    BY RatesType
  <2>2. price * (100 - SlipRate) \in Nat
    BY <2>1, RatesType, TimesType
  <2>3. price * (100 - SlipRate) = price * 100 - price * SlipRate
    BY RatesType
  <2> QED BY <1>1, <2>2, <2>3
<1>4. slip <= price
  <2>1. \A n, m \in Nat : n <= m * 100 => n \div 100 <= m
    OBVIOUS
  <2> QED BY <1>1, <1>3, <2>1 DEF Hundred
<1> HIDE DEF slip
<1> QED BY <1>2, <1>4 DEF Slipped, slip

\* A booked execution.
LEMMA BookedType ==
  ASSUME TypeInv, NEW x \in ExecutionRow, Booked(<<x>>)
  PROVE  fills' \in Seq(ExecutionRow) /\ wallet' \in Int
<1>1. <<x>> \in Seq(ExecutionRow)
  OBVIOUS
<1>2. DayPnl(<<x>>) \in Int
  BY <1>1, DayPnlType
<1> QED BY <1>1, <1>2 DEF Booked, TypeInv, TypeOK

\* The price an order is posted at.
LEMMA QuotedEntryType ==
  ASSUME TypeInv, slot \in Preview
  PROVE  QuotedEntry \in Nat
<1>1. reading.quotes[slot.symbol] \in Instrument
  BY DEF TypeInv, TypeOK, Reading, Preview
<1> QED BY <1>1 DEF QuotedEntry, Instrument

LEMMA EntryType ==
  ASSUME TypeInv, EntryFills
  PROVE  TypeInv'
<1>1. slot \in Preview
  BY DEF EntryFills, TypeInv, TypeOK, SlotInHand
<1>2. PICK price \in {QuotedEntry, Slipped(QuotedEntry, slot.side = "BUY")} :
          LET p == [side |-> slot.side, size |-> slot.quantity, entry |-> price,
                    stop |-> slot.stop, target |-> slot.target]
              fee == slot.quantity * price * FeeRate
          IN /\ Ordered(p.side, p.stop, p.entry, p.target)
             /\ positions' = [positions EXCEPT ![slot.symbol] = p]
             /\ Booked(<<[pnl |-> 0, fee |-> fee]>>)
             /\ excess' = excess + Positive(fee + StopRisk(p) - slot.loss)
  BY DEF EntryFills
<1> DEFINE p == [side |-> slot.side, size |-> slot.quantity, entry |-> price,
                 stop |-> slot.stop, target |-> slot.target]
           fee == slot.quantity * price * FeeRate
<1>3. price \in Nat
  BY <1>1, <1>2, QuotedEntryType, SlippedType
<1>4. p \in PositionRow
  BY <1>1, <1>3 DEF Preview, PositionRow
<1>5. fee \in Nat
  <2>1. slot.quantity \in Nat
    BY <1>1 DEF Preview
  <2> QED BY <1>3, <2>1, RatesType, TimesType
<1>6. positions' \in [Symbols -> PositionRow \cup {NoPosition}]
  <2>1. positions' = [positions EXCEPT ![slot.symbol] = p]
    BY <1>2
  <2> HIDE DEF p
  <2> QED BY <1>4, <2>1 DEF TypeInv, TypeOK
<1>7. fills' \in Seq(ExecutionRow) /\ wallet' \in Int
  <2>1. [pnl |-> 0, fee |-> fee] \in ExecutionRow
    BY <1>5 DEF ExecutionRow
  <2>2. Booked(<<[pnl |-> 0, fee |-> fee]>>)
    BY <1>2
  <2> QED BY <2>1, <2>2, BookedType
<1>8. excess' \in Nat
  <2>1. fee + StopRisk(p) - slot.loss \in Int
    <3> HIDE DEF p, fee
    <3> QED BY <1>1, <1>4, <1>5, StopRiskType DEF Preview
  <2>2. excess' = excess + Positive(fee + StopRisk(p) - slot.loss)
    BY <1>2
  <2> DEFINE n == fee + StopRisk(p) - slot.loss
  <2>3. n \in Int /\ excess' = excess + Positive(n)
    BY <2>1, <2>2
  <2>4. excess \in Nat
    BY DEF TypeInv, TypeOK
  <2> HIDE DEF n
  <2> QED BY <2>3, <2>4, PositiveType
<1>9. entries' \in 0..MaxEntries
  BY ScannerAssumption DEF EntryFills, TypeInv, TypeOK
<1>10. (slot' = NoProposal) = (phase' = "AUTO_RUNNING")
  BY <1>1, NoProposalAssumption DEF EntryFills
<1>11. "IDLE" \in WorkerPc /\ "AUTO_POSITION_OPEN" \in PhaseStatus /\ SlotInHand'
  BY DEF EntryFills, Goto, WorkerPc, PhaseStatus, SlotInHand
<1> QED BY <1>6, <1>7, <1>8, <1>9, <1>10, <1>11, GotoType, NothingType
        DEF EntryFills, TypeInv, TypeOK, rowVars, historyVars

LEMMA ExitType ==
  ASSUME TypeInv, NEW s \in Symbols, positions[s] # NoPosition,
         NEW price \in Nat, Exit(s, price)
  PROVE  TypeInv'
<1> DEFINE p == positions[s]
           x == [pnl |-> -(p.size * Adverse(p.side, p.entry, price) * Hundred),
                 fee |-> p.size * price * FeeRate]
<1>1. p \in PositionRow
  BY DEF TypeInv, TypeOK
<1>2. p.size \in Nat /\ p.entry \in Nat
  BY <1>1 DEF PositionRow
<1>3. x \in ExecutionRow
  <2> HIDE DEF p
  <2>1. Adverse(p.side, p.entry, price) \in Int
    BY <1>2, AdverseType
  <2>2. p.size * Adverse(p.side, p.entry, price) * Hundred \in Int
    BY <1>2, <2>1 DEF Hundred
  <2>3. p.size * price * FeeRate \in Nat
    BY <1>2, RatesType, TimesType
  <2> QED BY <2>2, <2>3 DEF ExecutionRow
<1>4. fills' \in Seq(ExecutionRow) /\ wallet' \in Int
  <2>1. Booked(<<x>>)
    BY DEF Exit
  <2> HIDE DEF x
  <2> QED BY <1>3, <2>1, BookedType
<1>5. positions' \in [Symbols -> PositionRow \cup {NoPosition}]
  BY DEF Exit, TypeInv, TypeOK
<1>6. excess' \in Nat
  <2> DEFINE n == -OrderResult(x) - StopRisk(p)
  <2>1. n \in Int
    <3> HIDE DEF x, p
    <3> QED BY <1>1, <1>3, StopRiskType DEF OrderResult, ExecutionRow
  <2>2. excess' = excess + Positive(n) /\ excess \in Nat
    BY DEF Exit, TypeInv, TypeOK
  <2> HIDE DEF n
  <2> QED BY <2>1, <2>2, PositiveType
<1>7. SlotInHand'
  BY DEF Exit, TypeInv, SlotInHand, workerVars, phaseVars
<1> QED BY <1>4, <1>5, <1>6, <1>7
        DEF Exit, TypeInv, TypeOK, workerVars, rowVars, phaseVars, historyVars, bounds

\* The prices at which a position is left.
LEMMA ExitPrices ==
  ASSUME TypeInv, NEW s \in Symbols, positions[s] # NoPosition
  PROVE  /\ Slipped(positions[s].stop, positions[s].side = "SELL") \in Nat
         /\ positions[s].target \in Nat
<1>1. positions[s] \in PositionRow
  BY DEF TypeInv, TypeOK
<1>2. positions[s].stop \in Nat /\ positions[s].target \in Nat
  BY <1>1 DEF PositionRow
<1> QED BY <1>2, SlippedType

LEMMA ExchangeType ==
  ASSUME TypeInv,
         \/ \E s \in Symbols : StopFills(s) \/ TargetFills(s) \/ BreakEven(s)
         \/ HourPasses \/ Crash
  PROVE  TypeInv'
<1>1. ASSUME NEW s \in Symbols, StopFills(s) \/ TargetFills(s) PROVE TypeInv'
  BY <1>1, ExitPrices, ExitType DEF StopFills, TargetFills
<1>2. ASSUME NEW s \in Symbols, BreakEven(s) PROVE TypeInv'
  <2>1. positions[s] \in PositionRow
    BY <1>2 DEF BreakEven, TypeInv, TypeOK
  <2>2. [positions[s] EXCEPT !.stop = positions[s].entry] \in PositionRow
    BY <2>1 DEF PositionRow
  <2>3. positions' = [positions EXCEPT ![s] = [positions[s] EXCEPT !.stop = positions[s].entry]]
    BY <1>2 DEF BreakEven
  <2>4. positions' \in [Symbols -> PositionRow \cup {NoPosition}]
    BY <2>2, <2>3 DEF TypeInv, TypeOK
  <2>5. SlotInHand'
    BY <1>2 DEF BreakEven, TypeInv, SlotInHand, workerVars, phaseVars
  <2> QED BY <1>2, <2>4, <2>5
          DEF BreakEven, TypeInv, TypeOK, workerVars, rowVars, phaseVars, historyVars, bounds
<1>3. CASE HourPasses
  <2>1. hour' \in 0..Horizon
    BY <1>3, ScannerAssumption DEF HourPasses, TypeInv, TypeOK
  <2>2. fills' \in Seq(ExecutionRow)
    BY <1>3 DEF HourPasses, TypeInv, TypeOK
  <2>3. SlotInHand'
    BY <1>3 DEF HourPasses, TypeInv, SlotInHand, workerVars, phaseVars
  <2> QED BY <1>3, <2>1, <2>2, <2>3
          DEF HourPasses, TypeInv, TypeOK, workerVars, rowVars, phaseVars, historyVars, bounds
<1>4. CASE Crash
  <2>1. 0 \in 0..Horizon /\ 1 \in 1..Len(SymbolOrder) + 1 /\ crashes' \in 0..MaxCrashes
    BY <1>4, ScannerAssumption DEF Crash, TypeInv, TypeOK
  <2>2. "IDLE" \in WorkerPc /\ SlotInHand'
    BY <1>4 DEF Crash, WorkerPc, SlotInHand
  <2> QED BY <1>4, <2>1, <2>2, NothingType
          DEF Crash, TypeInv, TypeOK, rowVars, phaseVars, exchangeVars, historyVars
<1> QED BY <1>1, <1>2, <1>3, <1>4

\* Every step of the specification keeps the types.
LEMMA NextTypeInv == TypeInv /\ [Next]_vars => TypeInv'
<1> SUFFICES ASSUME TypeInv, [Next]_vars PROVE TypeInv'
  OBVIOUS
<1>1. CASE UNCHANGED vars
  BY <1>1 DEF vars, workerVars, rowVars, phaseVars, exchangeVars, historyVars, bounds,
              TypeInv, TypeOK, SlotInHand
<1>2. CASE Next
  BY <1>2, EngineType, ReaderType, SnapshotType, BatchType, ClaimType, GuardType, EntryType,
     ExchangeType DEF Next
<1> QED BY <1>1, <1>2

LEMMA TypeInvariant == Spec => []TypeInv
BY InitTypeInv, NextTypeInv, PTL DEF Spec

\* The scanner, the phase record, the reading and the exchange hold values of their types.
THEOREM TypeCorrect == Spec => []TypeOK
<1>1. TypeInv => TypeOK
  BY DEF TypeInv
<1> QED BY <1>1, TypeInvariant, PTL

(***************************************************************************)
(* The day's loss budget                                                   *)
(***************************************************************************)

\* One more execution adds its result to the day; an empty day has none.
LEMMA DayPnlGrows ==
  ASSUME NEW xs \in Seq(ExecutionRow), NEW x \in ExecutionRow
  PROVE  DayPnl(xs \o <<x>>) = DayPnl(xs) + OrderResult(x)
<1> DEFINE ys == xs \o <<x>>
           n == Len(xs)
           before == [i \in DOMAIN xs |-> OrderResult(xs[i])]
           after == [i \in DOMAIN ys |-> OrderResult(ys[i])]
<1>1. /\ n \in Nat /\ DOMAIN xs = 1..n /\ DOMAIN ys = 1..n + 1
      /\ ys[n + 1] = x /\ \A i \in 1..n : ys[i] = xs[i] /\ xs[i] \in ExecutionRow
  OBVIOUS
<1>2. \A y \in ExecutionRow : OrderResult(y) \in Int
  BY DEF ExecutionRow, OrderResult
<1> HIDE DEF n, ys
<1>3. (1..n + 1) \ {n + 1} = 1..n /\ n + 1 \in 1..n + 1
  BY <1>1
<1>4. before \in [1..n -> Int] /\ after \in [1..n + 1 -> Int]
  <2>1. \A i \in 1..n + 1 : ys[i] \in ExecutionRow
    BY <1>1
  <2> QED BY <1>1, <1>2, <2>1
<1>5. after[n + 1] = OrderResult(x) /\ \A i \in 1..n : after[i] = before[i]
  BY <1>1, <1>3
<1>6. IsFiniteSet(1..n + 1)
  BY <1>1, FS_Interval
<1>7. DayPnl(ys) = SumFunction(after) /\ DayPnl(xs) = SumFunction(before)
  BY DEF DayPnl
<1> HIDE DEF after, before
<1>8. SumFunction(after) = SumFunction(before) + after[n + 1]
  <2> DEFINE I == 1..n + 1
             last == n + 1
  <2>1. IsFiniteSet(I) /\ last \in I /\ after \in [I -> Int]
    BY <1>3, <1>4, <1>6
  <2>2. before \in [I \ {last} -> Int] /\ \A i \in I \ {last} : after[i] = before[i]
    BY <1>3, <1>4, <1>5
  <2> HIDE DEF I, last
  <2>3. OneMore(after, before, last)
    BY <2>1, <2>2 DEF OneMore
  <2>4. SumFunction(after) = SumFunction(before) + after[last]
    BY Zenon, <2>3, SumOfOneMore
  <2> QED BY <2>4 DEF last
<1> QED BY <1>5, <1>7, <1>8 DEF ys

LEMMA DayPnlStarts == DayPnl(<<>>) = 0
<1> DEFINE f == [i \in DOMAIN <<>> |-> OrderResult(<<>>[i])]
<1>1. DOMAIN f = {}
  OBVIOUS
<1> HIDE DEF f
<1>2. SumFunction(f) = 0
  BY <1>1, SumOfNothing
<1> QED BY <1>2 DEF DayPnl, f

\* What a position, or none, adds to the planned risk.
Exposure(p) == IF p = NoPosition THEN 0 ELSE StopRisk(p)

LEMMA ExposureType ==
  ASSUME NEW p \in PositionRow \cup {NoPosition}
  PROVE  Exposure(p) \in Int
BY StopRiskType DEF Exposure

\* The planned risk without the position of s.
LEMMA PlannedRiskWithout ==
  ASSUME NEW ps \in [Symbols -> PositionRow \cup {NoPosition}], NEW s \in Symbols
  PROVE  OpenPlannedRisk(ps) = OpenPlannedRisk([ps EXCEPT ![s] = NoPosition]) + Exposure(ps[s])
<1> DEFINE qs == [ps EXCEPT ![s] = NoPosition]
           O == {o \in Symbols : ps[o] # NoPosition}
           Q == {o \in Symbols : qs[o] # NoPosition}
           risk == [o \in O |-> StopRisk(ps[o])]
           rest == [o \in Q |-> StopRisk(qs[o])]
<1>1. Q = O \ {s} /\ \A o \in Q : qs[o] = ps[o]
  OBVIOUS
<1>2. qs \in [Symbols -> PositionRow \cup {NoPosition}]
  OBVIOUS
<1>3. OpenPlannedRisk(ps) = SumFunction(risk) /\ OpenPlannedRisk(qs) = SumFunction(rest)
  BY DEF OpenPlannedRisk
<1>4. SumFunction(risk) \in Int
  BY <1>3, PlannedRiskType
<1>5. CASE ps[s] = NoPosition
  <2>1. qs = ps
    BY <1>5
  <2> QED BY <1>3, <1>4, <1>5, <2>1 DEF Exposure
<1>6. CASE ps[s] # NoPosition
  <2>1. s \in O /\ IsFiniteSet(O)
    BY <1>6, RiskAssumption, FS_Subset
  <2>2. risk \in [O -> Int]
    BY StopRiskType
  <2>3. rest \in [O \ {s} -> Int] /\ \A o \in O \ {s} : risk[o] = rest[o]
    BY <1>1, <2>2, StopRiskType
  <2>4. risk[s] = StopRisk(ps[s])
    BY <2>1
  <2> HIDE DEF risk, rest, O, Q
  <2>5. OneMore(risk, rest, s)
    BY <2>1, <2>2, <2>3 DEF OneMore
  <2>6. SumFunction(risk) = SumFunction(rest) + risk[s]
    BY Zenon, <2>5, SumOfOneMore
  <2> QED BY <1>3, <1>6, <2>4, <2>6 DEF Exposure
<1> QED BY <1>5, <1>6

\* One position changes: the planned risk changes by what it adds.
LEMMA PlannedRiskChanges ==
  ASSUME NEW ps \in [Symbols -> PositionRow \cup {NoPosition}], NEW s \in Symbols,
         NEW p \in PositionRow \cup {NoPosition}
  PROVE  OpenPlannedRisk([ps EXCEPT ![s] = p])
           = OpenPlannedRisk(ps) - Exposure(ps[s]) + Exposure(p)
<1> DEFINE qs == [ps EXCEPT ![s] = p]
           rs == [ps EXCEPT ![s] = NoPosition]
<1>1. /\ qs \in [Symbols -> PositionRow \cup {NoPosition}] /\ qs[s] = p
      /\ rs \in [Symbols -> PositionRow \cup {NoPosition}]
      /\ [qs EXCEPT ![s] = NoPosition] = rs
  OBVIOUS
<1> HIDE DEF qs, rs
<1>2. OpenPlannedRisk(qs) = OpenPlannedRisk(rs) + Exposure(p)
  BY <1>1, PlannedRiskWithout
<1>3. OpenPlannedRisk(ps) = OpenPlannedRisk(rs) + Exposure(ps[s])
  BY PlannedRiskWithout DEF rs
<1>4. OpenPlannedRisk(rs) \in Int /\ Exposure(p) \in Int /\ Exposure(ps[s]) \in Int
  BY <1>1, PlannedRiskType, ExposureType
<1>5. OpenPlannedRisk(qs) = OpenPlannedRisk(ps) - Exposure(ps[s]) + Exposure(p)
  BY <1>2, <1>3, <1>4
<1> QED BY <1>5 DEF qs

\* A position whose stop lies on the losing side adds no negative risk.
LEMMA ExposurePositive ==
  ASSUME TypeInv, StopsLimitLosses, NEW s \in Symbols
  PROVE  Exposure(positions[s]) \in Nat
<1>1. CASE positions[s] = NoPosition
  BY <1>1 DEF Exposure
<1>2. CASE positions[s] # NoPosition
  <2> DEFINE p == positions[s]
             a == Adverse(p.side, p.entry, p.stop)
             cost == p.stop * (FeeRate + SlipRate)
  <2>1. p.size \in Nat /\ p.entry \in Nat /\ p.stop \in Nat
    BY <1>2 DEF TypeInv, TypeOK, PositionRow
  <2>2. a \in Nat
    <3>1. a \in Int
      BY <2>1, AdverseType
    <3>2. a >= 0
      BY <1>2 DEF StopsLimitLosses
    <3> HIDE DEF a
    <3> QED BY <3>1, <3>2
  <2>3. cost \in Nat
    BY <2>1, RatesType, TimesType
  <2>4. Exposure(positions[s]) = p.size * (a * Hundred + cost)
    BY <1>2 DEF Exposure, StopRisk
  <2> HIDE DEF a, cost
  <2>5. a * Hundred + cost \in Nat
    BY <2>2, <2>3 DEF Hundred
  <2> QED BY <2>1, <2>4, <2>5, TimesType
<1> QED BY <1>1, <1>2

\* The amounts that the invariant compares.
LEMMA AmountsType ==
  ASSUME TypeInv
  PROVE  /\ DayPnl(fills) \in Int /\ DayLoss \in Nat /\ Planned \in Int /\ excess \in Nat
         /\ DayLoss = IF DayPnl(fills) <= 0 THEN -DayPnl(fills) ELSE 0
         /\ RealizedDailyLoss(reading.pnl) \in Nat /\ reading.planned \in Int
<1>1. fills \in Seq(ExecutionRow) /\ positions \in [Symbols -> PositionRow \cup {NoPosition}]
      /\ reading.pnl \in Int /\ reading.planned \in Int /\ excess \in Nat
  BY DEF TypeInv, TypeOK, Reading
<1> QED BY <1>1, DayPnlType, PlannedRiskType, RealizedLossType DEF DayLoss, Planned

\* Risk leaves the market, the worker stands still: what it has read still covers.
LEMMA RiskLeaves ==
  ASSUME TypeInv, TypeInv', BudgetInv, StopsLimitLosses',
         UNCHANGED <<pc, reading, slot>>,
         Planned' <= Planned, excess <= excess',
         DayLoss' + Planned' - excess' <= DayLoss + Planned - excess
  PROVE  BudgetInv'
<1>1. /\ DayLoss \in Int /\ Planned \in Int /\ excess \in Int
      /\ RealizedDailyLoss(reading.pnl) \in Int /\ reading.planned \in Int
  BY AmountsType
<1>2. DayLoss' \in Int /\ Planned' \in Int /\ excess' \in Int
  <2>1. fills' \in Seq(ExecutionRow) /\ positions' \in [Symbols -> PositionRow \cup {NoPosition}]
        /\ excess' \in Nat
    BY DEF TypeInv, TypeOK
  <2> QED BY <2>1, DayPnlType, PlannedRiskType, RealizedLossType DEF DayLoss, Planned
<1>3. DayLossIsBudgeted'
  BY <1>1, <1>2, RatesType DEF BudgetInv, DayLossIsBudgeted, DayLoss, Planned
<1>4. ReadingCovers'
  <2> SUFFICES ASSUME pc = "GUARD", reading.valid
               PROVE  /\ reading.parts = {"positions"} => Planned' <= reading.planned
                      /\ reading.parts = Part =>
                             DayLoss' + Planned' <=
                                 RealizedDailyLoss(reading.pnl) + reading.planned + excess'
    BY DEF ReadingCovers
  <2>1. /\ reading.parts = {"positions"} => Planned <= reading.planned
        /\ reading.parts = Part =>
               DayLoss + Planned <= RealizedDailyLoss(reading.pnl) + reading.planned + excess
    BY DEF BudgetInv, ReadingCovers
  <2> QED BY <1>1, <1>2, <2>1 DEF DayLoss, Planned
<1>5. RoomForOrder'
  <2> SUFFICES ASSUME pc = "POST"
               PROVE  DayLoss' + Planned' + slot.loss <= DailyMax + excess'
    BY DEF RoomForOrder
  <2>1. slot \in Preview
    BY DEF TypeInv, TypeOK, SlotInHand
  <2>2. slot.loss \in Int
    BY <2>1 DEF Preview
  <2>3. DayLoss + Planned + slot.loss <= DailyMax + excess
    BY DEF BudgetInv, RoomForOrder
  <2> QED BY <1>1, <1>2, <2>2, <2>3, RatesType DEF DayLoss, Planned
<1> QED BY <1>3, <1>4, <1>5 DEF BudgetInv

\* Steps that leave the exchange alone, away from guard and post.
LEMMA BudgetQuiet ==
  ASSUME BudgetInv, UNCHANGED exchangeVars, pc' \notin {"GUARD", "POST"}
  PROVE  BudgetInv'
BY DEF BudgetInv, StopsLimitLosses, DayLossIsBudgeted, ReadingCovers, RoomForOrder, exchangeVars

LEMMA WorkerBudget ==
  ASSUME TypeInv, BudgetInv,
         \/ BeginCycle \/ Analyse \/ EngineDone \/ BeginRead \/ ScanSkipped \/ ReadPart
         \/ ReadFails \/ CapacityFull \/ ReleaseSlot \/ SaveSnapshot \/ NoCandidate
         \/ BatchRejected \/ SaveReady \/ MarkReady \/ NothingToExecute \/ ClaimRefused
         \/ GuardRefuses \/ EntryFails \/ Crash
  PROVE  BudgetInv'
<1>1. CASE BeginCycle \/ Analyse \/ EngineDone \/ ReadPart \/ ReleaseSlot
  BY <1>1, BudgetQuiet
     DEF BeginCycle, Analyse, EngineDone, ReadPart, ReleaseSlot, ReadingComplete, workerVars
<1>2. CASE BeginRead \/ ScanSkipped \/ ReadFails \/ CapacityFull \/ SaveSnapshot \/ NoCandidate
  BY <1>2, BudgetQuiet
     DEF BeginRead, ScanSkipped, ReadFails, CapacityFull, SaveSnapshot, NoCandidate, Goto
<1>3. CASE BatchRejected \/ SaveReady \/ MarkReady \/ NothingToExecute
  BY <1>3, BudgetQuiet DEF BatchRejected, SaveReady, MarkReady, NothingToExecute, Goto
<1>4. CASE ClaimRefused \/ GuardRefuses \/ EntryFails \/ Crash
  BY <1>4, BudgetQuiet DEF ClaimRefused, GuardRefuses, EntryFails, Halt, Crash, Goto
<1> QED BY <1>1, <1>2, <1>3, <1>4

\* The amounts and the geometry of a step that leaves the exchange alone.
LEMMA ExchangeUnchanged ==
  ASSUME BudgetInv, UNCHANGED exchangeVars
  PROVE  /\ DayLoss' = DayLoss /\ Planned' = Planned /\ excess' = excess
         /\ StopsLimitLosses' /\ DayLossIsBudgeted'
BY DEF exchangeVars, DayLoss, Planned, BudgetInv, StopsLimitLosses, DayLossIsBudgeted

LEMMA GuardBudget ==
  ASSUME TypeInv, BudgetInv, Claim \/ GuardReads \/ GuardPasses
  PROVE  BudgetInv'
<1>0. {"positions"} # Part /\ {} # Part /\ {"positions"} # {}
      /\ {"positions"} \cup {"fills"} = Part /\ {} \cup {"positions"} = {"positions"}
  BY DEF Part
<1>1. CASE Claim
  <2>1. UNCHANGED exchangeVars /\ pc' = "GUARD"
    BY <1>1 DEF Claim, Goto
  <2>2. reading'.parts = {}
    BY <1>1 DEF Claim, Nothing
  <2>3. ReadingCovers'
    <3> HIDE DEF Part
    <3> QED BY <1>0, <2>2 DEF ReadingCovers
  <2>4. RoomForOrder'
    BY <2>1 DEF RoomForOrder
  <2> QED BY <2>1, <2>3, <2>4, ExchangeUnchanged DEF BudgetInv
<1>2. CASE GuardReads
  <2>1. UNCHANGED exchangeVars /\ pc' = "GUARD" /\ pc = "GUARD"
    BY <1>2 DEF GuardReads
  <2>2. RoomForOrder'
    BY <2>1 DEF RoomForOrder
  <2>3. CASE reading.parts = {} /\ reading' = PositionsRead(reading)
    <3>1. /\ reading'.parts = {"positions"}
          /\ reading'.valid => reading'.planned = Planned
      BY <1>0, <2>3 DEF PositionsRead, TypeInv, TypeOK, Reading, Planned
    <3>2. Planned \in Int
      BY AmountsType
    <3>3. reading'.valid => Planned' <= reading'.planned
      BY <2>1, <3>1, <3>2, ExchangeUnchanged
    <3>4. ReadingCovers'
      <4> HIDE DEF Part
      <4> QED BY <1>0, <3>1, <3>3 DEF ReadingCovers
    <3> QED BY <2>1, <2>2, <3>4, ExchangeUnchanged DEF BudgetInv
  <2>4. CASE reading.parts = {"positions"} /\ \E u \in UnrealisedNow : reading' = FillsRead(reading, u)
    <3>1. /\ reading'.parts = Part /\ reading'.pnl = DayPnl(fills)
          /\ reading'.valid = reading.valid /\ reading'.planned = reading.planned
      BY <1>0, <2>4 DEF FillsRead, TypeInv, TypeOK, Reading
    <3>2. ASSUME reading.valid
          PROVE  DayLoss' + Planned' <=
                     RealizedDailyLoss(reading'.pnl) + reading'.planned + excess'
      <4>1. Planned <= reading.planned
        BY <2>1, <2>4, <3>2 DEF BudgetInv, ReadingCovers
      <4>2. RealizedDailyLoss(reading'.pnl) = DayLoss
        BY <3>1 DEF DayLoss
      <4>3. DayLoss + Planned <= DayLoss + reading.planned + excess
        BY <4>1, AmountsType
      <4> QED BY <2>1, <3>1, <4>2, <4>3, ExchangeUnchanged
    <3>3. ReadingCovers'
      <4> HIDE DEF Part
      <4> QED BY <1>0, <3>1, <3>2 DEF ReadingCovers
    <3> QED BY <2>1, <2>2, <3>3, ExchangeUnchanged DEF BudgetInv
  <2> QED BY <1>2, <2>3, <2>4 DEF GuardReads
<1>3. CASE GuardPasses
  <2>1. UNCHANGED exchangeVars /\ pc' = "POST" /\ pc = "GUARD" /\ slot' = slot
        /\ reading.parts = Part
    BY <1>3 DEF GuardPasses, Goto, phaseVars
  <2>2. ReadingCovers'
    BY <2>1 DEF ReadingCovers
  <2>3. /\ reading.valid
        /\ RealizedDailyLoss(reading.pnl) + reading.planned + slot.loss <= DailyMax
    BY <1>3 DEF GuardPasses, GuardAllows
  <2>4. DayLoss + Planned <= RealizedDailyLoss(reading.pnl) + reading.planned + excess
    BY <2>1, <2>3 DEF BudgetInv, ReadingCovers
  <2>5. slot \in Preview
    BY <2>1 DEF TypeInv, TypeOK, SlotInHand
  <2>6. slot.loss \in Int
    BY <2>5 DEF Preview
  <2>7. DayLoss + Planned + slot.loss <= DailyMax + excess
    BY <2>3, <2>4, <2>6, AmountsType, RatesType
  <2>8. RoomForOrder'
    BY <2>1, <2>7, ExchangeUnchanged DEF RoomForOrder
  <2> QED BY <2>1, <2>2, <2>8, ExchangeUnchanged DEF BudgetInv
<1> QED BY <1>1, <1>2, <1>3

\* Leaving at any price: the planned risk of the position turns into loss, what the
\* exit costs beyond it into excess.
LEMMA ExitBudget ==
  ASSUME TypeInv, TypeInv', BudgetInv, NEW s \in Symbols, positions[s] # NoPosition,
         NEW price \in Nat, Exit(s, price)
  PROVE  BudgetInv'
<1> DEFINE p == positions[s]
           x == [pnl |-> -(p.size * Adverse(p.side, p.entry, price) * Hundred),
                 fee |-> p.size * price * FeeRate]
           result == OrderResult(x)
           risk == StopRisk(p)
           beyond == Positive(-result - risk)
<1>1. /\ positions \in [Symbols -> PositionRow \cup {NoPosition}]
      /\ fills \in Seq(ExecutionRow)
      /\ p.size \in Nat /\ p.entry \in Nat
  BY DEF TypeInv, TypeOK, PositionRow
<1>2. x \in ExecutionRow
  <2> HIDE DEF p
  <2>1. p.size * Adverse(p.side, p.entry, price) * Hundred \in Int
    BY <1>1, AdverseType DEF Hundred
  <2>2. p.size * price * FeeRate \in Nat
    BY <1>1, RatesType, TimesType
  <2> QED BY <2>1, <2>2 DEF ExecutionRow
<1>3. /\ positions' = [positions EXCEPT ![s] = NoPosition]
      /\ fills' = fills \o <<x>> /\ excess' = excess + beyond
      /\ UNCHANGED <<pc, reading, slot>>
  BY DEF Exit, Booked, workerVars, phaseVars
<1>4. risk \in Nat /\ Exposure(p) = risk
  BY ExposurePositive DEF Exposure, BudgetInv
<1>5. result \in Int
  <2> HIDE DEF x
  <2> QED BY <1>2 DEF OrderResult, ExecutionRow
<1>6. beyond \in Nat /\ beyond >= -result - risk
  <2> HIDE DEF result, risk
  <2> QED BY <1>4, <1>5, PositiveType
<1>7. Planned' = Planned - risk
  <2>1. Exposure(NoPosition) = 0
    BY DEF Exposure
  <2> HIDE DEF risk, p
  <2>2. OpenPlannedRisk([positions EXCEPT ![s] = NoPosition])
          = OpenPlannedRisk(positions) - Exposure(positions[s]) + Exposure(NoPosition)
    BY <1>1, PlannedRiskChanges
  <2> QED BY <1>1, <1>3, <1>4, <2>1, <2>2, PlannedRiskType DEF Planned, p
<1>8. DayPnl(fills') = DayPnl(fills) + result
  <2> HIDE DEF x
  <2> QED BY <1>1, <1>2, <1>3, DayPnlGrows
<1>9. DayLoss' <= DayLoss + risk + beyond
  <2> DEFINE before == DayPnl(fills)
  <2>1. before \in Int
    BY <1>1, DayPnlType
  <2>2. /\ DayLoss = IF before <= 0 THEN -before ELSE 0
        /\ DayLoss' = IF before + result <= 0 THEN -(before + result) ELSE 0
    BY <1>5, <1>8, <2>1, RealizedLossType DEF DayLoss
  <2> HIDE DEF before, result, risk, beyond
  <2> QED BY <1>4, <1>5, <1>6, <2>1, <2>2
<1>10. DayLoss' + Planned' - excess' <= DayLoss + Planned - excess
       /\ Planned' <= Planned /\ excess <= excess'
  <2>1. DayLoss' \in Int
    BY <1>5, <1>8, AmountsType, RealizedLossType DEF DayLoss
  <2>2. DayLoss \in Int /\ Planned \in Int /\ excess \in Int
    BY AmountsType
  <2> HIDE DEF risk, beyond
  <2> DEFINE lossNow == DayLoss'
             planNow == Planned'
             overNow == excess'
  <2>3. risk \in Nat /\ beyond \in Nat
    BY <1>4, <1>6
  <2>4. planNow = Planned - risk
    BY <1>7
  <2>5. overNow = excess + beyond
    BY <1>3
  <2>6. lossNow \in Int /\ lossNow <= DayLoss + risk + beyond
    BY <1>9, <2>1
  <2> HIDE DEF lossNow, planNow, overNow
  <2>7. /\ lossNow + planNow - overNow <= DayLoss + Planned - excess
        /\ planNow <= Planned /\ excess <= overNow
    BY <2>2, <2>3, <2>4, <2>5, <2>6
  <2> QED BY <2>7 DEF lossNow, planNow, overNow
<1>11. StopsLimitLosses'
  BY <1>1, <1>3 DEF BudgetInv, StopsLimitLosses
<1> QED BY <1>3, <1>10, <1>11, RiskLeaves

\* A stop at the entry risks the way out only, which the old stop risked already.
LEMMA BreakEvenBudget ==
  ASSUME TypeInv, TypeInv', BudgetInv, NEW s \in Symbols, BreakEven(s)
  PROVE  BudgetInv'
<1> DEFINE p == positions[s]
           q == [p EXCEPT !.stop = p.entry]
<1>1. /\ positions \in [Symbols -> PositionRow \cup {NoPosition}]
      /\ p \in PositionRow /\ p # NoPosition
      /\ positions' = [positions EXCEPT ![s] = q]
      /\ UNCHANGED <<pc, reading, slot, fills, excess>>
  BY DEF BreakEven, TypeInv, TypeOK, workerVars, phaseVars
<1>2. p.size \in Nat /\ p.entry \in Nat /\ p.stop \in Nat
  BY <1>1 DEF PositionRow
<1>3. q \in PositionRow /\ q # NoPosition
  <2>1. q \in PositionRow
    BY <1>1, <1>2 DEF PositionRow
  <2> QED BY <2>1, NoPositionAssumption
<1>4. /\ q.side = p.side /\ q.size = p.size /\ q.entry = p.entry /\ q.stop = p.entry
  BY <1>1 DEF PositionRow
<1>5. Adverse(q.side, q.entry, q.stop) = 0
  <2> HIDE DEF p, q
  <2> QED BY <1>2, <1>4 DEF Adverse
<1>6. StopRisk(q) <= StopRisk(p)
  <2> DEFINE a == Adverse(p.side, p.entry, p.stop)
             rate == FeeRate + SlipRate
  <2>1. a >= 0 /\ (a = p.entry - p.stop \/ a = p.stop - p.entry)
    BY <1>1 DEF BudgetInv, StopsLimitLosses, Adverse
  <2> HIDE DEF p, q
  <2>2. a \in Nat /\ rate \in Nat /\ rate <= 100
    BY <1>2, <2>1, RatesType
  <2>3. StopRisk(q) = p.size * (p.entry * rate) /\ StopRisk(p) = p.size * (a * 100 + p.stop * rate)
    <3>1. p.entry * rate \in Nat
      BY <1>2, <2>2, TimesType
    <3> QED BY <1>4, <1>5, <3>1 DEF StopRisk, Hundred
  <2> HIDE DEF a, rate
  <2>4. p.entry * rate <= a * 100 + p.stop * rate
    <3>1. a * rate \in Nat /\ a * (100 - rate) \in Nat /\ a * (100 - rate) = a * 100 - a * rate
      BY <2>2, TimesType
    <3>2. CASE a = p.entry - p.stop
      <4>1. a * rate = p.entry * rate - p.stop * rate
        BY <1>2, <2>2, <3>2
      <4>2. p.entry * rate \in Int /\ p.stop * rate \in Int
        BY <1>2, <2>2
      <4> QED BY <2>2, <3>1, <4>1, <4>2
    <3>3. CASE a = p.stop - p.entry
      <4>1. a * rate = p.stop * rate - p.entry * rate
        BY <1>2, <2>2, <3>3
      <4>2. p.entry * rate \in Int /\ p.stop * rate \in Int
        BY <1>2, <2>2
      <4> QED BY <2>2, <3>1, <4>1, <4>2
    <3> QED BY <2>1, <3>2, <3>3 DEF a
  <2> DEFINE less == p.entry * rate
             more == a * 100 + p.stop * rate
  <2>5. less \in Int /\ more \in Int
    BY <1>2, <2>2
  <2>6. less <= more /\ StopRisk(q) = p.size * less /\ StopRisk(p) = p.size * more
    BY <2>3, <2>4
  <2> HIDE DEF less, more
  <2>7. p.size * (more - less) \in Nat
    BY <1>2, <2>5, <2>6, TimesType
  <2>8. p.size * (more - less) = p.size * more - p.size * less
    BY <1>2, <2>5
  <2> QED BY <1>2, <2>5, <2>6, <2>7, <2>8
<1>7. Planned' <= Planned
  <2>1. Exposure(p) = StopRisk(p) /\ Exposure(q) = StopRisk(q)
    BY <1>1, <1>3 DEF Exposure
  <2> HIDE DEF q
  <2>2. OpenPlannedRisk([positions EXCEPT ![s] = q])
          = OpenPlannedRisk(positions) - Exposure(positions[s]) + Exposure(q)
    BY <1>1, <1>3, PlannedRiskChanges
  <2> QED BY <1>1, <1>3, <1>6, <2>1, <2>2, PlannedRiskType, StopRiskType DEF Planned
<1>8. StopsLimitLosses'
  <2> HIDE DEF q
  <2> QED BY <1>1, <1>5 DEF BudgetInv, StopsLimitLosses
<1>9. DayLoss' = DayLoss
  BY <1>1 DEF DayLoss
<1>10. Planned' \in Int
  BY PlannedRiskType DEF Planned, TypeInv, TypeOK
<1>11. DayLoss' + Planned' - excess' <= DayLoss + Planned - excess /\ excess <= excess'
  BY <1>1, <1>7, <1>9, <1>10, AmountsType
<1> QED BY <1>1, <1>7, <1>8, <1>11, RiskLeaves

\* Midnight forgets the day's loss and nothing else.
LEMMA HourBudget ==
  ASSUME TypeInv, TypeInv', BudgetInv, HourPasses
  PROVE  BudgetInv'
<1>1. /\ UNCHANGED <<pc, reading, slot, positions, excess>>
      /\ fills' = fills \/ fills' = <<>>
  BY DEF HourPasses, workerVars, phaseVars
<1>2. DayLoss' <= DayLoss /\ DayLoss' \in Int
  <2>1. CASE fills' = fills
    BY <2>1, AmountsType DEF DayLoss
  <2>2. CASE fills' = <<>>
    <3>1. DayLoss' = RealizedDailyLoss(0)
      BY <2>2, DayPnlStarts DEF DayLoss
    <3>2. RealizedDailyLoss(0) = 0
      BY RealizedLossType
    <3> QED BY <3>1, <3>2, AmountsType
  <2> QED BY <1>1, <2>1, <2>2
<1>3. Planned' = Planned /\ StopsLimitLosses'
  BY <1>1 DEF Planned, BudgetInv, StopsLimitLosses
<1> QED BY <1>1, <1>2, <1>3, AmountsType, RiskLeaves

\* The entry: its fee is the day's loss, its stop the planned risk, and what the two
\* exceed the planned loss by is excess; the guard has kept room for that loss.
LEMMA EntryBudget ==
  ASSUME TypeInv, BudgetInv, EntryFills
  PROVE  BudgetInv'
<1>1. PICK price \in {QuotedEntry, Slipped(QuotedEntry, slot.side = "BUY")} :
          LET p == [side |-> slot.side, size |-> slot.quantity, entry |-> price,
                    stop |-> slot.stop, target |-> slot.target]
              fee == slot.quantity * price * FeeRate
          IN /\ Ordered(p.side, p.stop, p.entry, p.target)
             /\ positions' = [positions EXCEPT ![slot.symbol] = p]
             /\ Booked(<<[pnl |-> 0, fee |-> fee]>>)
             /\ excess' = excess + Positive(fee + StopRisk(p) - slot.loss)
  BY DEF EntryFills
<1> DEFINE p == [side |-> slot.side, size |-> slot.quantity, entry |-> price,
                 stop |-> slot.stop, target |-> slot.target]
           fee == slot.quantity * price * FeeRate
           x == [pnl |-> 0, fee |-> fee]
           risk == StopRisk(p)
           beyond == Positive(fee + risk - slot.loss)
           s == slot.symbol
           old == Exposure(positions[s])
<1>2. pc = "POST" /\ pc' = "IDLE"
  BY DEF EntryFills, Goto
<1>3. slot \in Preview
  BY <1>2 DEF TypeInv, TypeOK, SlotInHand
<1>4. /\ s \in Symbols /\ slot.quantity \in Nat /\ slot.loss \in Nat /\ slot.side \in Side
      /\ slot.stop \in Nat /\ slot.target \in Nat /\ price \in Nat
  BY <1>1, <1>3, QuotedEntryType, SlippedType DEF Preview
<1>5. p \in PositionRow /\ p # NoPosition
  <2>1. p \in PositionRow
    BY <1>4 DEF PositionRow
  <2> QED BY <2>1, NoPositionAssumption
<1>6. fee \in Nat /\ x \in ExecutionRow /\ OrderResult(x) = -fee
  <2>1. fee \in Nat
    BY <1>4, RatesType, TimesType
  <2> HIDE DEF fee
  <2> QED BY <2>1 DEF ExecutionRow, OrderResult
<1>7. /\ positions' = [positions EXCEPT ![s] = p]
      /\ fills' = fills \o <<x>> /\ excess' = excess + beyond
      /\ Ordered(slot.side, slot.stop, price, slot.target)
  BY <1>1 DEF Booked
<1>8. /\ positions \in [Symbols -> PositionRow \cup {NoPosition}]
      /\ fills \in Seq(ExecutionRow)
  BY DEF TypeInv, TypeOK
<1>9. risk \in Int /\ Exposure(p) = risk /\ old \in Nat
  BY <1>4, <1>5, StopRiskType, ExposurePositive DEF Exposure, BudgetInv
<1>10. beyond \in Nat /\ beyond >= fee + risk - slot.loss
  <2> HIDE DEF fee, risk
  <2> QED BY <1>4, <1>6, <1>9, PositiveType
<1>11. Planned' = Planned - old + risk
  <2> HIDE DEF p, risk, s, old
  <2>1. OpenPlannedRisk([positions EXCEPT ![s] = p])
          = OpenPlannedRisk(positions) - Exposure(positions[s]) + Exposure(p)
    BY <1>4, <1>5, <1>8, PlannedRiskChanges DEF s
  <2> QED BY <1>7, <1>9, <2>1 DEF Planned, old
<1>12. DayPnl(fills') = DayPnl(fills) - fee
  <2> HIDE DEF x, fee
  <2> QED BY <1>6, <1>7, <1>8, DayPnlGrows, DayPnlType
<1>13. DayLoss' <= DayLoss + fee /\ DayLoss' \in Int
  <2> DEFINE before == DayPnl(fills)
  <2>1. before \in Int
    BY <1>8, DayPnlType
  <2>2. /\ DayLoss = IF before <= 0 THEN -before ELSE 0
        /\ DayLoss' = IF before - fee <= 0 THEN -(before - fee) ELSE 0
    BY <1>6, <1>12, <2>1, RealizedLossType DEF DayLoss
  <2> HIDE DEF before, fee
  <2> QED BY <1>6, <2>1, <2>2
<1>14. DayLoss' + Planned' <= DailyMax + excess'
  <2>1. DayLoss + Planned + slot.loss <= DailyMax + excess
    BY <1>2 DEF BudgetInv, RoomForOrder
  <2>2. DayLoss \in Int /\ Planned \in Int /\ excess \in Int
    BY AmountsType
  <2> HIDE DEF fee, risk, beyond, old
  <2>3. Planned' \in Int /\ Planned' <= Planned + risk
    BY <1>9, <1>11, <2>2
  <2>4. excess' \in Int /\ excess' >= excess + fee + risk - slot.loss
    BY <1>4, <1>6, <1>7, <1>9, <1>10, <2>2
  <2>5. DayLoss + Planned + fee + risk <= DailyMax + (excess + fee + risk - slot.loss)
    BY <1>4, <1>6, <1>9, <2>1, <2>2, RatesType
  <2> DEFINE l == DayLoss'
             r == Planned'
             e == excess'
  <2>6. l \in Int /\ r \in Int /\ e \in Int /\ l <= DayLoss + fee /\ r <= Planned + risk
        /\ e >= excess + fee + risk - slot.loss
    BY <1>13, <2>3, <2>4
  <2> HIDE DEF l, r, e
  <2>7. l + r <= DailyMax + e
    BY <1>4, <1>6, <1>9, <2>2, <2>5, <2>6, RatesType
  <2> QED BY <2>7 DEF l, r, e
<1>15. StopsLimitLosses'
  <2>1. p.side = slot.side /\ p.entry = price /\ p.stop = slot.stop
    OBVIOUS
  <2>2. Adverse(slot.side, price, slot.stop) >= 0
    BY <1>4, <1>7 DEF Adverse, Ordered
  <2> HIDE DEF p
  <2> QED BY <1>4, <1>7, <1>8, <2>1, <2>2 DEF BudgetInv, StopsLimitLosses
<1>16. DayLossIsBudgeted'
  BY <1>14 DEF DayLossIsBudgeted, DayLoss, Planned
<1> QED BY <1>2, <1>15, <1>16 DEF BudgetInv, ReadingCovers, RoomForOrder

LEMMA InitBudget == Init => BudgetInv
<1> SUFFICES ASSUME Init PROVE BudgetInv
  OBVIOUS
<1>1. TypeInv
  BY InitTypeInv
<1>2. DayLoss = 0
  BY DayPnlStarts, RealizedLossType DEF Init, DayLoss
<1>3. Planned = 0
  <2> DEFINE risk == [s \in {o \in Symbols : positions[o] # NoPosition} |-> StopRisk(positions[s])]
  <2>1. DOMAIN risk = {}
    BY DEF Init
  <2> HIDE DEF risk
  <2>2. SumFunction(risk) = 0
    BY <2>1, SumOfNothing
  <2> QED BY <2>2 DEF Planned, OpenPlannedRisk, risk
<1>4. DayLossIsBudgeted
  BY <1>2, <1>3, RatesType DEF DayLossIsBudgeted, DayLoss, Planned, Init
<1> QED BY <1>4 DEF Init, BudgetInv, StopsLimitLosses, ReadingCovers, RoomForOrder

\* Every step of the specification keeps the budget.
LEMMA NextBudget == TypeInv /\ TypeInv' /\ BudgetInv /\ [Next]_vars => BudgetInv'
<1> SUFFICES ASSUME TypeInv, TypeInv', BudgetInv, [Next]_vars PROVE BudgetInv'
  OBVIOUS
<1>1. CASE UNCHANGED vars
  BY <1>1 DEF vars, workerVars, phaseVars, exchangeVars, BudgetInv, StopsLimitLosses,
              DayLossIsBudgeted, ReadingCovers, RoomForOrder, DayLoss, Planned
<1>2. ASSUME NEW s \in Symbols, StopFills(s) \/ TargetFills(s) \/ BreakEven(s) PROVE BudgetInv'
  BY <1>2, ExitPrices, ExitBudget, BreakEvenBudget DEF StopFills, TargetFills
<1>3. CASE Next
  BY <1>2, <1>3, WorkerBudget, GuardBudget, EntryBudget, HourBudget DEF Next
<1> QED BY <1>1, <1>3

\* The day's realized loss and the planned risk of all open positions stay within
\* daily_max_loss, excess excepted, through torn readings, exits between the guard's
\* answers and the post, midnights and crashes.
THEOREM DayLossBudgeted == Spec => []DayLossIsBudgeted
<1>1. Init => BudgetInv
  BY InitBudget
<1>2. TypeInv /\ TypeInv' /\ BudgetInv /\ [Next]_vars => BudgetInv'
  BY NextBudget
<1>3. BudgetInv => DayLossIsBudgeted
  BY DEF BudgetInv
<1> QED BY <1>1, <1>2, <1>3, TypeInvariant, PTL DEF Spec

(***************************************************************************)
(* Signals and proposals                                                   *)
(***************************************************************************)

\* Steps that neither store a signal nor touch the cursor or the history, and do not
\* move the worker to or from MARK.
LEMMA ScanQuiet ==
  ASSUME TypeInv, ScanInv,
         UNCHANGED <<signals, historyVars, crashes>>, scanner'.cursor = scanner.cursor,
         \/ pc # "MARK" /\ pc' # "MARK"
         \/ UNCHANGED <<pc, slot>>
  PROVE  ScanInv'
<1>1. SignalsAreJudged' /\ OneProposalPerBatch'
  BY DEF ScanInv, SignalsAreJudged, OneProposalPerBatch, historyVars
<1>2. MarkedIsJudged'
  BY DEF ScanInv, MarkedIsJudged, historyVars
<1>3. UnmarkedNeedsCrash'
  BY DEF ScanInv, UnmarkedNeedsCrash, historyVars
<1> QED BY <1>1, <1>2, <1>3 DEF ScanInv

LEMMA QuietScan ==
  ASSUME TypeInv, ScanInv,
         \/ BeginCycle \/ EngineDone \/ BeginRead \/ ScanSkipped \/ ReadPart \/ ReadFails
         \/ CapacityFull \/ ReleaseSlot \/ SaveSnapshot \/ NoCandidate \/ Claim
         \/ NothingToExecute \/ ClaimRefused \/ GuardReads \/ GuardPasses \/ GuardRefuses
         \/ EntryFills \/ EntryFails \/ HourPasses
         \/ \E s \in Symbols : StopFills(s) \/ TargetFills(s) \/ BreakEven(s)
  PROVE  ScanInv'
<1>1. CASE BeginCycle \/ EngineDone \/ ReadPart \/ ReleaseSlot
  BY <1>1, ScanQuiet
     DEF BeginCycle, EngineDone, ReadPart, ReleaseSlot, ReadingComplete, workerVars, rowVars, bounds
<1>2. CASE BeginRead \/ ScanSkipped \/ CapacityFull \/ NoCandidate
  BY <1>2, ScanQuiet
     DEF BeginRead, ScanSkipped, CapacityFull, ReadingComplete, NoCandidate, Goto, rowVars, bounds
<1>3. CASE ReadFails \/ SaveSnapshot
  <2>1. scanner'.cursor = scanner.cursor
    BY <1>3 DEF ReadFails, SaveSnapshot, TypeInv, TypeOK, ScannerRow
  <2> QED BY <1>3, <2>1, ScanQuiet DEF ReadFails, SaveSnapshot, ReadingComplete, Goto, bounds
<1>4. CASE Claim \/ NothingToExecute \/ ClaimRefused \/ EntryFails
  BY <1>4, ScanQuiet DEF Claim, NothingToExecute, ClaimRefused, EntryFails, Halt, Goto, rowVars, bounds
<1>5. CASE GuardReads \/ GuardPasses \/ GuardRefuses
  BY <1>5, ScanQuiet DEF GuardReads, GuardPasses, GuardRefuses, Halt, Goto, rowVars, bounds
<1>6. CASE EntryFills \/ HourPasses
  BY <1>6, ScanQuiet DEF EntryFills, HourPasses, Goto, rowVars, workerVars, phaseVars, bounds
<1>7. ASSUME NEW s \in Symbols, StopFills(s) \/ TargetFills(s) \/ BreakEven(s) PROVE ScanInv'
  BY <1>7, ScanQuiet
     DEF StopFills, TargetFills, Exit, BreakEven, rowVars, workerVars, phaseVars, bounds
<1> QED BY <1>1, <1>2, <1>3, <1>4, <1>5, <1>6, <1>7

\* A signal is stored: its candle is past the cursor, or the signal is late.
LEMMA AnalyseScan ==
  ASSUME TypeInv, ScanInv, Analyse
  PROVE  ScanInv'
<1>1. /\ pc = "ENGINE" /\ pc' = "ENGINE"
      /\ UNCHANGED <<scanner, judged, proposed, crashes>>
  BY DEF Analyse, bounds
<1>2. SignalsAreJudged'
  <2>1. CASE UNCHANGED <<signals, late>>
    BY <1>1, <2>1 DEF ScanInv, SignalsAreJudged
  <2>2. ASSUME NEW signal, signals' = signals \cup {signal}, signal.candle = at - 1,
               late' = late \cup {x \in {signal} : at - 1 <= scanner.cursor}
        PROVE  SignalsAreJudged'
    BY <1>1, <2>2 DEF ScanInv, SignalsAreJudged
  <2> QED BY <2>1, <2>2 DEF Analyse
<1> QED BY <1>1, <1>2
        DEF ScanInv, OneProposalPerBatch, MarkedIsJudged, UnmarkedNeedsCrash

\* The numbers that the invariant compares.
LEMMA CandlesType ==
  ASSUME TypeInv
  PROVE  /\ Candles \subseteq Nat /\ scanner.cursor \in Int
         /\ crashes \in Nat /\ \A c \in Candles : proposed[c] \in Nat
         /\ \A r \in signals : r.candle \in Candles
<1>1. LastCandle \in Nat /\ MaxCrashes \in Nat
  BY ScannerAssumption
<1>2. Candles \subseteq Nat
  BY <1>1 DEF Candles
<1>3. scanner.cursor \in Int
  <2>1. scanner \in ScannerRow
    BY DEF TypeInv, TypeOK
  <2>2. scanner.cursor \in Candles \cup {-1}
    BY <2>1 DEF ScannerRow
  <2>3. CASE scanner.cursor = -1
    BY <2>3
  <2>4. CASE scanner.cursor \in Candles
    BY <1>1, <2>4 DEF Candles
  <2> QED BY <2>2, <2>3, <2>4
<1>4. crashes \in Nat /\ \A c \in Candles : proposed[c] \in Nat
  BY <1>1 DEF TypeInv, TypeOK
<1>5. \A r \in signals : r.candle \in Candles
  BY DEF TypeInv, TypeOK, SignalRow
<1> QED BY <1>2, <1>3, <1>4, <1>5

\* The batch is judged and the cursor passes its candle.
LEMMA RejectedScan ==
  ASSUME TypeInv, ScanInv, BatchRejected
  PROVE  ScanInv'
<1>1. /\ pc = "BATCH" /\ pc' = "EXECUTE"
      /\ CandidateBatch # {}
      /\ scanner'.cursor = BatchCandle /\ judged' = judged \cup CandidateBatch
      /\ UNCHANGED <<signals, late, proposed, crashes>>
  BY DEF BatchRejected, Goto, bounds, TypeInv, TypeOK, ScannerRow
<1>2. SignalsAreJudged'
  BY <1>1, BatchIsOneCandle DEF ScanInv, SignalsAreJudged, Admissible
<1>3. UnmarkedNeedsCrash'
  <2> SUFFICES ASSUME NEW c \in Candles, c > BatchCandle PROVE proposed[c] <= crashes
    BY <1>1 DEF UnmarkedNeedsCrash
  <2>1. c > scanner.cursor
    BY <1>1, BatchIsOneCandle, CandlesType
  <2> QED BY <1>1, <2>1 DEF ScanInv, UnmarkedNeedsCrash
<1>4. OneProposalPerBatch' /\ MarkedIsJudged'
  BY <1>1 DEF ScanInv, OneProposalPerBatch, MarkedIsJudged
<1> QED BY <1>2, <1>3, <1>4 DEF ScanInv

\* The batch is judged and proposed from; the cursor is still behind.
LEMMA SavedScan ==
  ASSUME TypeInv, ScanInv, SaveReady
  PROVE  ScanInv'
<1>1. PICK r \in Ranked : slot' = BuiltPreview(r)
  BY DEF SaveReady
<1>2. r \in CandidateBatch /\ slot'.candle = r.candle
  BY <1>1, BuiltPreviewType DEF Ranked
<1>3. /\ BatchCandle \in Candles /\ BatchCandle > scanner.cursor /\ slot'.candle = BatchCandle
      /\ \A q \in signals :
            Admissible(q) /\ q.candle <= BatchCandle
                => q.candle <= scanner.cursor \/ q \in CandidateBatch
  BY <1>2, BatchIsOneCandle
<1>4. /\ pc = "BATCH" /\ pc' = "MARK" /\ judged' = judged \cup CandidateBatch
      /\ proposed' = [proposed EXCEPT ![BatchCandle] = @ + 1]
      /\ UNCHANGED <<signals, scanner, late, crashes>>
  BY DEF SaveReady, Goto, rowVars, bounds
<1>5. SignalsAreJudged'
  BY <1>4 DEF ScanInv, SignalsAreJudged
<1>6. MarkedIsJudged'
  BY <1>3, <1>4 DEF ScanInv, MarkedIsJudged, SignalsAreJudged, Admissible
<1>7. proposed[BatchCandle] <= crashes
  BY <1>3, <1>4 DEF ScanInv, UnmarkedNeedsCrash
<1>8. \A c \in Candles : proposed'[c] = IF c = BatchCandle THEN proposed[c] + 1 ELSE proposed[c]
  BY <1>4 DEF TypeInv, TypeOK
<1>9. OneProposalPerBatch'
  BY <1>4, <1>7, <1>8, CandlesType DEF ScanInv, OneProposalPerBatch
<1>10. UnmarkedNeedsCrash'
  BY <1>3, <1>4, <1>8 DEF ScanInv, UnmarkedNeedsCrash
<1> QED BY <1>5, <1>6, <1>9, <1>10 DEF ScanInv

\* The cursor passes the candle that was proposed from.
LEMMA MarkedScan ==
  ASSUME TypeInv, ScanInv, MarkReady
  PROVE  ScanInv'
<1>1. /\ pc = "MARK" /\ pc' = "EXECUTE" /\ scanner'.cursor = slot.candle
      /\ UNCHANGED <<signals, late, judged, proposed, crashes>>
  BY DEF MarkReady, Goto, historyVars, bounds
<1>2. slot.candle \in Candles
  <2>1. slot \in Preview
    BY <1>1 DEF TypeInv, TypeOK, SlotInHand
  <2> QED BY <2>1 DEF Preview
<1>3. SignalsAreJudged'
  BY <1>1 DEF ScanInv, MarkedIsJudged, SignalsAreJudged, Admissible
<1>4. UnmarkedNeedsCrash'
  <2> SUFFICES ASSUME NEW c \in Candles, c > slot.candle PROVE proposed[c] <= crashes
    BY <1>1 DEF UnmarkedNeedsCrash
  <2>1. slot.candle > scanner.cursor
    BY <1>1 DEF ScanInv, MarkedIsJudged
  <2>2. c > scanner.cursor /\ c # slot.candle
    BY <1>2, <2>1, CandlesType
  <2> QED BY <2>2 DEF ScanInv, UnmarkedNeedsCrash
<1>5. OneProposalPerBatch' /\ MarkedIsJudged'
  BY <1>1 DEF ScanInv, OneProposalPerBatch, MarkedIsJudged
<1> QED BY <1>3, <1>4, <1>5 DEF ScanInv

\* A crash before mark_ready lets the candle be proposed from once more.
LEMMA CrashScan ==
  ASSUME TypeInv, ScanInv, Crash
  PROVE  ScanInv'
<1>1. /\ pc' = "IDLE" /\ crashes' = crashes + 1
      /\ UNCHANGED <<signals, scanner, late, judged, proposed>>
  BY DEF Crash, rowVars, historyVars
<1>2. SignalsAreJudged' /\ MarkedIsJudged'
  BY <1>1 DEF ScanInv, SignalsAreJudged, MarkedIsJudged
<1>3. OneProposalPerBatch' /\ UnmarkedNeedsCrash'
  BY <1>1, CandlesType DEF ScanInv, OneProposalPerBatch, UnmarkedNeedsCrash
<1> QED BY <1>2, <1>3 DEF ScanInv

LEMMA InitScan == Init => ScanInv
BY ScannerAssumption DEF Init, ScanInv, SignalsAreJudged, OneProposalPerBatch, MarkedIsJudged,
                         UnmarkedNeedsCrash

\* Every step of the specification keeps the account of signals and proposals.
LEMMA NextScan == TypeInv /\ ScanInv /\ [Next]_vars => ScanInv'
<1> SUFFICES ASSUME TypeInv, ScanInv, [Next]_vars PROVE ScanInv'
  OBVIOUS
<1>1. CASE UNCHANGED vars
  BY <1>1, ScanQuiet DEF vars, workerVars, rowVars, phaseVars, historyVars, bounds
<1>2. CASE Next
  BY <1>2, QuietScan, AnalyseScan, RejectedScan, SavedScan, MarkedScan, CrashScan DEF Next
<1> QED BY <1>1, <1>2

LEMMA ScanInvariant == Spec => []ScanInv
BY InitScan, NextScan, TypeInvariant, PTL DEF Spec

\* No admissible signal is passed over: the cursor moves past a signal in a batch that
\* judged it, or the signal was stored too late, whatever read fails and whenever the
\* worker dies.
THEOREM SignalsJudged == Spec => []SignalsAreJudged
<1>1. ScanInv => SignalsAreJudged
  BY DEF ScanInv
<1> QED BY <1>1, ScanInvariant, PTL

\* A candle leads to one proposal, and to one more for each crash between save_ready
\* and mark_ready at most.
THEOREM OneProposal == Spec => []OneProposalPerBatch
<1>1. ScanInv => OneProposalPerBatch
  BY DEF ScanInv
<1> QED BY <1>1, ScanInvariant, PTL

(***************************************************************************)
(* Types                                                                   *)
(***************************************************************************)

Listed      == UNION {DOMAIN listing : listing \in Listings}
Answered    == [symbol : Listed \cup {0}, action : {"WAIT", "LONG"}, levels : BOOLEAN]
RuntimeRow  == [status : {"RUNNING", "DEGRADED"}, slot : Int, top : Seq(Listed),
                signature : Seq(Listed), score : Int, calledAt : Int, day : Int,
                calls : Nat, decisions : Seq(Answered)]
PostedCall  == [at : Nat, top : Seq(Listed), score : Nat, day : Nat, received : Nat]

\* The task at each of its labels.
Listing   == [pc : {"LISTING"}, started : Int]
Technical == {t \in [pc : {"TECHNICAL"}, started : Int, listing : Listings,
                     short : {Short(l) : l \in Listings}] : t.short = Short(t.listing)}
Scanned   == [pc : {"SAVE", "CLAIM"}, at : Nat, top : Seq(Listed), score : Nat]
Claiming  == [pc : {"OBSERVE"}, at : Nat, top : Seq(Listed), score : Nat, attempt : 0 .. 1]
Calling   == [pc : {"POST", "ANSWER"}, at : Nat, top : Seq(Listed), score : Nat,
              attempt : 0 .. 1, day : Nat]
Decided   == [pc : {"DECIDED"}, batch : Seq(Answered)]

TaskTyped ==
    \/ task = NoTask \/ task = Idle \/ task.pc = "FAIL"
    \/ task \in Listing \/ task \in Technical \/ task \in Scanned
    \/ task \in Claiming \/ task \in Calling \/ task \in Decided

Typed ==
    /\ now \in 0 .. LastTick /\ restarts \in 0 .. MaxRestarts
    /\ row = NoRow \/ row \in RuntimeRow
    /\ posts \in Seq(PostedCall)
    /\ TaskTyped
    /\ task.pc # "OFF" => row # NoRow
    /\ row = NoRow => posts = <<>>

(***************************************************************************)
(* The inductive invariant                                                 *)
(***************************************************************************)

\* What the row says of the last claim and of the slot.
RowDated ==
    row # NoRow =>
        /\ row.slot <= now /\ row.calledAt <= now /\ row.day <= UtcDay(now)
        /\ row.calledAt = Never <=> row.score = Never
        /\ row.calledAt # Never =>
              row.calledAt >= 0 /\ row.score >= 0 /\ Len(row.signature) = Top

\* A scan is ranked after the last claim.
ScanIsNewer ==
    task.pc \in {"SAVE", "CLAIM"} =>
        row.calledAt <= task.at /\ task.at <= now /\ IsInjective(task.top)

\* What is sent is what was claimed last.
ClaimInHand ==
    task.pc \in {"OBSERVE", "POST", "ANSWER"} =>
        /\ task.at = row.calledAt /\ task.score = row.score /\ task.top = row.signature
        /\ IsInjective(task.top)

\* Against every request sent so far the last claim passes the gate.
LastClaimCovers ==
    row # NoRow =>
        \A i \in DOMAIN posts :
            /\ posts[i].at <= row.calledAt
            /\ row.calledAt - posts[i].at < MinInterval =>
                  IF posts[i].at = row.calledAt THEN posts[i].score <= row.score
                  ELSE row.score * 5 >= posts[i].score * 6

\* The requests counted on a day, and the one that was counted and is not yet sent: none
\* has been received on a later day than it was counted on.
OfDay(d) == {i \in DOMAIN posts : posts[i].day = d}
PostIsCounted ==
    task.pc = "POST" =>
        /\ task.day = row.day /\ Cardinality(OfDay(row.day)) + 1 <= row.calls
        /\ \A i \in DOMAIN posts : posts[i].received <= task.day
RequestsCounted == row # NoRow => Cardinality(OfDay(row.day)) <= row.calls
DaysGoOn == row # NoRow => \A i \in DOMAIN posts : posts[i].day <= row.day
ReceivedByNow == \A i \in DOMAIN posts : posts[i].received <= UtcDay(now)
CrossedIsFirst ==
    \A i, j \in DOMAIN posts : Crossed(i) /\ posts[j].received = posts[i].received => i <= j

\* A batch that answers the last claim.
AnswersClaim(batch) ==
    /\ Len(batch) = Top
    /\ SymbolsOf(batch) = Range(row.signature)
    /\ \A i \in DOMAIN batch : LevelsForTrade(batch[i])
BatchAnswers == task.pc = "DECIDED" => AnswersClaim(task.batch)

RowInv  == /\ RowDated /\ LastClaimCovers /\ DaysGoOn /\ GateIsDurable
           /\ RequestsCounted /\ ReceivedByNow /\ CrossedIsFirst
TaskInv == ScanIsNewer /\ ClaimInHand /\ PostIsCounted /\ BatchAnswers

DiscoveryInv == Typed /\ RowInv /\ TaskInv

(***************************************************************************)
(* The task, the row and the clock                                         *)
(***************************************************************************)

LEMMA TaskAt ==
  ASSUME TaskTyped
  PROVE  /\ task.pc = "OFF" => task = NoTask
         /\ task.pc = "IDLE" => task = Idle
         /\ task.pc = "LISTING" => task \in Listing
         /\ task.pc = "TECHNICAL" => task \in Technical
         /\ task.pc \in {"SAVE", "CLAIM"} => task \in Scanned
         /\ task.pc = "OBSERVE" => task \in Claiming
         /\ task.pc \in {"POST", "ANSWER"} => task \in Calling
         /\ task.pc = "DECIDED" => task \in Decided
         /\ task.pc \in {"OFF", "IDLE", "LISTING", "TECHNICAL", "SAVE", "CLAIM", "OBSERVE",
                         "POST", "ANSWER", "DECIDED", "FAIL"}
BY DEF TaskTyped, NoTask, Idle, Listing, Technical, Scanned, Claiming, Calling, Decided

LEMMA NoRowIsNone == \A r \in RuntimeRow : r # NoRow
BY DEF RuntimeRow, NoRow

\* A field of the row is written.
LEMMA FieldWritten ==
  ASSUME NEW r \in RuntimeRow, NEW v \in Int, NEW n \in Nat
  PROVE  /\ [r EXCEPT !.day = v] \in RuntimeRow
         /\ [r EXCEPT !.score = v] \in RuntimeRow
         /\ [r EXCEPT !.calls = n] \in RuntimeRow
<1>1. [r EXCEPT !.day = v] \in RuntimeRow
  BY DEF RuntimeRow
<1>2. [r EXCEPT !.score = v] \in RuntimeRow
  BY DEF RuntimeRow
<1>3. [r EXCEPT !.calls = n] \in RuntimeRow
  BY DEF RuntimeRow
<1> QED BY <1>1, <1>2, <1>3

LEMMA ClaimWritten ==
  ASSUME NEW r \in RuntimeRow, NEW v \in Int
  PROVE  [r EXCEPT !.calledAt = v] \in RuntimeRow
BY DEF RuntimeRow

LEMMA SignatureWritten ==
  ASSUME NEW r \in RuntimeRow, NEW w \in Seq(Listed)
  PROVE  [r EXCEPT !.signature = w] \in RuntimeRow
BY DEF RuntimeRow

\* Days follow each other.
LEMMA DayOrder ==
  ASSUME NEW s \in Nat, NEW t \in Nat, s <= t
  PROVE  UtcDay(s) \in Nat /\ UtcDay(t) \in Nat /\ UtcDay(s) <= UtcDay(t)
<1> DEFINE a == s \div TicksPerDay
           b == t \div TicksPerDay
<1>1. /\ a \in Nat /\ s = TicksPerDay * a + (s % TicksPerDay) /\ s % TicksPerDay \in 0 .. TicksPerDay - 1
      /\ b \in Nat /\ t = TicksPerDay * b + (t % TicksPerDay) /\ t % TicksPerDay \in 0 .. TicksPerDay - 1
  BY LengthAssumption
<1> HIDE DEF a, b
<1>2. a <= b
  <2> SUFFICES ASSUME b + 1 <= a PROVE FALSE
    BY <1>1
  <2>1. TicksPerDay * (b + 1) <= TicksPerDay * a
    BY <1>1, LengthAssumption
  <2>2. TicksPerDay * (b + 1) = TicksPerDay * b + TicksPerDay
    BY <1>1, LengthAssumption
  <2> QED BY <2>1, <2>2, <1>1, LengthAssumption
<1> QED BY <1>1, <1>2 DEF a, b, UtcDay

LEMMA SlotIsPast ==
  ASSUME NEW t \in Nat
  PROVE  SlotOf(t) \in Int /\ SlotOf(t) <= t
<1>1. t % SlotLength \in 0 .. SlotLength - 1
  BY LengthAssumption
<1> QED BY <1>1, LengthAssumption DEF SlotOf

\* The requests of a day are finitely many.
LEMMA OfDayCounted ==
  ASSUME Typed, NEW d
  PROVE  IsFiniteSet(OfDay(d)) /\ Cardinality(OfDay(d)) \in Nat
<1>1. Len(posts) \in Nat /\ DOMAIN posts = 1 .. Len(posts)
  BY DEF Typed
<1>2. IsFiniteSet(1 .. Len(posts))
  BY <1>1, FS_Interval
<1>3. OfDay(d) \subseteq 1 .. Len(posts)
  BY <1>1 DEF OfDay
<1>4. IsFiniteSet(OfDay(d))
  BY <1>2, <1>3, FS_Subset
<1> QED BY <1>4, FS_CardinalityType

\* A request that has not crossed midnight is one of those counted on its day.
LEMMA CounterIsCardinality ==
  ASSUME Typed, RequestsCounted, CrossedIsFirst
  PROVE  CounterCoversPosts
<1> DEFINE S == {i \in DOMAIN posts : posts[i].received = row.day /\ ~Crossed(i)}
<1>1. ASSUME row # NoRow PROVE Cardinality(S) <= row.calls
  <2>1. S \subseteq OfDay(row.day)
    BY DEF Crossed, OfDay
  <2>2. IsFiniteSet(OfDay(row.day)) /\ Cardinality(OfDay(row.day)) \in Nat
    BY OfDayCounted
  <2> HIDE DEF S
  <2>3. IsFiniteSet(S) /\ Cardinality(S) <= Cardinality(OfDay(row.day))
    BY <2>1, <2>2, FS_Subset
  <2>4. Cardinality(S) \in Nat
    BY <2>3, FS_CardinalityType
  <2>5. row.calls \in Nat /\ Cardinality(OfDay(row.day)) <= row.calls
    BY <1>1 DEF Typed, RuntimeRow, RequestsCounted
  <2> QED BY <2>2, <2>3, <2>4, <2>5
<1> QED BY <1>1 DEF CounterCoversPosts, CrossedIsFirst

LEMMA ReceivedTyped ==
  ASSUME Typed, NEW i \in DOMAIN posts
  PROVE  posts[i].received \in Nat /\ posts[i].day \in Nat
<1>1. posts[i] \in PostedCall
  BY DEF Typed
<1> QED BY <1>1 DEF PostedCall

\* The row keeps what it says of the claims and of the requests.
LEMMA RowInvKept ==
  ASSUME Typed, RowInv, row # NoRow, posts' = posts,
         now' \in Nat, now' >= now, row'.slot <= now',
         row'.calledAt = row.calledAt, row'.score = row.score,
         row'.signature = row.signature, row'.day = row.day, row'.calls = row.calls
  PROVE  RowInv'
<1>1. /\ now \in Nat /\ row \in RuntimeRow /\ row.calledAt \in Int /\ row.day \in Int
      /\ row.score \in Int
  BY LengthAssumption DEF Typed, RuntimeRow
<1>2. UtcDay(now) \in Nat /\ UtcDay(now') \in Nat /\ UtcDay(now) <= UtcDay(now')
  BY <1>1, DayOrder
<1>3. RowDated'
  <2>1. row'.calledAt <= now' /\ row'.day <= UtcDay(now')
    BY <1>1, <1>2 DEF RowInv, RowDated
  <2> QED BY <2>1 DEF RowInv, RowDated, UtcDay
<1>4. LastClaimCovers' /\ DaysGoOn' /\ GateIsDurable'
  BY DEF RowInv, LastClaimCovers, DaysGoOn, GateIsDurable
<1>5. RequestsCounted' /\ CrossedIsFirst'
  BY DEF RowInv, RequestsCounted, OfDay, CrossedIsFirst, Crossed
<1>6. ReceivedByNow'
  <2>1. ASSUME NEW i \in DOMAIN posts PROVE posts[i].received <= UtcDay(now')
    <3>1. posts[i].received \in Nat /\ posts[i].received <= UtcDay(now)
      BY ReceivedTyped DEF RowInv, ReceivedByNow
    <3> QED BY <1>2, <3>1
  <2> QED BY <2>1 DEF ReceivedByNow, UtcDay
<1> QED BY <1>3, <1>4, <1>5, <1>6 DEF RowInv

\* A task without a claim, a scan or a batch in hand.
LEMMA NothingInHand ==
  ASSUME task'.pc \in {"OFF", "IDLE", "LISTING", "TECHNICAL", "FAIL"}
  PROVE  TaskInv'
BY DEF TaskInv, ScanIsNewer, ClaimInHand, PostIsCounted, BatchAnswers

\* Everything but the label of the task stays.
LEMMA TaskGivesUp ==
  ASSUME DiscoveryInv, Fails, task.pc \in {"LISTING", "TECHNICAL", "OBSERVE", "ANSWER"},
         UNCHANGED <<now, row, posts, restarts>>
  PROVE  DiscoveryInv'
<1>1. task'.pc = "FAIL"
  BY TaskAt DEF Fails, DiscoveryInv, Typed, Listing, Technical, Claiming, Calling
<1>2. row # NoRow
  BY DEF DiscoveryInv, Typed
<1>3. Typed'
  BY <1>1, <1>2 DEF DiscoveryInv, Typed, TaskTyped
<1>4. RowInv'
  BY <1>2, RowInvKept, LengthAssumption DEF DiscoveryInv, Typed, RowInv, RowDated
<1> QED BY <1>1, <1>3, <1>4, NothingInHand DEF DiscoveryInv

(***************************************************************************)
(* Answers of the provider                                                 *)
(***************************************************************************)

\* A sequence without duplicates has as many values as places.
LEMMA ValuesCounted ==
  ASSUME NEW n \in Nat, NEW V, NEW F \in [1 .. n -> V], IsInjective(F)
  PROVE  Cardinality(Range(F)) = n
<1>1. F \in [1 .. n -> Range(F)]
  BY DEF Range
<1>2. F \in Bijection(1 .. n, Range(F))
  BY <1>1 DEF Bijection, Injection, Surjection, IsInjective, Range
<1>3. ExistsBijection(1 .. n, Range(F))
  BY <1>2 DEF ExistsBijection
<1> QED BY <1>3, FS_CountingElements

\* A batch without duplicates for exactly the expected markets has one
\* decision for each of them.
LEMMA ValidIsComplete ==
  ASSUME NEW top \in Seq(Listed), IsInjective(top), NEW batch \in Seq(Answered),
         Valid(batch, Range(top))
  PROVE  Len(batch) = Len(top)
<1> DEFINE n == Len(batch)
           F == [i \in 1 .. n |-> batch[i].symbol]
<1>1. /\ n \in Nat /\ DOMAIN batch = 1 .. n
      /\ \A i \in 1 .. n : batch[i] \in Answered
      /\ Len(top) \in Nat /\ top \in [1 .. Len(top) -> Listed]
  OBVIOUS
<1>2. F \in [1 .. n -> Listed \cup {0}] /\ IsInjective(F)
  BY <1>1 DEF Answered, Valid, UniqueSymbols, IsInjective
<1>3. Range(F) = SymbolsOf(batch)
  BY <1>1 DEF Range, SymbolsOf
<1>4. Cardinality(Range(F)) = n
  <2> HIDE DEF F, n
  <2> QED BY <1>1, <1>2, ValuesCounted
<1>5. Cardinality(Range(top)) = Len(top)
  BY <1>1, ValuesCounted
<1> QED BY <1>3, <1>4, <1>5 DEF Valid

LEMMA AnswersTyped ==
  ASSUME NEW top \in Seq(Listed), top # <<>>, NEW batch \in Answers(top) \cup {<<>>}
  PROVE  batch \in Seq(Answered)
<1> DEFINE full == Complete(top)
<1>1. /\ Len(top) \in Nat \ {0} /\ DOMAIN top = 1 .. Len(top)
      /\ \A i \in 1 .. Len(top) : top[i] \in Listed
  OBVIOUS
<1>2. \A s \in Listed \cup {0} : Wait(s) \in Answered /\ Long(s) \in Answered
  BY DEF Wait, Long, Answered
<1>3. full = [i \in 1 .. Len(top) |-> IF i = 1 THEN Long(top[i]) ELSE Wait(top[i])]
  BY <1>1 DEF Complete
<1>4. full \in Seq(Answered) /\ full # <<>>
  BY <1>1, <1>2, <1>3
<1> HIDE DEF full
<1>5. Tail(full) \in Seq(Answered)
  BY <1>4
<1>6. Append(full, Wait(top[1])) \in Seq(Answered) /\ Append(full, Wait(0)) \in Seq(Answered)
  BY <1>1, <1>2, <1>4
<1>7. [full EXCEPT ![1].levels = FALSE] \in Seq(Answered)
  <2> DEFINE n == Len(full)
             d == [full[1] EXCEPT !.levels = FALSE]
             g == [full EXCEPT ![1].levels = FALSE]
  <2>1. n \in Nat \ {0} /\ full \in [1 .. n -> Answered]
    BY <1>4
  <2>2. d \in Answered
    <3>1. full[1] \in Answered
      BY <2>1
    <3>2. \A a \in Answered : [a EXCEPT !.levels = FALSE] \in Answered
      BY Zenon DEF Answered
    <3> QED BY <3>1, <3>2
  <2>3. g = [i \in 1 .. n |-> IF i = 1 THEN d ELSE full[i]]
    <3> HIDE DEF n
    <3> QED BY <2>1
  <2> HIDE DEF n, d, g
  <2>4. g \in [1 .. n -> Answered]
    BY <2>1, <2>2, <2>3
  <2>5. g \in Seq(Answered)
    BY <2>1, <2>4
  <2> QED BY <2>5 DEF g
<1>8. <<>> \in Seq(Answered)
  OBVIOUS
<1>9. \/ batch \in {full, Tail(full), Append(full, Wait(top[1])), Append(full, Wait(0)), <<>>}
      \/ batch = [full EXCEPT ![1].levels = FALSE]
  BY DEF Answers, full
<1> QED BY <1>4, <1>5, <1>6, <1>7, <1>8, <1>9

(***************************************************************************)
(* The ranking                                                             *)
(***************************************************************************)

\* Sort keys, the last of which tells any two members of S apart.
Separates(keys, S, n) ==
    /\ IsFiniteSet(S) /\ n \in Nat \ {0} /\ DOMAIN keys = 1 .. n
    /\ \A i \in 1 .. n : \A s \in S : keys[i][s] \in Int
    /\ \A a, b \in S : a # b => keys[n][a] # keys[n][b]

\* Above is then a strict linear order of S.
Linear(keys, S) ==
    /\ \A a \in S : ~Above(a, a, keys)
    /\ \A a, b, c \in S : Above(a, b, keys) /\ Above(b, c, keys) => Above(a, c, keys)
    /\ \A a, b \in S : a # b => Above(a, b, keys) \/ Above(b, a, keys)

LEMMA KeysOrder ==
  ASSUME NEW keys, NEW S, NEW n, Separates(keys, S, n)
  PROVE  Linear(keys, S)
<1> DEFINE First(a, b, i) == /\ i \in 1 .. n /\ keys[i][a] > keys[i][b]
                             /\ \A j \in 1 .. i - 1 : keys[j][a] = keys[j][b]
<1>0. \A a, b : Above(a, b, keys) <=> \E i : First(a, b, i)
  BY DEF Above, Separates
<1>1. n \in Nat \ {0} /\ \A i \in 1 .. n : \A s \in S : keys[i][s] \in Int
  BY DEF Separates
<1>2. \A a \in S : ~Above(a, a, keys)
  BY <1>0, <1>1
<1>3. ASSUME NEW a \in S, NEW b \in S, NEW c \in S, Above(a, b, keys), Above(b, c, keys)
      PROVE  Above(a, c, keys)
  <2>1. PICK i : First(a, b, i)
    BY <1>0, <1>3
  <2>2. PICK k : First(b, c, k)
    BY <1>0, <1>3
  <2>3. CASE i <= k
    <3>1. First(a, c, i)
      BY <1>1, <2>1, <2>2, <2>3
    <3> QED BY <3>1, <1>0
  <2>4. CASE k < i
    <3>1. First(a, c, k)
      BY <1>1, <2>1, <2>2, <2>4
    <3> QED BY <3>1, <1>0
  <2> QED BY <2>1, <2>2, <2>3, <2>4
<1>4. ASSUME NEW a \in S, NEW b \in S, a # b
      PROVE  Above(a, b, keys) \/ Above(b, a, keys)
  <2> DEFINE T == {i \in 1 .. n : keys[i][a] # keys[i][b]}
  <2>1. T \in SUBSET Nat /\ T # {}
    BY <1>1, <1>4 DEF Separates
  <2>2. PICK i \in T : \A j \in T : i <= j
    <3> HIDE DEF T
    <3> QED BY <2>1, LeastNat
  <2>3. i \in 1 .. n /\ keys[i][a] # keys[i][b] /\ keys[i][a] \in Int /\ keys[i][b] \in Int
    BY <2>2, <1>1
  <2>4. \A j \in 1 .. i - 1 : keys[j][a] = keys[j][b]
    BY <2>2, <2>3, <1>1
  <2>5. First(a, b, i) \/ First(b, a, i)
    BY <2>3, <2>4
  <2> QED BY <2>5, <1>0
<1> QED BY <1>2, <1>3, <1>4 DEF Linear

\* The members above s, and their number: the place of s.
Over(s, S, keys)  == {r \in S : Above(r, s, keys)}
Place(s, S, keys) == Cardinality(Over(s, S, keys))

\* Places order the members as Above does, and lie below the size of S.
LEMMA PlacesOrder ==
  ASSUME NEW keys, NEW S, IsFiniteSet(S), Linear(keys, S)
  PROVE  /\ Cardinality(S) \in Nat
         /\ \A s \in S : Place(s, S, keys) \in 0 .. Cardinality(S) - 1
         /\ \A a, b \in S : Above(a, b, keys) => Place(a, S, keys) < Place(b, S, keys)
<1>0. /\ \A a \in S : ~Above(a, a, keys)
      /\ \A a, b, c \in S : Above(a, b, keys) /\ Above(b, c, keys) => Above(a, c, keys)
  BY DEF Linear
<1>1. ASSUME NEW A \in SUBSET S, NEW s \in S \ A
      PROVE  /\ IsFiniteSet(A) /\ Cardinality(A) \in Nat /\ Cardinality(S) \in Nat
             /\ Cardinality(A) < Cardinality(S)
  <2>1. IsFiniteSet(A) /\ Cardinality(A) <= Cardinality(S) /\ (Cardinality(S) = Cardinality(A) => S = A)
    BY FS_Subset
  <2>2. Cardinality(A) \in Nat /\ Cardinality(S) \in Nat
    BY <2>1, FS_CardinalityType
  <2> QED BY <2>1, <2>2
<1>2. ASSUME NEW s \in S PROVE Place(s, S, keys) \in 0 .. Cardinality(S) - 1
  <2>1. Over(s, S, keys) \in SUBSET S /\ s \in S \ Over(s, S, keys)
    BY <1>0 DEF Over
  <2> QED BY <2>1, <1>1 DEF Place
<1>3. ASSUME NEW a \in S, NEW b \in S, Above(a, b, keys)
      PROVE  Place(a, S, keys) < Place(b, S, keys)
  <2> DEFINE A == Over(a, S, keys)
             B == Over(b, S, keys)
  <2>1. A \in SUBSET B /\ a \in B \ A /\ B \in SUBSET S
    BY <1>0, <1>3 DEF Over
  <2>2. IsFiniteSet(B)
    BY <2>1, FS_Subset
  <2>3. A # B
    BY <2>1
  <2>4. Cardinality(A) <= Cardinality(B) /\ Cardinality(A) # Cardinality(B)
    <3> HIDE DEF A, B
    <3> QED BY <2>1, <2>2, <2>3, FS_Subset
  <2>5. Cardinality(A) \in Nat /\ Cardinality(B) \in Nat
    <3>1. IsFiniteSet(A)
      <4> HIDE DEF A, B
      <4> QED BY <2>1, <2>2, FS_Subset
    <3> QED BY <2>2, <3>1, FS_CardinalityType
  <2> HIDE DEF A, B
  <2>6. Cardinality(A) < Cardinality(B)
    BY <2>4, <2>5
  <2> QED BY <2>6 DEF Place, A, B
<1>4. Cardinality(S) \in Nat
  BY FS_CardinalityType
<1> QED BY <1>2, <1>3, <1>4

\* What sorting returns: every member of S once, each above those after it.
Sorted(seq, S, keys) ==
    /\ Len(seq) = Cardinality(S) /\ seq \in [1 .. Cardinality(S) -> S]
    /\ \A s \in S : \E k \in 1 .. Cardinality(S) : seq[k] = s
    /\ \A i, k \in 1 .. Cardinality(S) : i < k => Above(seq[i], seq[k], keys)
    /\ \A i, k \in 1 .. Cardinality(S) : seq[i] = seq[k] => i = k

LEMMA SortedByIsSorted ==
  ASSUME NEW keys, NEW S, NEW n, Separates(keys, S, n)
  PROVE  /\ Cardinality(S) \in Nat
         /\ Sorted(SortedBy(S, keys), S, keys)
<1> DEFINE m == Cardinality(S)
           place == [s \in S |-> Place(s, S, keys)]
           seq == SortedBy(S, keys)
<1>1. IsFiniteSet(S) /\ Linear(keys, S)
  BY KeysOrder DEF Separates
<1>2. /\ m \in Nat
      /\ \A s \in S : Place(s, S, keys) \in 0 .. m - 1
      /\ \A a, b \in S : Above(a, b, keys) => Place(a, S, keys) < Place(b, S, keys)
  BY <1>1, PlacesOrder
<1>3. place \in [S -> 0 .. m - 1]
  BY <1>2
<1>4. \A a, b \in S : place[a] = place[b] => a = b
  <2> SUFFICES ASSUME NEW a \in S, NEW b \in S, a # b PROVE place[a] # place[b]
    OBVIOUS
  <2>1. Above(a, b, keys) \/ Above(b, a, keys)
    BY <1>1 DEF Linear
  <2>2. Place(a, S, keys) < Place(b, S, keys) \/ Place(b, S, keys) < Place(a, S, keys)
    BY <1>2, <2>1
  <2>3. Place(a, S, keys) \in Int /\ Place(b, S, keys) \in Int
    BY <1>2
  <2> QED BY <2>2, <2>3
<1>5. \A k \in 0 .. m - 1 : \E s \in S : place[s] = k
  <2>1. place \in Injection(S, 0 .. m - 1)
    BY <1>3, <1>4 DEF Injection, IsInjective
  <2>2. IsFiniteSet(0 .. m - 1) /\ Cardinality(0 .. m - 1) = m
    BY <1>2, FS_Interval
  <2> HIDE DEF place
  <2>3. place \in Surjection(S, 0 .. m - 1)
    BY <2>1, <2>2, FS_Injection
  <2> QED BY <2>3 DEF Surjection
<1>6. \A k \in 1 .. m : seq[k] \in S /\ Place(seq[k], S, keys) = k - 1
  <2> SUFFICES ASSUME NEW k \in 1 .. m
               PROVE  seq[k] \in S /\ Place(seq[k], S, keys) = k - 1
    OBVIOUS
  <2>1. \E s \in S : Place(s, S, keys) = k - 1
    <3>1. k - 1 \in 0 .. m - 1
      BY <1>2
    <3>2. PICK s \in S : place[s] = k - 1
      BY <3>1, <1>5
    <3> QED BY <3>2
  <2>2. seq[k] = CHOOSE s \in S : Place(s, S, keys) = k - 1
    BY DEF SortedBy, Place, Over
  <2> HIDE DEF seq
  <2> QED BY <2>1, <2>2
<1>7. seq \in [1 .. m -> S] /\ Len(seq) = m
  <2> DEFINE At(k) == CHOOSE s \in S : Cardinality({r \in S : Above(r, s, keys)}) = k - 1
  <2>1. seq = [k \in 1 .. m |-> At(k)]
    BY DEF SortedBy
  <2> HIDE DEF seq, At
  <2>2. seq \in [1 .. m -> S]
    BY <1>6, <2>1
  <2> HIDE DEF m
  <2> QED BY <1>2, <2>2
<1> HIDE DEF seq
<1>8. \A s \in S : \E k \in 1 .. m : seq[k] = s
  <2> SUFFICES ASSUME NEW s \in S PROVE \E k \in 1 .. m : seq[k] = s
    OBVIOUS
  <2>1. Place(s, S, keys) + 1 \in 1 .. m
    BY <1>2
  <2>2. Place(seq[Place(s, S, keys) + 1], S, keys) = Place(s, S, keys)
    BY <1>2, <1>6, <2>1
  <2>3. seq[Place(s, S, keys) + 1] = s
    BY <1>4, <1>6, <2>1, <2>2
  <2> QED BY <2>1, <2>3
<1>9. \A i, k \in 1 .. m : seq[i] = seq[k] => i = k
  BY <1>2, <1>6
<1>10. ASSUME NEW i \in 1 .. m, NEW k \in 1 .. m, i < k PROVE Above(seq[i], seq[k], keys)
  <2>1. seq[i] \in S /\ seq[k] \in S /\ seq[i] # seq[k]
    BY <1>6, <1>9, <1>10
  <2>2. Above(seq[i], seq[k], keys) \/ Above(seq[k], seq[i], keys)
    BY <1>1, <2>1 DEF Linear
  <2>3. ~(Place(seq[k], S, keys) < Place(seq[i], S, keys))
    BY <1>2, <1>6, <1>10
  <2> QED BY <1>2, <2>1, <2>2, <2>3
<1> HIDE DEF m
<1>11. Len(seq) = m /\ seq \in [1 .. m -> S]
  BY <1>7
<1> QED BY <1>2, <1>8, <1>9, <1>10, <1>11 DEF Sorted, m, seq

\* The first n of a sorted sequence: members once each, and none left out goes
\* before one that is in by the first key.
FirstSorted(seq, S, keys, n) ==
    /\ Len(seq) = Min({n, Cardinality(S)}) /\ seq \in Seq(S) /\ IsInjective(seq)
    /\ \A i, k \in DOMAIN seq : i <= k => keys[1][seq[i]] >= keys[1][seq[k]]
    /\ \A t \in Range(seq) : \A s \in S \ Range(seq) : keys[1][t] >= keys[1][s]

LEMMA FirstOfSorted ==
  ASSUME NEW keys, NEW S, NEW c, Separates(keys, S, c), NEW n \in Nat
  PROVE  FirstSorted(FirstOf(SortedBy(S, keys), n), S, keys, n)
<1> DEFINE all == SortedBy(S, keys)
           m == Cardinality(S)
           p == Min({n, m})
           seq == FirstOf(all, n)
<1>1. m \in Nat /\ Len(all) = m /\ all \in [1 .. m -> S] /\ Sorted(all, S, keys)
  <2>1. Cardinality(S) \in Nat /\ Sorted(SortedBy(S, keys), S, keys)
    BY SortedByIsSorted
  <2> QED BY <2>1 DEF Sorted
<1>2. /\ \A s \in S : \E k \in 1 .. m : all[k] = s
      /\ \A i, k \in 1 .. m : i < k => Above(all[i], all[k], keys)
      /\ \A i, k \in 1 .. m : all[i] = all[k] => i = k
  BY <1>1 DEF Sorted
<1>3. \A i, k \in 1 .. m : i <= k => keys[1][all[i]] >= keys[1][all[k]]
  <2> SUFFICES ASSUME NEW i \in 1 .. m, NEW k \in 1 .. m, i <= k
               PROVE  keys[1][all[i]] >= keys[1][all[k]]
    OBVIOUS
  <2>1. all[i] \in S /\ all[k] \in S
    BY <1>1
  <2>2. keys[1][all[i]] \in Int /\ keys[1][all[k]] \in Int /\ DOMAIN keys = 1 .. c /\ c \in Nat
    BY <2>1 DEF Separates
  <2>3. CASE i = k
    BY <2>2, <2>3
  <2>4. CASE i < k
    <3>1. Above(all[i], all[k], keys)
      BY <1>2, <2>4
    <3>2. PICK j \in 1 .. c : /\ keys[j][all[i]] > keys[j][all[k]]
                              /\ \A h \in 1 .. j - 1 : keys[h][all[i]] = keys[h][all[k]]
      BY <3>1, <2>2 DEF Above
    <3>3. j = 1 \/ 1 \in 1 .. j - 1
      BY <2>2
    <3> HIDE DEF all
    <3> QED BY <2>2, <3>2, <3>3
  <2>5. i < k \/ i = k
    BY <1>1
  <2> QED BY <2>3, <2>4, <2>5
<1>4. p \in Nat /\ p <= m /\ seq = [k \in 1 .. p |-> all[k]]
  <2>1. p = IF n <= m THEN n ELSE m
    BY <1>1, MinOfTwo
  <2>2. p \in Nat /\ p <= m
    <3> HIDE DEF m, p
    <3> QED BY <1>1, <2>1
  <2>3. seq = SubSeq(all, 1, p)
    BY <1>1 DEF FirstOf
  <2> HIDE DEF all, m, p, seq
  <2>4. SubSeq(all, 1, p) = [k \in 1 .. p |-> all[k]]
    BY <1>1, <2>2
  <2> QED BY <2>2, <2>3, <2>4
<1> HIDE DEF all, m, p, seq
<1>5. /\ \A k \in 1 .. p : k \in 1 .. m /\ seq[k] = all[k] /\ seq[k] \in S
      /\ DOMAIN seq = 1 .. p
  BY <1>1, <1>4
<1>6. seq \in Seq(S) /\ Len(seq) = p
  <2>1. seq \in [1 .. p -> S]
    BY <1>4, <1>5
  <2> QED BY <2>1, <1>4
<1>7. IsInjective(seq)
  BY <1>2, <1>5 DEF IsInjective
<1>8. \A i, k \in DOMAIN seq : i <= k => keys[1][seq[i]] >= keys[1][seq[k]]
  BY <1>3, <1>5
<1>9. ASSUME NEW t \in Range(seq), NEW s \in S \ Range(seq)
      PROVE  keys[1][t] >= keys[1][s]
  <2>1. PICK i \in 1 .. p : t = seq[i]
    BY <1>5 DEF Range
  <2>2. PICK k \in 1 .. m : all[k] = s
    BY <1>2
  <2>3. k \notin 1 .. p
    BY <1>5, <2>2 DEF Range
  <2>4. i <= k /\ i \in 1 .. m /\ t = all[i]
    BY <1>1, <1>4, <1>5, <2>1, <2>3
  <2> QED BY <1>3, <2>2, <2>4
<1> QED BY <1>6, <1>7, <1>8, <1>9 DEF FirstSorted, seq, all, p, m

\* Weights are not negative, and components are capped below by zero.
LEMMA ScoreType == ASSUME NEW x \in MarketRow PROVE Score(x) \in Nat
<1> DEFINE part == [c \in DOMAIN Weight |-> Weight[c] * Max({0, Min({10, x.component[c]})})]
<1>1. DOMAIN Weight = Components
  BY DEF Weight, Components
<1>2. ASSUME NEW c \in Components PROVE Weight[c] * Max({0, Min({10, x.component[c]})}) \in Nat
  <2> DEFINE v == x.component[c]
             low == Min({10, v})
             cap == Max({0, low})
  <2>1. v \in Int
    BY DEF MarketRow
  <2> HIDE DEF v
  <2>2. low \in Int
    BY <2>1, MinOfTwo
  <2> HIDE DEF low
  <2>3. cap \in Nat
    BY <2>2, MaxOfTwo
  <2>4. Weight[c] \in Nat
    BY DEF Weight, Components
  <2> HIDE DEF cap
  <2>5. Weight[c] * cap \in Nat
    BY <2>3, <2>4, TimesType
  <2> QED BY <2>5 DEF cap, low, v
<1>3. part \in [Components -> Nat]
  BY <1>1, <1>2
<1>4. IsFiniteSet(Components)
  <2>1. \A A, x0 : IsFiniteSet(A) => IsFiniteSet(A \cup {x0})
    BY FS_AddElement
  <2>2. Components = (((((((({"turnover"} \cup {"spread"}) \cup {"volume"}) \cup {"volatility"})
                     \cup {"momentum"}) \cup {"rsi"}) \cup {"macd"}) \cup {"atr"}) \cup {"trend"})
    BY DEF Components
  <2>3. IsFiniteSet({"turnover"})
    BY FS_Singleton
  <2> QED BY <2>1, <2>2, <2>3
<1>5. SumFunction(part) \in Nat
  <2> HIDE DEF part
  <2> QED BY <1>3, <1>4, SumType
<1>6. SumFunction(part) \div 10 \in Nat
  <2> HIDE DEF part
  <2> QED BY <1>5
<1> QED BY <1>6 DEF Score

\* What a listing gives for each market.
LEMMA ListingType ==
  ASSUME NEW listing \in Listings
  PROVE  /\ IsFiniteSet(DOMAIN listing) /\ DOMAIN listing \subseteq Int
         /\ \A s \in DOMAIN listing :
                /\ listing[s].spread \in Int /\ listing[s].turnover \in Int
                /\ Scores[listing][s] \in Nat
<1>1. listing \in [DOMAIN listing -> MarketRow]
  BY ListingAssumption
<1>2. \A s \in DOMAIN listing : listing[s] \in MarketRow
  BY <1>1
<1>3. \A s \in DOMAIN listing : Scores[listing][s] = Score(listing[s])
  BY DEF Scores
<1>4. \A s \in DOMAIN listing : Scores[listing][s] \in Nat
  BY <1>2, <1>3, ScoreType
<1>5. \A s \in DOMAIN listing : listing[s].spread \in Int /\ listing[s].turnover \in Int
  BY <1>2 DEF MarketRow
<1> QED BY <1>4, <1>5, ListingAssumption

\* The markets that may be ranked.
EligibleMarkets(listing) == {s \in DOMAIN listing \ Core : EligibleMarket(listing[s])}

\* The shortlist: eligible markets outside the core, as many as there are up to the
\* limit, and none left out has a higher turnover (_eligible_market and the sort of
\* cycle).
THEOREM ShortlistIsBest ==
  ASSUME NEW listing \in Listings
  PROVE  /\ Short(listing) \subseteq EligibleMarkets(listing)
         /\ Cardinality(Short(listing)) = Min({Shortlist, Cardinality(EligibleMarkets(listing))})
         /\ \A t \in Short(listing) : \A s \in EligibleMarkets(listing) \ Short(listing) :
                listing[t].turnover >= listing[s].turnover
<1> DEFINE S == EligibleMarkets(listing)
           keys == << [s \in S |-> listing[s].turnover], [s \in S |-> 0 - s] >>
           seq == FirstOf(SortedBy(S, keys), Shortlist)
<1>1. S \subseteq DOMAIN listing
  BY DEF EligibleMarkets
<1>2. IsFiniteSet(S) /\ S \subseteq Int /\ \A s \in S : listing[s].turnover \in Int
  BY <1>1, ListingType, FS_Subset
<1> HIDE DEF S
<1>3. Separates(keys, S, 2)
  <2>1. DOMAIN keys = 1 .. 2
    OBVIOUS
  <2>2. \A s \in S : keys[1][s] = listing[s].turnover /\ keys[2][s] = 0 - s
    OBVIOUS
  <2> HIDE DEF keys
  <2>3. \A i \in 1 .. 2 : \A s \in S : keys[i][s] \in Int
    BY <1>2, <2>2
  <2>4. \A a, b \in S : a # b => keys[2][a] # keys[2][b]
    BY <1>2, <2>2
  <2> QED BY <1>2, <2>1, <2>3, <2>4 DEF Separates
<1>4. \A s \in S : keys[1][s] = listing[s].turnover
  OBVIOUS
<1>5. Short(listing) = Range(seq)
  BY DEF Short, S, EligibleMarkets
<1> HIDE DEF keys
<1>6. FirstSorted(seq, S, keys, Shortlist)
  BY <1>3, FirstOfSorted, LengthAssumption
<1> HIDE DEF seq
<1>7. /\ seq \in Seq(S) /\ IsInjective(seq) /\ Len(seq) = Min({Shortlist, Cardinality(S)})
      /\ \A t \in Range(seq) : \A s \in S \ Range(seq) : keys[1][t] >= keys[1][s]
  BY <1>6 DEF FirstSorted
<1>8. Range(seq) \subseteq S
  BY <1>7 DEF Range
<1>9. Cardinality(Range(seq)) = Len(seq)
  <2>0. Len(seq) \in Nat /\ seq \in [1 .. Len(seq) -> S] /\ DOMAIN seq = 1 .. Len(seq)
    <3>1. seq \in Seq(S)
      BY <1>7
    <3>2. Len(seq) \in Nat /\ DOMAIN seq = 1 .. Len(seq)
      BY <3>1
    <3>3. seq \in [1 .. Len(seq) -> S]
      BY <3>1
    <3> QED BY <3>2, <3>3
  <2>1. seq \in [1 .. Len(seq) -> Range(seq)]
    BY <2>0 DEF Range
  <2>2. \A t \in Range(seq) : \E i \in 1 .. Len(seq) : seq[i] = t
    BY <2>0 DEF Range
  <2>3. seq \in Bijection(1 .. Len(seq), Range(seq))
    BY <1>7, <2>0, <2>1, <2>2 DEF Bijection, Injection, Surjection, IsInjective
  <2>4. IsFiniteSet(1 .. Len(seq)) /\ Cardinality(1 .. Len(seq)) = Len(seq)
    BY <2>0, FS_Interval
  <2>5. ExistsBijection(1 .. Len(seq), Range(seq))
    BY <2>3 DEF ExistsBijection
  <2> QED BY <2>4, <2>5, FS_Bijection
<1>10. Short(listing) \subseteq S
  BY <1>5, <1>8
<1>11. Cardinality(Short(listing)) = Min({Shortlist, Cardinality(S)})
  BY <1>5, <1>7, <1>9
<1>12. \A t \in Short(listing) : \A s \in S \ Short(listing) :
           listing[t].turnover >= listing[s].turnover
  BY <1>4, <1>5, <1>7, <1>8
<1> QED BY <1>10, <1>11, <1>12 DEF S

\* The candidates of a scan: each market once, best score first, as many as there are
\* up to the limit, and none left out scores higher; their total is not negative
\* (the ranking and aggregate_score of cycle).
THEOREM CandidatesAreBest ==
  ASSUME NEW listing \in Listings, NEW S \in SUBSET Short(listing)
  PROVE  LET top == Candidates(listing, S)
             score == Scores[listing]
         IN  /\ top \in Seq(S) /\ IsInjective(top) /\ Len(top) = Min({Top, Cardinality(S)})
             /\ \A i, k \in DOMAIN top : i <= k => score[top[i]] >= score[top[k]]
             /\ \A t \in Range(top) : \A s \in S \ Range(top) : score[t] >= score[s]
             /\ Total(listing, top) \in Nat
<1> DEFINE score == Scores[listing]
           keys == << score, [s \in S |-> 0 - listing[s].spread],
                      [s \in S |-> listing[s].turnover], [s \in S |-> 0 - s] >>
           top == FirstOf(SortedBy(S, keys), Top)
<1>1. S \subseteq DOMAIN listing
  BY ShortlistIsBest DEF EligibleMarkets
<1>2. /\ IsFiniteSet(S) /\ S \subseteq Int
      /\ \A s \in S : /\ listing[s].spread \in Int /\ listing[s].turnover \in Int
                      /\ score[s] \in Nat
  BY <1>1, ListingType, FS_Subset
<1>3. top = Candidates(listing, S)
  BY DEF Candidates
<1> HIDE DEF score
<1>4. Separates(keys, S, 4)
  <2>1. DOMAIN keys = 1 .. 4
    OBVIOUS
  <2>2. \A s \in S : /\ keys[1][s] = score[s] /\ keys[2][s] = 0 - listing[s].spread
                     /\ keys[3][s] = listing[s].turnover /\ keys[4][s] = 0 - s
    OBVIOUS
  <2> HIDE DEF keys
  <2>3. ASSUME NEW s \in S
        PROVE  /\ keys[1][s] \in Int /\ keys[2][s] \in Int
               /\ keys[3][s] \in Int /\ keys[4][s] \in Int
    <3>1. /\ listing[s].spread \in Int /\ listing[s].turnover \in Int
          /\ score[s] \in Nat /\ s \in Int
      BY <1>2
    <3>2. /\ keys[1][s] = score[s] /\ keys[2][s] = 0 - listing[s].spread
          /\ keys[3][s] = listing[s].turnover /\ keys[4][s] = 0 - s
      BY <2>2
    <3> QED BY <3>1, <3>2
  <2>4. \A i \in 1 .. 4 : \A s \in S : keys[i][s] \in Int
    BY <2>3
  <2>5. ASSUME NEW a \in S, NEW b \in S, a # b PROVE keys[4][a] # keys[4][b]
    <3>1. keys[4][a] = 0 - a /\ keys[4][b] = 0 - b /\ a \in Int /\ b \in Int
      BY <1>2, <2>2
    <3> QED BY <2>5, <3>1
  <2> QED BY <1>2, <2>1, <2>4, <2>5 DEF Separates
<1>5. keys[1] = score
  OBVIOUS
<1> HIDE DEF keys
<1>6. FirstSorted(top, S, keys, Top)
  BY <1>4, FirstOfSorted, LengthAssumption
<1> HIDE DEF top
<1>7. /\ top \in Seq(S) /\ IsInjective(top) /\ Len(top) = Min({Top, Cardinality(S)})
      /\ \A i, k \in DOMAIN top : i <= k => score[top[i]] >= score[top[k]]
      /\ \A t \in Range(top) : \A s \in S \ Range(top) : score[t] >= score[s]
  BY <1>5, <1>6 DEF FirstSorted
<1>8. Total(listing, top) \in Nat
  <2> DEFINE f == [s \in Range(top) |-> score[s]]
  <2>1. Range(top) \subseteq S
    BY <1>7 DEF Range
  <2>2. IsFiniteSet(Range(top))
    BY <1>2, <2>1, FS_Subset
  <2>3. f \in [Range(top) -> Nat]
    BY <1>2, <2>1
  <2>4. SumFunction(f) \in Nat
    <3> HIDE DEF f
    <3> QED BY <2>2, <2>3, SumType
  <2> QED BY <2>4 DEF Total, score
<1> QED BY <1>3, <1>7, <1>8 DEF score

(***************************************************************************)
(* The actions                                                             *)
(***************************************************************************)

LEMMA StartStep ==
  ASSUME DiscoveryInv, Start
  PROVE  DiscoveryInv'
<1>1. now' = now /\ now \in Nat /\ posts' = posts /\ task' = Idle /\ task'.pc = "IDLE"
  BY LengthAssumption DEF Start, DiscoveryInv, Typed, Idle
<1>2. CASE row = NoRow
  <2>1. row' = FreshRow /\ posts = <<>>
    BY <1>2 DEF Start, Initialized, DiscoveryInv, Typed
  <2>2. FreshRow \in RuntimeRow
    BY DEF FreshRow, RuntimeRow, Never
  <2>3. Typed'
    BY <1>1, <2>1, <2>2, NoRowIsNone DEF Start, DiscoveryInv, Typed, TaskTyped
  <2>4. RowDated'
    BY <1>1, <2>1, DayOrder DEF RowDated, FreshRow, Never
  <2>5. LastClaimCovers' /\ DaysGoOn' /\ GateIsDurable'
    BY <1>1, <2>1 DEF LastClaimCovers, DaysGoOn, GateIsDurable
  <2>6. RequestsCounted' /\ ReceivedByNow' /\ CrossedIsFirst'
    <3>1. posts' = <<>> /\ DOMAIN posts' = {}
      BY <1>1, <2>1
    <3>2. row'.calls = 0
      BY <2>1 DEF FreshRow
    <3>3. OfDay(row.day)' = {}
      BY <3>1 DEF OfDay
    <3> QED BY <3>1, <3>2, <3>3, FS_EmptySet DEF RequestsCounted, ReceivedByNow, CrossedIsFirst
  <2> QED BY <1>1, <2>3, <2>4, <2>5, <2>6, NothingInHand DEF DiscoveryInv, RowInv
<1>3. CASE row # NoRow
  <2>1. row \in RuntimeRow /\ row' = [row EXCEPT !.status = "RUNNING"]
    BY <1>3 DEF Start, Initialized, DiscoveryInv, Typed
  <2>2. /\ row' \in RuntimeRow /\ row'.slot = row.slot /\ row'.calledAt = row.calledAt
        /\ row'.score = row.score /\ row'.signature = row.signature
        /\ row'.day = row.day /\ row'.calls = row.calls
    BY <2>1 DEF RuntimeRow
  <2>3. Typed'
    BY <1>1, <2>2, NoRowIsNone DEF Start, DiscoveryInv, Typed, TaskTyped
  <2>4. RowInv'
    BY <1>1, <1>3, <2>2, RowInvKept DEF DiscoveryInv, RowInv, RowDated
  <2> QED BY <1>1, <2>3, <2>4, NothingInHand DEF DiscoveryInv
<1> QED BY <1>2, <1>3

\* The row and its claim stay, whatever else is written in it.
LEMMA RowWritten ==
  ASSUME DiscoveryInv, row # NoRow, now' = now, posts' = posts, row' \in RuntimeRow,
         row'.slot <= now, row'.calledAt = row.calledAt, row'.score = row.score,
         row'.signature = row.signature, row'.day = row.day, row'.calls = row.calls
  PROVE  RowInv' /\ row' # NoRow
<1>1. now \in Nat /\ Typed /\ RowInv
  BY LengthAssumption DEF DiscoveryInv, Typed
<1> QED BY <1>1, RowInvKept, NoRowIsNone

LEMMA ClaimLocalSlotStep ==
  ASSUME DiscoveryInv, ClaimLocalSlot
  PROVE  DiscoveryInv'
<1>1. /\ row # NoRow /\ row \in RuntimeRow /\ now' = now /\ posts' = posts /\ restarts' = restarts
      /\ row' = [row EXCEPT !.slot = SlotOf(now)] /\ task' = [pc |-> "LISTING", started |-> now]
      /\ now \in Nat
  BY LengthAssumption DEF ClaimLocalSlot, DiscoveryInv, Typed
<1>2. SlotOf(now) \in Int /\ SlotOf(now) <= now
  BY <1>1, SlotIsPast
<1>3. /\ row' \in RuntimeRow /\ row'.slot <= now /\ row'.calledAt = row.calledAt
      /\ row'.score = row.score /\ row'.signature = row.signature
      /\ row'.day = row.day /\ row'.calls = row.calls
  BY <1>1, <1>2 DEF RuntimeRow
<1>4. RowInv' /\ row' # NoRow
  BY <1>1, <1>3, RowWritten
<1>5. task' \in Listing /\ task'.pc = "LISTING"
  BY <1>1 DEF Listing
<1>6. Typed'
  BY <1>1, <1>3, <1>4, <1>5 DEF DiscoveryInv, Typed, TaskTyped
<1> QED BY <1>4, <1>5, <1>6, NothingInHand DEF DiscoveryInv

\* Nothing but the task moves.
LEMMA TaskMoves ==
  ASSUME DiscoveryInv, row # NoRow, UNCHANGED <<now, row, posts, restarts>>, TaskTyped'
  PROVE  Typed' /\ RowInv'
<1>1. Typed'
  BY DEF DiscoveryInv, Typed
<1>2. now \in Nat /\ row.slot <= now
  BY LengthAssumption DEF DiscoveryInv, Typed, RowInv, RowDated
<1> QED BY <1>1, <1>2, RowInvKept DEF DiscoveryInv

LEMMA ReadListingStep ==
  ASSUME DiscoveryInv, ReadListing
  PROVE  DiscoveryInv'
<1>1. task \in Listing /\ row # NoRow
  BY TaskAt DEF ReadListing, DiscoveryInv, Typed
<1>2. CASE Fails
  BY <1>2, TaskGivesUp DEF ReadListing
<1>3. ASSUME NEW listing \in Listings,
             task' = [pc |-> "TECHNICAL", started |-> task.started,
                      listing |-> listing, short |-> Short(listing)]
      PROVE  DiscoveryInv'
  <2>1. task' \in Technical /\ task'.pc = "TECHNICAL"
    BY <1>1, <1>3 DEF Technical, Listing
  <2>2. TaskTyped'
    BY <2>1 DEF TaskTyped
  <2> QED BY <1>1, <2>1, <2>2, TaskMoves, NothingInHand DEF ReadListing, DiscoveryInv
<1> QED BY <1>2, <1>3, <1>1 DEF ReadListing

LEMMA RankShortlistStep ==
  ASSUME DiscoveryInv, RankShortlist
  PROVE  DiscoveryInv'
<1>1. task \in Technical /\ row # NoRow
  BY TaskAt DEF RankShortlist, DiscoveryInv, Typed
<1>2. CASE Fails
  BY <1>2, TaskGivesUp DEF RankShortlist
<1>3. ASSUME NEW S \in SUBSET task.short,
             task' = [pc |-> "SAVE", at |-> now, top |-> Candidates(task.listing, S),
                      score |-> Total(task.listing, Candidates(task.listing, S))]
      PROVE  DiscoveryInv'
  <2> DEFINE l     == task.listing
             top   == Candidates(l, S)
             score == Total(l, top)
  <2>1. l \in Listings /\ S \in SUBSET Short(l)
    BY <1>1 DEF Technical
  <2> HIDE DEF l
  <2>2. top \in Seq(DOMAIN l) /\ IsInjective(top) /\ score \in Nat
    <3>1. top \in Seq(S) /\ IsInjective(top) /\ score \in Nat
      BY <2>1, CandidatesAreBest
    <3>2. S \subseteq DOMAIN l
      BY <2>1, ShortlistIsBest DEF EligibleMarkets
    <3> HIDE DEF top
    <3> QED BY <3>1, <3>2
  <2>3. Seq(DOMAIN l) \subseteq Seq(Listed)
    <3>1. DOMAIN l \subseteq Listed
      BY <2>1 DEF Listed
    <3> QED BY <3>1
  <2>4. task' = [pc |-> "SAVE", at |-> now, top |-> top, score |-> score]
    BY <1>3 DEF l
  <2> HIDE DEF top, score
  <2>5. now \in Nat /\ now' = now /\ row' = row /\ row.calledAt <= now
    BY <1>1, LengthAssumption DEF RankShortlist, DiscoveryInv, Typed, RowInv, RowDated
  <2>6. task' \in Scanned /\ task'.pc = "SAVE" /\ task'.at = now /\ task'.top = top
    BY <2>2, <2>3, <2>4, <2>5 DEF Scanned
  <2>7. TaskTyped'
    BY <2>6 DEF TaskTyped
  <2>8. Typed' /\ RowInv'
    BY <1>1, <2>7, TaskMoves DEF RankShortlist
  <2>9. TaskInv'
    BY <2>2, <2>5, <2>6 DEF TaskInv, ScanIsNewer, ClaimInHand, PostIsCounted, BatchAnswers
  <2> QED BY <2>8, <2>9 DEF DiscoveryInv
<1> QED BY <1>2, <1>3 DEF RankShortlist

LEMMA SaveLocalStep ==
  ASSUME DiscoveryInv, SaveLocal
  PROVE  DiscoveryInv'
<1>1. /\ task \in Scanned /\ row \in RuntimeRow /\ row # NoRow /\ row.slot <= now
      /\ now' = now /\ posts' = posts /\ restarts' = restarts
  BY TaskAt DEF SaveLocal, DiscoveryInv, Typed, RowInv, RowDated
<1>2. /\ row' \in RuntimeRow /\ row'.slot = row.slot /\ row'.calledAt = row.calledAt
      /\ row'.score = row.score /\ row'.signature = row.signature
      /\ row'.day = row.day /\ row'.calls = row.calls
  BY <1>1 DEF SaveLocal, RuntimeRow, Scanned
<1>3. RowInv' /\ row' # NoRow
  BY <1>1, <1>2, RowWritten
<1>4. task' \in Scanned /\ task'.pc = "CLAIM" /\ task'.at = task.at /\ task'.top = task.top
  BY <1>1 DEF SaveLocal, Scanned
<1>5. Typed'
  BY <1>1, <1>2, <1>3, <1>4 DEF DiscoveryInv, Typed, TaskTyped
<1>6. TaskInv'
  BY <1>1, <1>2, <1>4 DEF SaveLocal, DiscoveryInv, TaskInv, ScanIsNewer, ClaimInHand,
                          PostIsCounted, BatchAnswers
<1> QED BY <1>3, <1>5, <1>6 DEF DiscoveryInv

\* A claim that passes the gate passes it against every earlier request.
LEMMA ClaimHermesStep ==
  ASSUME DiscoveryInv, ClaimHermes
  PROVE  DiscoveryInv'
<1>1. /\ task \in Scanned /\ task.pc = "CLAIM" /\ row \in RuntimeRow /\ row # NoRow
      /\ row.slot <= now /\ now' = now /\ posts' = posts /\ restarts' = restarts
      /\ now \in Nat
  BY TaskAt, LengthAssumption DEF ClaimHermes, DiscoveryInv, Typed, RowInv, RowDated
<1>2. CASE ~HermesFree(task)
  <2>1. row' = row /\ task' = Idle /\ task'.pc = "IDLE"
    BY <1>2 DEF ClaimHermes, Idle
  <2>2. TaskTyped'
    BY <2>1 DEF TaskTyped
  <2> QED BY <1>1, <2>1, <2>2, TaskMoves, NothingInHand DEF DiscoveryInv
<1>3. CASE HermesFree(task)
  <2>1. /\ row' = [row EXCEPT !.calledAt = task.at, !.signature = task.top,
                              !.score = task.score]
        /\ task' = [pc |-> "OBSERVE", at |-> task.at, top |-> task.top,
                    score |-> task.score, attempt |-> 0]
    BY <1>3 DEF ClaimHermes
  <2>2. /\ task.at \in Nat /\ task.score \in Nat /\ task.top \in Seq(Listed)
        /\ row.calledAt \in Int /\ row.score \in Int /\ row.day \in Int
    BY <1>1 DEF Scanned, RuntimeRow
  <2>3. /\ row' \in RuntimeRow /\ row'.slot = row.slot /\ row'.calledAt = task.at
        /\ row'.score = task.score /\ row'.signature = task.top
        /\ row'.day = row.day /\ row'.calls = row.calls
    <3> DEFINE when    == task.at
               sig   == task.top
               score == task.score
    <3>1. row' = [row EXCEPT !.calledAt = when, !.signature = sig, !.score = score]
      BY <2>1
    <3>2. when \in Nat /\ score \in Nat /\ sig \in Seq(Listed) /\ row \in RuntimeRow
      BY <1>1, <2>2
    <3> HIDE DEF when, sig, score
    <3>3. row' \in RuntimeRow
      <4> DEFINE r1 == [row EXCEPT !.calledAt = when]
                 r2 == [r1 EXCEPT !.signature = sig]
      <4>1. row' = [r2 EXCEPT !.score = score]
        BY <3>1
      <4>2. r1 \in RuntimeRow
        <5>1. row \in RuntimeRow /\ when \in Int
          BY <3>2
        <5> QED BY <5>1, ClaimWritten
      <4> HIDE DEF r1
      <4>3. r2 \in RuntimeRow
        BY <3>2, <4>2, SignatureWritten
      <4> HIDE DEF r2
      <4>4. score \in Int
        BY <3>2
      <4> QED BY <4>1, <4>3, <4>4, FieldWritten
    <3>4. /\ row'.slot = row.slot /\ row'.calledAt = when /\ row'.score = score
          /\ row'.signature = sig /\ row'.day = row.day /\ row'.calls = row.calls
      BY <3>1, <3>2 DEF RuntimeRow
    <3> QED BY <3>3, <3>4 DEF when, sig, score
  <2>4. /\ task' \in Claiming /\ task'.pc = "OBSERVE" /\ task'.at = task.at
        /\ task'.top = task.top /\ task'.score = task.score
    BY <2>1, <2>2 DEF Claiming
  <2>5. /\ row.calledAt <= task.at /\ task.at <= now /\ IsInjective(task.top)
        /\ Len(task.top) = Top
    BY <1>1, <1>3 DEF DiscoveryInv, TaskInv, ScanIsNewer, HermesFree
  <2>6. Typed'
    BY <1>1, <2>3, <2>4, NoRowIsNone DEF DiscoveryInv, Typed, TaskTyped
  <2>7. TaskInv'
    BY <2>3, <2>4, <2>5 DEF TaskInv, ScanIsNewer, ClaimInHand, PostIsCounted, BatchAnswers
  <2>8. RowDated'
    BY <1>1, <2>2, <2>3, <2>5 DEF DiscoveryInv, RowInv, RowDated, Never
  <2>9. ASSUME NEW i \in DOMAIN posts
        PROVE  /\ posts[i].at <= task.at
               /\ task.at - posts[i].at < MinInterval =>
                     IF posts[i].at = task.at THEN posts[i].score <= task.score
                     ELSE task.score * 5 >= posts[i].score * 6
    <3> DEFINE a == posts[i].at
               s == posts[i].score
    <3>1. a \in Nat /\ s \in Nat
      <4>1. posts[i] \in PostedCall
        BY <2>9 DEF DiscoveryInv, Typed
      <4> QED BY <4>1 DEF PostedCall
    <3>2. /\ a <= row.calledAt
          /\ row.calledAt - a < MinInterval =>
                IF a = row.calledAt THEN s <= row.score ELSE row.score * 5 >= s * 6
      BY <1>1, <2>9 DEF DiscoveryInv, RowInv, LastClaimCovers
    <3>3. \/ row.calledAt = Never \/ task.at - row.calledAt >= MinInterval
          \/ task.score * 5 >= row.score * 6
      BY <1>3 DEF HermesFree, StrongEvent
    <3>4. row.calledAt # Never => row.score >= 0
      BY <1>1 DEF DiscoveryInv, RowInv, RowDated
    <3> DEFINE c == row.calledAt
               t == task.at
               last == row.score
               new == task.score
    <3>5. /\ c \in Int /\ t \in Nat /\ last \in Int /\ new \in Nat /\ c <= t
          /\ MinInterval \in Nat
      BY <2>2, <2>5, LengthAssumption
    <3> HIDE DEF a, s, c, t, last, new
    <3>6. c # Never
      BY <3>1, <3>2, <3>5 DEF Never, c
    <3>7. a <= t /\ last >= 0
      BY <3>1, <3>2, <3>4, <3>5, <3>6 DEF c, last
    <3>8. ASSUME t - a < MinInterval
          PROVE  IF a = t THEN s <= new ELSE new * 5 >= s * 6
      <4>1. c - a < MinInterval /\ a <= c
        BY <3>1, <3>2, <3>5, <3>8 DEF c
      <4>2. IF a = c THEN s <= last ELSE last * 5 >= s * 6
        BY <3>2, <4>1 DEF c, last
      <4>3. new * 5 >= last * 6
        <5>1. ~(t - c >= MinInterval)
          BY <3>1, <3>5, <3>8, <4>1
        <5> QED BY <3>3, <3>6, <5>1 DEF c, t, last, new
      <4> QED BY <3>1, <3>5, <3>7, <4>1, <4>2, <4>3
    <3> QED BY <3>7, <3>8 DEF a, s, t, new
  <2>10. LastClaimCovers'
    BY <1>1, <2>3, <2>9 DEF LastClaimCovers
  <2>11. DaysGoOn' /\ GateIsDurable' /\ RequestsCounted' /\ ReceivedByNow' /\ CrossedIsFirst'
    BY <1>1, <2>3 DEF DiscoveryInv, RowInv, DaysGoOn, GateIsDurable, RequestsCounted, OfDay,
                      ReceivedByNow, CrossedIsFirst, Crossed
  <2> QED BY <2>6, <2>7, <2>8, <2>10, <2>11 DEF DiscoveryInv, RowInv
<1> QED BY <1>2, <1>3

LEMMA ObserveStep ==
  ASSUME DiscoveryInv, Observe
  PROVE  DiscoveryInv'
<1>1. /\ task \in Claiming /\ task.pc = "OBSERVE" /\ row \in RuntimeRow /\ row # NoRow
      /\ row.slot <= now /\ now' = now /\ posts' = posts /\ restarts' = restarts
      /\ now \in Nat
  BY TaskAt, LengthAssumption DEF Observe, DiscoveryInv, Typed, RowInv, RowDated
<1>2. CASE Fails /\ UNCHANGED row
  BY <1>1, <1>2, TaskGivesUp
<1>3. CASE /\ task' = [pc |-> "POST", at |-> task.at, top |-> task.top,
                        score |-> task.score, attempt |-> task.attempt, day |-> UtcDay(now)]
           /\ row' = Counted
  <2> DEFINE d == UtcDay(now)
             n == IF row.day = d THEN row.calls + 1 ELSE 1
  <2>1. d \in Nat /\ row.day \in Int /\ row.calls \in Nat /\ n \in Nat /\ row.day <= d
    <3>1. d \in Nat /\ row.day <= d
      BY <1>1, DayOrder DEF DiscoveryInv, RowInv, RowDated
    <3>2. row.day \in Int /\ row.calls \in Nat
      BY <1>1 DEF RuntimeRow
    <3> QED BY <3>1, <3>2
  <2>2. row' = [row EXCEPT !.day = d, !.calls = n]
    BY <1>1, <1>3 DEF Counted, RuntimeRow
  <2>3. task' = [pc |-> "POST", at |-> task.at, top |-> task.top,
                 score |-> task.score, attempt |-> task.attempt, day |-> d]
    BY <1>3
  <2>4. n = IF row.day = d THEN row.calls + 1 ELSE 1
    OBVIOUS
  <2>5. d <= UtcDay(now')
    BY <1>1, <2>1
  <2> HIDE DEF d, n
  <2>6. row' \in RuntimeRow
    <3> DEFINE r1 == [row EXCEPT !.day = d]
    <3>1. row' = [r1 EXCEPT !.calls = n]
      BY <2>2
    <3>2. r1 \in RuntimeRow
      <4>1. row \in RuntimeRow /\ d \in Int
        BY <1>1, <2>1
      <4> QED BY <4>1, FieldWritten
    <3> HIDE DEF r1
    <3> QED BY <2>1, <3>1, <3>2, FieldWritten
  <2>7. /\ row'.slot = row.slot /\ row'.calledAt = row.calledAt /\ row'.score = row.score
        /\ row'.signature = row.signature /\ row'.day = d /\ row'.calls = n
    BY <1>1, <2>2 DEF RuntimeRow
  <2>8. /\ task' \in Calling /\ task'.pc = "POST" /\ task'.at = task.at
        /\ task'.top = task.top /\ task'.score = task.score /\ task'.day = d
    BY <1>1, <2>1, <2>3 DEF Calling, Claiming
  <2>9. Typed'
    BY <1>1, <2>6, <2>8, NoRowIsNone DEF DiscoveryInv, Typed, TaskTyped
  <2>10. RowDated' /\ LastClaimCovers' /\ GateIsDurable'
    BY <1>1, <2>5, <2>7 DEF DiscoveryInv, RowInv, RowDated, LastClaimCovers, GateIsDurable
  <2>11. DaysGoOn' /\ Cardinality(OfDay(d)) + 1 <= n
    <3>1. CASE row.day = d
      <4>1. Cardinality(OfDay(d)) <= row.calls
        BY <1>1, <3>1 DEF DiscoveryInv, RowInv, RequestsCounted
      <4>2. Cardinality(OfDay(d)) \in Nat
        BY OfDayCounted DEF DiscoveryInv
      <4>3. DaysGoOn'
        BY <1>1, <2>7, <3>1 DEF DiscoveryInv, RowInv, DaysGoOn
      <4> QED BY <2>1, <2>4, <3>1, <4>1, <4>2, <4>3
    <3>2. CASE row.day # d
      <4>1. \A i \in DOMAIN posts : posts[i].day < d
        <5>1. ASSUME NEW i \in DOMAIN posts PROVE posts[i].day \in Int
          <6>1. posts[i] \in PostedCall
            BY <5>1 DEF DiscoveryInv, Typed
          <6> QED BY <6>1 DEF PostedCall
        <5>2. \A i \in DOMAIN posts : posts[i].day <= row.day
          BY <1>1 DEF DiscoveryInv, RowInv, DaysGoOn
        <5> QED BY <2>1, <3>2, <5>1, <5>2
      <4>2. OfDay(d) = {}
        BY <2>1, <4>1 DEF OfDay
      <4>3. DaysGoOn'
        <5>1. ASSUME NEW i \in DOMAIN posts PROVE posts[i].day \in Int
          <6>1. posts[i] \in PostedCall
            BY <5>1 DEF DiscoveryInv, Typed
          <6> QED BY <6>1 DEF PostedCall
        <5> QED BY <1>1, <2>1, <2>7, <4>1, <5>1 DEF DaysGoOn
      <4> QED BY <2>4, <3>2, <4>2, <4>3, FS_EmptySet
    <3> QED BY <3>1, <3>2
  <2>12. OfDay(d)' = OfDay(d) /\ Cardinality(OfDay(d)) \in Nat
    BY <1>1, OfDayCounted DEF OfDay, DiscoveryInv, d
  <2>13. RequestsCounted' /\ ReceivedByNow' /\ CrossedIsFirst'
    <3>1. OfDay(row.day)' = OfDay(d)
      BY <1>1, <2>7 DEF OfDay
    <3>2. Cardinality(OfDay(d)) <= n
      BY <2>1, <2>11, <2>12
    <3>3. RequestsCounted'
      BY <2>7, <3>1, <3>2 DEF RequestsCounted
    <3>4. ReceivedByNow' /\ CrossedIsFirst'
      BY <1>1 DEF DiscoveryInv, RowInv, ReceivedByNow, CrossedIsFirst, Crossed
    <3> QED BY <3>3, <3>4
  <2>14. PostIsCounted'
    <3>1. OfDay(row.day)' = OfDay(d)
      BY <1>1, <2>7 DEF OfDay
    <3>2. \A i \in DOMAIN posts : posts[i].received <= d
      BY DEF DiscoveryInv, RowInv, ReceivedByNow, d
    <3> QED BY <1>1, <2>7, <2>8, <2>11, <3>1, <3>2 DEF PostIsCounted
  <2>15. ScanIsNewer' /\ ClaimInHand' /\ BatchAnswers'
    BY <1>1, <2>7, <2>8 DEF DiscoveryInv, TaskInv, ScanIsNewer, ClaimInHand, BatchAnswers
  <2> QED BY <2>9, <2>10, <2>11, <2>13, <2>14, <2>15 DEF DiscoveryInv, RowInv, TaskInv
<1> QED BY <1>2, <1>3 DEF Observe

\* The request that is sent passes the gate, because its claim did, and has
\* been counted already.
LEMMA PostStep ==
  ASSUME DiscoveryInv, Post
  PROVE  DiscoveryInv'
<1> DEFINE n    == Len(posts)
           call == [at |-> task.at, top |-> task.top, score |-> task.score, day |-> task.day,
                    received |-> UtcDay(now)]
<1>1. /\ task \in Calling /\ task.pc = "POST" /\ row \in RuntimeRow /\ row # NoRow
      /\ now' = now /\ row' = row /\ restarts' = restarts /\ posts' = Append(posts, call)
  BY TaskAt DEF Post, DiscoveryInv, Typed
<1> DEFINE today == UtcDay(now)
<1>a. now \in Nat /\ today \in Nat
  <2>1. now \in Nat
    BY LengthAssumption DEF DiscoveryInv, Typed
  <2> QED BY <2>1, DayOrder
<1>b. call = [at |-> task.at, top |-> task.top, score |-> task.score, day |-> task.day,
              received |-> today]
  OBVIOUS
<1> HIDE DEF call, today
<1>2. /\ call \in PostedCall /\ call.at = task.at /\ call.score = task.score
      /\ call.day = task.day /\ call.received = today
  BY <1>1, <1>a, <1>b DEF Calling, PostedCall
<1>3. /\ task' \in Calling /\ task'.pc = "ANSWER" /\ task'.at = task.at
      /\ task'.score = task.score /\ task'.top = task.top
  BY <1>1 DEF Post, Calling
<1> HIDE DEF call
<1>4. /\ posts' \in Seq(PostedCall) /\ n \in Nat /\ DOMAIN posts = 1 .. n
      /\ DOMAIN posts' = 1 .. n + 1 /\ posts'[n + 1] = call
      /\ \A i \in 1 .. n : posts'[i] = posts[i] /\ posts[i] \in PostedCall
  BY <1>1, <1>2 DEF DiscoveryInv, Typed
<1> HIDE DEF n
<1>5. /\ call.at = row.calledAt /\ call.score = row.score /\ call.day = row.day
      /\ Cardinality(OfDay(row.day)) + 1 <= row.calls
      /\ call.at \in Nat /\ call.score \in Nat /\ call.day \in Nat
  <2>1. call.at \in Nat /\ call.score \in Nat /\ call.day \in Nat
    BY <1>2 DEF PostedCall
  <2> QED BY <1>1, <1>2, <2>1 DEF DiscoveryInv, TaskInv, ClaimInHand, PostIsCounted
<1>6. Typed'
  BY <1>1, <1>3, <1>4 DEF DiscoveryInv, Typed, TaskTyped
<1>7. TaskInv'
  BY <1>1, <1>3 DEF DiscoveryInv, TaskInv, ScanIsNewer, ClaimInHand, PostIsCounted, BatchAnswers
<1>8. RowDated'
  BY <1>1 DEF DiscoveryInv, RowInv, RowDated
<1>9. ASSUME NEW i \in 1 .. n
      PROVE  /\ posts'[i].at <= row.calledAt /\ posts'[i].day <= row.day
             /\ row.calledAt - posts'[i].at < MinInterval =>
                   IF posts'[i].at = row.calledAt THEN posts'[i].score <= row.score
                   ELSE row.score * 5 >= posts'[i].score * 6
  BY <1>1, <1>4 DEF DiscoveryInv, RowInv, LastClaimCovers, DaysGoOn
<1>10. LastClaimCovers' /\ DaysGoOn'
  <2>1. ASSUME NEW i \in DOMAIN posts'
        PROVE  /\ posts'[i].at <= row.calledAt /\ posts'[i].day <= row.day
               /\ row.calledAt - posts'[i].at < MinInterval =>
                     IF posts'[i].at = row.calledAt THEN posts'[i].score <= row.score
                     ELSE row.score * 5 >= posts'[i].score * 6
    <3>1. CASE i \in 1 .. n
      BY <1>9, <3>1
    <3>2. CASE i = n + 1
      <4>1. posts'[i].at = row.calledAt /\ posts'[i].day = row.day /\ posts'[i].score = row.score
        BY <1>4, <1>5, <3>2
      <4> QED BY <1>5, <4>1
    <3> QED BY <1>4, <3>1, <3>2
  <2> QED BY <1>1, <2>1 DEF LastClaimCovers, DaysGoOn
<1>11. GateIsDurable'
  <2> SUFFICES ASSUME NEW i \in DOMAIN posts', NEW j \in DOMAIN posts',
                      i < j, posts'[i].at # posts'[j].at,
                      posts'[j].at - posts'[i].at < MinInterval
               PROVE  posts'[j].score * 5 >= posts'[i].score * 6
    BY DEF GateIsDurable
  <2>1. i \in 1 .. n
    BY <1>4
  <2>2. CASE j \in 1 .. n
    <3>1. posts'[i] = posts[i] /\ posts'[j] = posts[j] /\ i \in DOMAIN posts /\ j \in DOMAIN posts
      BY <1>4, <2>1, <2>2
    <3> QED BY <3>1 DEF DiscoveryInv, RowInv, GateIsDurable
  <2>3. CASE j = n + 1
    <3>1. posts'[j].at = row.calledAt /\ posts'[j].score = row.score
      BY <1>4, <1>5, <2>3
    <3> QED BY <2>1, <3>1, <1>9
  <2> QED BY <1>4, <2>2, <2>3
<1>12. RequestsCounted'
  <2> DEFINE S == OfDay(row.day)
  <2>1. OfDay(row.day)' = S \cup {n + 1}
    BY <1>1, <1>4, <1>5 DEF OfDay
  <2>2. n + 1 \notin S
    BY <1>4 DEF OfDay
  <2>3. IsFiniteSet(S)
    BY OfDayCounted DEF DiscoveryInv
  <2> HIDE DEF S
  <2>4. Cardinality(S \cup {n + 1}) = Cardinality(S) + 1
    BY <2>2, <2>3, FS_AddElement
  <2> QED BY <1>1, <1>5, <2>1, <2>4 DEF RequestsCounted, S
<1>13. ReceivedByNow'
  <2>1. \A i \in 1 .. n : posts[i].received <= today
    BY <1>4 DEF DiscoveryInv, RowInv, ReceivedByNow, today
  <2>2. ASSUME NEW i \in DOMAIN posts' PROVE posts'[i].received <= today
    <3>1. CASE i \in 1 .. n
      BY <1>4, <2>1, <3>1
    <3>2. CASE i = n + 1
      BY <1>2, <1>4, <1>a, <3>2
    <3> QED BY <1>4, <2>2, <3>1, <3>2
  <2> QED BY <1>1, <2>2 DEF ReceivedByNow, today
<1>14. CrossedIsFirst'
  <2>1. \A i \in 1 .. n : posts[i].received \in Nat /\ posts[i].received <= task.day
    BY <1>1, <1>4, ReceivedTyped DEF DiscoveryInv, TaskInv, PostIsCounted
  <2>2. task.day = row.day /\ row.day \in Nat /\ row.day <= today
    BY <1>1, <1>2, <1>5 DEF DiscoveryInv, RowInv, RowDated, today
  <2>3. ASSUME NEW i \in DOMAIN posts', NEW j \in DOMAIN posts',
               posts'[i].received # posts'[i].day, posts'[j].received = posts'[i].received
        PROVE  i <= j
    <3>1. CASE j = n + 1
      BY <1>4, <3>1
    <3>2. CASE j \in 1 .. n /\ i \in 1 .. n
      <4>1. posts'[i] = posts[i] /\ posts'[j] = posts[j] /\ i \in DOMAIN posts /\ j \in DOMAIN posts
        BY <1>4, <3>2
      <4> QED BY <2>3, <4>1 DEF DiscoveryInv, RowInv, CrossedIsFirst, Crossed
    <3>3. CASE j \in 1 .. n /\ i = n + 1
      <4>1. posts'[i].received = today /\ today # row.day
        BY <1>2, <1>4, <1>5, <2>3, <3>3
      <4>2. posts'[j].received <= row.day
        BY <1>4, <2>1, <2>2, <3>3
      <4> QED BY <1>a, <2>2, <2>3, <4>1, <4>2
    <3> QED BY <1>4, <2>3, <3>1, <3>2, <3>3
  <2> QED BY <2>3 DEF CrossedIsFirst, Crossed
<1> QED BY <1>6, <1>7, <1>8, <1>10, <1>11, <1>12, <1>13, <1>14 DEF DiscoveryInv, RowInv

LEMMA AnswerStep ==
  ASSUME DiscoveryInv, Answer
  PROVE  DiscoveryInv'
<1>1. /\ task \in Calling /\ task.pc = "ANSWER" /\ row \in RuntimeRow /\ row # NoRow
      /\ now' = now /\ row' = row /\ restarts' = restarts /\ posts' = posts
  BY TaskAt DEF Answer, DiscoveryInv, Typed
<1>2. CASE Fails
  BY <1>1, <1>2, TaskGivesUp
<1>3. /\ task.top = row.signature /\ task.at = row.calledAt /\ task.score = row.score
      /\ IsInjective(task.top) /\ task.top \in Seq(Listed) /\ Len(task.top) = Top
      /\ task.top # <<>>
  <2>1. /\ task.top = row.signature /\ task.at = row.calledAt /\ task.score = row.score
        /\ IsInjective(task.top) /\ task.at \in Nat /\ task.top \in Seq(Listed)
    BY <1>1 DEF DiscoveryInv, TaskInv, ClaimInHand, Calling
  <2>2. Len(row.signature) = Top
    BY <1>1, <2>1 DEF DiscoveryInv, RowInv, RowDated, Never
  <2> QED BY <2>1, <2>2, LengthAssumption
<1>4. ASSUME NEW batch \in Answers(task.top) \cup {<<>>}, Valid(batch, Range(task.top)),
             task' = [pc |-> "DECIDED", batch |-> batch]
      PROVE  DiscoveryInv'
  <2>1. batch \in Seq(Answered)
    BY <1>3, AnswersTyped
  <2>2. Len(batch) = Top
    BY <1>3, <1>4, <2>1, ValidIsComplete
  <2>3. AnswersClaim(batch)
    BY <1>3, <1>4, <2>2 DEF AnswersClaim, Valid
  <2>4. task' \in Decided /\ task'.pc = "DECIDED" /\ task'.batch = batch
    BY <1>4, <2>1 DEF Decided
  <2>5. TaskTyped'
    BY <2>4 DEF TaskTyped
  <2>6. Typed' /\ RowInv'
    BY <1>1, <2>5, TaskMoves
  <2>7. TaskInv'
    <3>1. BatchAnswers'
      BY <1>1, <2>3, <2>4 DEF BatchAnswers, AnswersClaim
    <3> QED BY <2>4, <3>1 DEF TaskInv, ScanIsNewer, ClaimInHand, PostIsCounted
  <2> QED BY <2>6, <2>7 DEF DiscoveryInv
<1>5. ASSUME task' = [pc |-> "OBSERVE", at |-> task.at, top |-> task.top,
                      score |-> task.score, attempt |-> 1]
      PROVE  DiscoveryInv'
  <2>1. /\ task' \in Claiming /\ task'.pc = "OBSERVE" /\ task'.at = task.at
        /\ task'.score = task.score /\ task'.top = task.top
    BY <1>1, <1>5 DEF Claiming, Calling
  <2>2. TaskTyped'
    BY <2>1 DEF TaskTyped
  <2>3. Typed' /\ RowInv'
    BY <1>1, <2>2, TaskMoves
  <2>4. TaskInv'
    BY <1>1, <1>3, <2>1 DEF TaskInv, ScanIsNewer, ClaimInHand, PostIsCounted, BatchAnswers
  <2> QED BY <2>3, <2>4 DEF DiscoveryInv
<1> QED BY <1>2, <1>4, <1>5 DEF Answer, Fails

LEMMA SaveDecisionsStep ==
  ASSUME DiscoveryInv, SaveDecisions
  PROVE  DiscoveryInv' /\ row'.decisions = task.batch /\ task.pc = "DECIDED"
<1>1. /\ task \in Decided /\ task.pc = "DECIDED" /\ row \in RuntimeRow /\ row # NoRow
      /\ row.slot <= now /\ now' = now /\ posts' = posts /\ restarts' = restarts
      /\ row' = [row EXCEPT !.decisions = task.batch, !.status = "RUNNING"]
      /\ task' = Idle /\ task'.pc = "IDLE"
  BY TaskAt DEF SaveDecisions, DiscoveryInv, Typed, RowInv, RowDated, Idle
<1>2. /\ row' \in RuntimeRow /\ row'.slot = row.slot /\ row'.calledAt = row.calledAt
      /\ row'.score = row.score /\ row'.signature = row.signature
      /\ row'.day = row.day /\ row'.calls = row.calls /\ row'.decisions = task.batch
  BY <1>1 DEF RuntimeRow, Decided
<1>3. RowInv' /\ row' # NoRow
  BY <1>1, <1>2, RowWritten
<1>4. Typed'
  BY <1>1, <1>2, <1>3 DEF DiscoveryInv, Typed, TaskTyped
<1> QED BY <1>1, <1>2, <1>3, <1>4, NothingInHand DEF DiscoveryInv

LEMMA FailStep ==
  ASSUME DiscoveryInv, Fail
  PROVE  DiscoveryInv'
<1>1. /\ row \in RuntimeRow /\ row # NoRow
      /\ row.slot <= now /\ now' = now /\ posts' = posts /\ restarts' = restarts
      /\ row' = [row EXCEPT !.status = "DEGRADED"] /\ task' = Idle /\ task'.pc = "IDLE"
  BY DEF Fail, DiscoveryInv, Typed, RowInv, RowDated, Idle
<1>2. /\ row' \in RuntimeRow /\ row'.slot = row.slot /\ row'.calledAt = row.calledAt
      /\ row'.score = row.score /\ row'.signature = row.signature
      /\ row'.day = row.day /\ row'.calls = row.calls
  BY <1>1 DEF RuntimeRow
<1>3. RowInv' /\ row' # NoRow
  BY <1>1, <1>2, RowWritten
<1>4. Typed'
  BY <1>1, <1>2, <1>3 DEF DiscoveryInv, Typed, TaskTyped
<1> QED BY <1>1, <1>3, <1>4, NothingInHand DEF DiscoveryInv

\* A new process finds the row as it was left.
LEMMA ProcessDiesStep ==
  ASSUME DiscoveryInv, ProcessDies
  PROVE  DiscoveryInv'
<1>1. /\ row # NoRow /\ now' = now /\ row' = row /\ posts' = posts
      /\ task' = NoTask /\ task'.pc = "OFF" /\ restarts' \in 0 .. MaxRestarts
  BY LengthAssumption DEF ProcessDies, DiscoveryInv, Typed, NoTask
<1>2. Typed'
  BY <1>1 DEF DiscoveryInv, Typed, TaskTyped
<1>3. RowInv'
  BY <1>1, RowInvKept, LengthAssumption DEF DiscoveryInv, Typed, RowInv, RowDated
<1> QED BY <1>1, <1>2, <1>3, NothingInHand DEF DiscoveryInv

LEMMA TimePassesStep ==
  ASSUME DiscoveryInv, TimePasses
  PROVE  DiscoveryInv'
<1>1. /\ now \in Nat /\ now' = now + 1 /\ now' \in 0 .. LastTick /\ row' = row
      /\ task' = task /\ posts' = posts /\ restarts' = restarts
  BY LengthAssumption DEF TimePasses, DiscoveryInv, Typed
<1>2. Typed'
  BY <1>1 DEF DiscoveryInv, Typed, TaskTyped
<1>3. TaskInv'
  <2>1. task.pc \in {"SAVE", "CLAIM"} => task.at \in Nat
    BY TaskAt DEF DiscoveryInv, Typed, Scanned
  <2> QED BY <1>1, <2>1 DEF DiscoveryInv, TaskInv, ScanIsNewer, ClaimInHand, PostIsCounted, OfDay,
                            BatchAnswers, AnswersClaim
<1>4. RowInv'
  <2>1. CASE row = NoRow
    <3>1. posts = <<>>
      BY <2>1 DEF DiscoveryInv, Typed
    <3> QED BY <1>1, <2>1, <3>1 DEF RowInv, RowDated, LastClaimCovers, DaysGoOn, GateIsDurable,
                                    RequestsCounted, ReceivedByNow, CrossedIsFirst
  <2>2. CASE row # NoRow
    <3>1. row.slot <= now'
      <4>1. row.slot \in Int /\ row.slot <= now
        BY <2>2 DEF DiscoveryInv, Typed, RuntimeRow, RowInv, RowDated
      <4> QED BY <1>1, <4>1
    <3> QED BY <1>1, <2>2, <3>1, RowInvKept DEF DiscoveryInv
  <2> QED BY <2>1, <2>2
<1> QED BY <1>2, <1>3, <1>4 DEF DiscoveryInv

LEMMA StutterStep ==
  ASSUME DiscoveryInv, UNCHANGED discoveryVars
  PROVE  DiscoveryInv'
BY DEF discoveryVars, DiscoveryInv, Typed, TaskTyped, RowInv, RowDated, LastClaimCovers, DaysGoOn,
       GateIsDurable, RequestsCounted, ReceivedByNow, CrossedIsFirst, Crossed, TaskInv, ScanIsNewer, ClaimInHand, PostIsCounted,
       OfDay, BatchAnswers, AnswersClaim

(***************************************************************************)
(* The theorems                                                            *)
(***************************************************************************)

LEMMA InitDiscoveryInv == DiscoveryInit => DiscoveryInv
<1> SUFFICES ASSUME DiscoveryInit PROVE DiscoveryInv
  OBVIOUS
<1>1. now = 0 /\ row = NoRow /\ task = NoTask /\ posts = <<>> /\ restarts = 0 /\ task.pc = "OFF"
  BY DEF DiscoveryInit, NoTask
<1>2. Typed
  BY <1>1, LengthAssumption DEF Typed, TaskTyped
<1>3. RowInv
  BY <1>1 DEF RowInv, RowDated, LastClaimCovers, DaysGoOn, GateIsDurable, RequestsCounted,
              ReceivedByNow, CrossedIsFirst
<1>4. TaskInv
  BY <1>1 DEF TaskInv, ScanIsNewer, ClaimInHand, PostIsCounted, BatchAnswers
<1> QED BY <1>2, <1>3, <1>4 DEF DiscoveryInv

LEMMA NextDiscoveryInv == DiscoveryInv /\ [DiscoveryNext]_discoveryVars => DiscoveryInv'
BY StartStep, ClaimLocalSlotStep, ReadListingStep, RankShortlistStep, SaveLocalStep,
   ClaimHermesStep, ObserveStep, PostStep, AnswerStep, SaveDecisionsStep, FailStep,
   ProcessDiesStep, TimePassesStep, StutterStep DEF DiscoveryNext

LEMMA DiscoveryInvHolds == DiscoverySpec => []DiscoveryInv
<1> QED BY InitDiscoveryInv, NextDiscoveryInv, PTL DEF DiscoverySpec

\* The row, the task and the requests keep their types, and what the row calls
\* the last signature is a complete set.
THEOREM DiscoveryTypeCorrect == DiscoverySpec => []DiscoveryTypeOK
<1>1. DiscoveryInv => DiscoveryTypeOK
  BY TaskAt DEF DiscoveryInv, Typed, RuntimeRow, RowInv, RowDated, DiscoveryTypeOK
<1> QED BY <1>1, DiscoveryInvHolds, PTL

\* The thirty-minute gate holds between any two requests, however many
\* processes, claims and crashes lie between them, and not only against the last claim.
THEOREM GateDurable == DiscoverySpec => []GateIsDurable
<1>1. DiscoveryInv => GateIsDurable
  BY DEF DiscoveryInv, RowInv
<1> QED BY <1>1, DiscoveryInvHolds, PTL

\* The daily counter covers every request received on its day but the first, if that was
\* counted before midnight; on no day are two received that were counted on another.
THEOREM CounterCovers == DiscoverySpec => []CounterCoversPosts
<1>1. DiscoveryInv => CounterCoversPosts
  BY CounterIsCardinality DEF DiscoveryInv, RowInv
<1> QED BY <1>1, DiscoveryInvHolds, PTL

\* Decisions are saved only as the complete answer to the last claim.
THEOREM DecisionsAnswer == DiscoverySpec => DecisionsAnswerTheClaim
<1>1. ASSUME DiscoveryInv, [DiscoveryNext]_discoveryVars
      PROVE  [ \/ row = NoRow
               \/ row'.decisions = row.decisions
               \/ row'.decisions = <<>>
               \/ /\ Len(row'.decisions) = Top
                  /\ SymbolsOf(row'.decisions) = Range(row.signature)
                  /\ \A i \in DOMAIN row'.decisions : LevelsForTrade(row'.decisions[i]) ]_discoveryVars
  <2>1. CASE SaveDecisions
    <3>1. row'.decisions = task.batch /\ task.pc = "DECIDED"
      BY <1>1, <2>1, SaveDecisionsStep
    <3>2. AnswersClaim(task.batch)
      BY <1>1, <3>1 DEF DiscoveryInv, TaskInv, BatchAnswers
    <3> QED BY <3>1, <3>2 DEF AnswersClaim
  <2>2. CASE ~SaveDecisions
    <3>1. row = NoRow \/ row \in RuntimeRow
      BY <1>1 DEF DiscoveryInv, Typed
    <3>2. CASE row \in RuntimeRow
      <4>1. row'.decisions = row.decisions
        BY <1>1, <2>2, <3>2, NoRowIsNone
           DEF DiscoveryNext, discoveryVars, Start, Initialized, ClaimLocalSlot, ReadListing, RankShortlist,
               SaveLocal, ClaimHermes, Observe, Counted, Post, Answer, Fail, ProcessDies, TimePasses,
               RuntimeRow
      <4> QED BY <4>1
    <3> QED BY <3>1, <3>2
  <2> QED BY <2>1, <2>2
<1> QED BY <1>1, DiscoveryInvHolds, PTL DEF DiscoverySpec, DecisionsAnswerTheClaim

===============================================================================
