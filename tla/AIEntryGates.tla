---------------------------- MODULE AIEntryGates ----------------------------
(***************************************************************************)
(* What an AI entry is judged by, and how old that is when the order       *)
(* leaves: the fee-rate cache, the recent closes, the quote and the        *)
(* account snapshot (src/app/ai/live_trader.py), and the second look of    *)
(* the guard (src/app/exchanges/bybit_v5_gateway.py).                      *)
(*                                                                         *)
(* One symbol and one process, whose cycle is a chain of requests; between *)
(* any two of them the clock, the market, the venue's fee rate and the     *)
(* position go on.  What becomes of the order after it is filled is the    *)
(* subject of AIExecution.  Time is counted in steps of a few minutes; a   *)
(* step holds at most one scan.                                            *)
(***************************************************************************)
EXTENDS LiveCosts, Sequences

CONSTANTS
    Quotes,             \* [bid, ask] the market shows
    Rates,              \* taker fee rates the venue charges
    Decisions,          \* [side, stop, target] the model may answer, levels in half ticks
    MaxSpread,          \* SCANNER_CONFIG.maximum_spread_pct, in 1 / Scale
    MaxAge,             \* FEE_CACHE_MAX_AGE
    Cooldown,           \* SAME_SYMBOL_COOLDOWN
    MaxTime,            \* bound on the clock
    HeldSides,          \* sides of a position that may be open at the start
    NoRate, NoPosition, NoDecision

ASSUME GatesAssumption ==
    /\ Quotes \subseteq [bid : Nat, ask : Nat]
    /\ \A q \in Quotes : q.bid > 0 /\ q.ask >= q.bid
    /\ Rates \subseteq Nat
    /\ Decisions \subseteq [side : {"LONG", "SHORT"}, stop : Int, target : Int]
    /\ HeldSides \subseteq {"LONG", "SHORT"}
    /\ {MaxAge, Cooldown, MaxTime, MaxSpread} \subseteq Nat

VARIABLES
    now, quote, rate,   \* clock, current market, the venue's current rate
    lastCharged,        \* when each rate was last charged, -1 for never
    cache,              \* the symbol's BybitFeeRateCacheRecord
    holding,           \* the open position, with what its entry was judged by
    closes,             \* closed positions, oldest first
    step,                 \* where the process is
    cycle,              \* the locals of its cycle
    scannedAt           \* the last time step that was scanned

worldVars == <<quote, rate, lastCharged, holding, closes>>
gateVars == <<now, worldVars, cache, step, cycle, scannedAt>>

\* at: the cycle's own time; readAt: when the account was read; held: the symbol is in
\* open_symbols; fee: the rate in hand, asked for at feeAt; fresh: the guard's quote.
NewCycle(t, q) ==
    [at |-> t, readAt |-> t, held |-> FALSE, seen |-> q, fresh |-> q, fee |-> NoRate,
     feeAt |-> t, decision |-> NoDecision]

Held(side) == [side |-> side, stop |-> 0, target |-> 0, entry |-> 0, judged |-> 0,
               fee |-> NoRate, charged |-> NoRate]

GatesInit ==
    /\ now = 0
    /\ quote \in Quotes
    /\ rate \in Rates
    /\ lastCharged = [r \in Rates |-> IF r = rate THEN 0 ELSE -1]
    /\ cache = NoRate
    /\ holding \in {NoPosition} \cup {Held(side) : side \in HeldSides}
    /\ closes = <<>>
    /\ step = "IDLE"
    /\ cycle = NewCycle(0, quote)
    /\ scannedAt = -1

Proceed(label, locals) == step' = label /\ cycle' = locals

\* The cycle returns; its locals are gone.
Return == Proceed("IDLE", NewCycle(0, CHOOSE q \in Quotes : TRUE))

(***************************************************************************)
(* Fee rates                                                               *)
(***************************************************************************)

\* Mutant: a persisted rate is used whatever its age.
AnyPersistedRate(asOf) == cache # NoRate

\* A persisted rate is used for a day.
CacheUsable(asOf) == cache # NoRate /\ asOf - cache.verified <= MaxAge

\* An answer with the symbol's rate, and a rate that is believable.
AnswerAccepted == ValidRate(rate)

\* An accepted answer is saved with the time taken before the request.
FeesAnswered(asOf, next, locals) ==
    /\ AnswerAccepted
    /\ cache' = [rate |-> rate, verified |-> asOf]
    /\ Proceed(next, [locals EXCEPT !.fee = rate, !.feeAt = asOf])

\* The request fails, or its answer is refused: the persisted rate, if it is usable.
FeesFromCache(asOf, next, locals) ==
    /\ CacheUsable(asOf)
    /\ UNCHANGED cache
    /\ Proceed(next, [locals EXCEPT !.fee = cache.rate, !.feeAt = asOf])

NoFees(asOf) == ~CacheUsable(asOf) /\ UNCHANGED cache /\ Return

(***************************************************************************)
(* AIAutonomousTrader.cycle                                                *)
(***************************************************************************)
BeginCycle ==
    /\ step = "IDLE"
    /\ scannedAt < now
    /\ scannedAt' = now
    /\ Proceed("MARKET", NewCycle(now, quote))
    /\ UNCHANGED <<now, worldVars, cache>>

\* The instruments' quotes come first, the account's positions after them.
ReadQuotes ==
    /\ step = "MARKET"
    /\ Proceed("ACCOUNT", [cycle EXCEPT !.seen = quote])
    /\ UNCHANGED <<now, worldVars, cache, scannedAt>>

ReadAccount ==
    /\ step = "ACCOUNT"
    /\ Proceed("FEES", [cycle EXCEPT !.readAt = now, !.held = (holding # NoPosition)])
    /\ UNCHANGED <<now, worldVars, cache, scannedAt>>

\* verified_at is the cycle's own time.
ReadFees ==
    /\ step = "FEES"
    /\ \/ FeesAnswered(cycle.at, "DECIDE", cycle)
       \/ FeesFromCache(cycle.at, "DECIDE", cycle)
       \/ NoFees(cycle.at)
    /\ UNCHANGED <<now, worldVars, scannedAt>>

\* The model may take minutes.
ModelDecides ==
    /\ step = "DECIDE"
    /\ \/ \E d \in Decisions : Proceed("CLOSES", [cycle EXCEPT !.decision = d])
       \/ Return
    /\ UNCHANGED <<now, worldVars, cache, scannedAt>>

(***************************************************************************)
(* _execute_candidates: recent closes are read, then the candidate is      *)
(* judged by the snapshot                                                  *)
(***************************************************************************)

\* Mutant: the oldest close of the list decides.
CoolingDownSinceOldest(d, asOf) ==
    /\ closes # <<>>
    /\ closes[1].at <= asOf
    /\ asOf - closes[1].at < Cooldown
    /\ closes[1].reason = "SL" \/ closes[1].side # d.side

\* The last close not later than the cycle's own time decides, for sixty minutes: after
\* a stop loss nothing, after any other close no opposite entry.
CoolingDown(d, asOf) ==
    \E k \in DOMAIN closes :
        /\ closes[k].at <= asOf
        /\ \A later \in DOMAIN closes : later > k => closes[later].at > asOf
        /\ asOf - closes[k].at < Cooldown
        /\ closes[k].reason = "SL" \/ closes[k].side # d.side

\* open_symbols is the snapshot's.
SymbolTaken == cycle.held

\* build_ai_preview at the snapshot's quote and the scan's rate.
PreviewPasses(d) ==
    /\ ValidLevels(Levels(d), EntryAt(d.side, cycle.seen))
    /\ CostAwareEdge(Levels(d), cycle.seen, cycle.fee)

\* Trend, balance, claim and the other checks may refuse as well.
JudgeCandidate ==
    /\ step = "CLOSES"
    /\ \/ /\ ~SymbolTaken
          /\ ~CoolingDown(cycle.decision, cycle.at)
          /\ PreviewPasses(cycle.decision)
          /\ Proceed("QUOTE", cycle)
       \/ Return
    /\ UNCHANGED <<now, worldVars, cache, scannedAt>>

(***************************************************************************)
(* ProductionMutationGuard.authorize                                       *)
(***************************************************************************)
SpreadAcceptable(q) == 2 * Scale * (q.ask - q.bid) <= MaxSpread * (q.ask + q.bid)

\* The guard reads the market again; the fee request's time is taken next.
GuardReadsQuote ==
    /\ step = "QUOTE"
    /\ IF SpreadAcceptable(quote)
       THEN Proceed("GUARD_FEES", [cycle EXCEPT !.fresh = quote, !.feeAt = now])
       ELSE Return
    /\ UNCHANGED <<now, worldVars, cache, scannedAt>>

GuardReadsFees ==
    /\ step = "GUARD_FEES"
    /\ \/ FeesAnswered(cycle.feeAt, "EDGE", cycle)
       \/ FeesFromCache(cycle.feeAt, "EDGE", cycle)
       \/ NoFees(cycle.feeAt)
    /\ UNCHANGED <<now, worldVars, scannedAt>>

\* The edge is judged again, then the positions are read.
GuardJudges ==
    /\ step = "EDGE"
    /\ IF /\ CostAwareEdge(Levels(cycle.decision), cycle.fresh, cycle.fee)
          /\ holding = NoPosition
       THEN Proceed("POST", cycle)
       ELSE Return
    /\ UNCHANGED <<now, worldVars, cache, scannedAt>>

\* The market order fills at what the market shows by then, or the exchange refuses it.
OrderIsFilled ==
    LET l == Levels(cycle.decision)
    IN
    /\ step = "POST"
    /\ holding' \in {holding,
          [side |-> l.side, stop |-> l.stop, target |-> l.target,
           entry |-> EntryAt(l.side, quote), judged |-> EntryAt(l.side, cycle.fresh),
           fee |-> cycle.fee, charged |-> rate]}
    /\ Return
    /\ UNCHANGED <<now, quote, rate, lastCharged, cache, closes, scannedAt>>

\* A request fails and the cycle with it, or the process dies.
CycleEnds ==
    /\ step # "IDLE"
    /\ Return
    /\ UNCHANGED <<now, worldVars, cache, scannedAt>>

(***************************************************************************)
(* Clock, market and venue                                                 *)
(***************************************************************************)
Tick ==
    /\ now < MaxTime
    /\ now' = now + 1
    /\ lastCharged' = [lastCharged EXCEPT ![rate] = now + 1]
    /\ UNCHANGED <<quote, rate, holding, closes, cache, step, cycle, scannedAt>>

MarketMoves ==
    /\ quote' \in Quotes \ {quote}
    /\ UNCHANGED <<now, rate, lastCharged, holding, closes, cache, step, cycle, scannedAt>>

RateChanges ==
    /\ rate' \in Rates \ {rate}
    /\ lastCharged' = [lastCharged EXCEPT ![rate'] = now]
    /\ UNCHANGED <<now, quote, holding, closes, cache, step, cycle, scannedAt>>

\* Stop, target, protector or hand.
HoldingCloses ==
    /\ holding # NoPosition
    /\ \E reason \in {"SL", "TP", "OTHER"} :
          closes' = Append(closes, [at |-> now, side |-> holding.side, reason |-> reason])
    /\ holding' = NoPosition
    /\ UNCHANGED <<now, quote, rate, lastCharged, cache, step, cycle, scannedAt>>

ScanStep == ReadQuotes \/ ReadAccount \/ ReadFees \/ ModelDecides \/ JudgeCandidate

GuardStep == GuardReadsQuote \/ GuardReadsFees \/ GuardJudges \/ OrderIsFilled

GatesNext ==
    \/ BeginCycle \/ ScanStep \/ GuardStep \/ CycleEnds
    \/ Tick \/ MarketMoves \/ RateChanges \/ HoldingCloses

GatesSpec == GatesInit /\ [][GatesNext]_gateVars

(***************************************************************************)
(* Properties                                                              *)
(***************************************************************************)

Sides == {"LONG", "SHORT"}
Time  == 0 .. MaxTime
Fee   == Rates \cup {NoRate}

Position ==
    [side : Sides, stop : Int, target : Int, entry : Nat, judged : Nat, fee : Fee,
     charged : Fee]

Close == [at : Time, side : Sides, reason : {"SL", "TP", "OTHER"}]

Cycle ==
    [at : Time, readAt : Time, held : BOOLEAN, seen : Quotes, fresh : Quotes, fee : Fee,
     feeAt : Time, decision : Decisions \cup {NoDecision}]

\* The types of the clock, the cache, the position, the closes and the cycle (the Decimal
\* columns of BybitFeeRateCacheRecord are rates).
GatesTypeOK ==
    /\ now \in Time
    /\ quote \in Quotes
    /\ rate \in Rates
    /\ lastCharged \in [Rates -> -1 .. MaxTime]
    /\ cache \in {NoRate} \cup [rate : Rates, verified : Time]
    /\ holding \in {NoPosition} \cup Position
    /\ closes \in Seq(Close)
    /\ step \in {"IDLE", "MARKET", "ACCOUNT", "FEES", "DECIDE", "CLOSES", "QUOTE",
               "GUARD_FEES", "EDGE", "POST"}
    /\ cycle \in Cycle
    /\ scannedAt \in -1 .. now

\* An order leaves with a fee rate the venue was charging no more than FEE_CACHE_MAX_AGE
\* before the guard asked, although two writers save rates and both may fall back.
FeeRateIsRecent ==
    step = "POST" => lastCharged[cycle.fee] >= cycle.feeAt - MaxAge

\* The market closes a leg at up to the allowed slippage beyond its level.
WorstExit(p, level) == level - Sign(p.side) * ((level * SlipRate) \div Scale)

\* What one unit of the position earns between its fill and an exit, in ticks / Scale.
Earned(p, exit) ==
    Scale * Sign(p.side) * (exit - p.entry) - p.charged * (p.entry + exit)

\* A filled entry is worth its risk in real fills, not in the estimate's terms: if the
\* fill is within the slippage allowed from the guard's quote and the fee no higher than
\* judged, the worst exit at the target earns 1.5 times what the worst exit at the stop
\* loses.  The scan's quote and rate, minutes old, do not matter.
EdgeIsReal ==
    holding # NoPosition /\ holding.fee # NoRate =>
        LET p == holding
        IN  /\ p.charged <= p.fee
            /\ Scale * Sign(p.side) * (p.entry - p.judged) <= SlipRate * p.judged
            => 2 * Earned(p, WorstExit(p, p.target)) >= -3 * Earned(p, WorstExit(p, p.stop))

\* "Same-symbol 60m cooldown after Stop Loss", no opposite entry either: an order leaves
\* within the cooldown only when the position closed between the start of the scan and its
\* account read, where neither the positions nor the recent closes show it.
CooldownHasOneGap ==
    step = "POST" /\ closes # <<>> =>
        LET last == closes[Len(closes)]
        IN  /\ now - last.at < Cooldown
            /\ last.reason = "SL" \/ last.side # cycle.decision.side
            => cycle.at < last.at /\ last.at <= cycle.readAt
=============================================================================
