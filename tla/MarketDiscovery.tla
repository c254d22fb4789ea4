--------------------------- MODULE MarketDiscovery ---------------------------
(***************************************************************************)
(* The hybrid market discovery: HybridMarketDiscoveryService.cycle and its *)
(* durable runtime row (app/ai/market_discovery.py), with the AI provider  *)
(* call it makes, retry and response validation included                   *)
(* (app/ai/service.py).  One discovery task runs inside the worker         *)
(* process; the process may die between any two commits and start again.   *)
(*                                                                         *)
(* A symbol is an integer whose order is the order of the names.  Ratios   *)
(* of the score are in tenths.                                             *)
(***************************************************************************)
EXTENDS Integers, Sequences, FiniteSets, FiniteSetsExt, SequencesExt

CONSTANTS
    Listings,       \* what the exchange may list: market data by symbol
    Core,           \* ALLOWED_SCANNER_SYMBOLS
    SpreadLimit, TurnoverLimit, MaxMinNotional,   \* eligibility limits
    Shortlist,      \* TECHNICAL_SHORTLIST
    Top,            \* TOP_CANDIDATES
    SlotLength,     \* LOCAL_SCAN_SECONDS
    MinInterval,    \* HERMES_MIN_INTERVAL
    MaxScanAge,     \* MAX_SCAN_AGE
    TicksPerDay,    \* a UTC day
    LastTick,       \* bound: time
    MaxRestarts     \* bound: restarts of the process

\* What the reader knows of a market; the components of its score are in tenths.
Components == {"turnover", "spread", "volume", "volatility", "momentum", "rsi", "macd", "atr",
               "trend"}
MarketRow ==
    [trading : BOOLEAN, bid : Int, ask : Int, spread : Int, turnover : Int, minNotional : Int,
     component : [Components -> Int]]

ASSUME ListingAssumption ==
    \A listing \in Listings :
        /\ listing \in [DOMAIN listing -> MarketRow]
        /\ DOMAIN listing \subseteq Int /\ IsFiniteSet(DOMAIN listing)

ASSUME LengthAssumption ==
    /\ Shortlist \in Nat /\ Top \in Nat \ {0} /\ MaxScanAge \in Nat
    /\ SlotLength \in Nat \ {0} /\ MinInterval \in Nat /\ TicksPerDay \in Nat \ {0}
    /\ LastTick \in Nat /\ MaxRestarts \in Nat

VARIABLES
    now,
    row,        \* AIMarketDiscoveryRuntimeRecord
    task,       \* the discovery task
    posts,      \* requests received by the provider, oldest first, each with the day it
                \* was counted on and the day it was received on
    restarts

discoveryVars == <<now, row, task, posts, restarts>>

\* A time or a score that is not set.
Never  == 0 - 1
NoRow  == [status |-> "NONE"]
NoTask == [pc |-> "OFF"]
Idle   == [pc |-> "IDLE"]
UtcDay(t) == t \div TicksPerDay

(* ------------------------------------------------------------ ranking --- *)

\* _eligible_market: tradable, quoted, tight, liquid and small enough.
EligibleMarket(x) ==
    /\ x.trading
    /\ x.bid > 0 /\ x.ask >= x.bid
    /\ x.spread <= SpreadLimit
    /\ x.turnover >= TurnoverLimit
    /\ x.minNotional <= MaxMinNotional

\* _technical_score: nine capped components and their weights, in percent.
Weight == [turnover |-> 10, spread |-> 10, volume |-> 10, volatility |-> 15,
           momentum |-> 15, rsi |-> 10, macd |-> 10, atr |-> 10, trend |-> 10]
Score(x) ==
    SumFunction([c \in DOMAIN Weight |-> Weight[c] * Max({0, Min({10, x.component[c]})})]) \div 10

\* The score of each market of a listing.
Scores == [listing \in Listings |-> [s \in DOMAIN listing |-> Score(listing[s])]]

\* The sort keys: the shortlist by turnover, the ranking by score, spread,
\* turnover and name.  The place of a market is the number of those above it.
Above(a, b, keys) ==
    \E i \in DOMAIN keys : /\ keys[i][a] > keys[i][b]
                           /\ \A j \in 1 .. i - 1 : keys[j][a] = keys[j][b]
SortedBy(S, keys) ==
    [k \in 1 .. Cardinality(S) |->
        CHOOSE s \in S : Cardinality({r \in S : Above(r, s, keys)}) = k - 1]
FirstOf(seq, n) == SubSeq(seq, 1, Min({n, Len(seq)}))

Short(listing) ==
    LET S == {s \in DOMAIN listing \ Core : EligibleMarket(listing[s])}
    IN  Range(FirstOf(SortedBy(S, << [s \in S |-> listing[s].turnover],
                                     [s \in S |-> 0 - s] >>), Shortlist))
Candidates(listing, S) ==
    FirstOf(SortedBy(S, << Scores[listing],
                           [s \in S |-> 0 - listing[s].spread],
                           [s \in S |-> listing[s].turnover],
                           [s \in S |-> 0 - s] >>), Top)

\* signature and aggregate_score of a snapshot (the score as a sum: all
\* snapshots that are compared have Top candidates).
Total(listing, top) == SumFunction([s \in Range(top) |-> Scores[listing][s]])

(* ---------------------------------------------------------- repository --- *)

FreshRow == [status |-> "RUNNING", slot |-> Never, top |-> <<>>, signature |-> <<>>,
             score |-> Never, calledAt |-> Never, day |-> Never, calls |-> 0,
             decisions |-> <<>>]

\* initialize keeps everything but the status.
\* Mutant: it starts the row afresh.
InitializedAfresh == FreshRow
Initialized == IF row = NoRow THEN FreshRow ELSE [row EXCEPT !.status = "RUNNING"]

\* claim_local_slot.
SlotOf(t) == t - (t % SlotLength)
SlotFree == row.slot < SlotOf(now)

\* claim_hermes: a complete set, and either the interval has passed or a
\* different set scores at least a fifth higher.
StrongEvent(snap) ==
    /\ row.signature # snap.top
    /\ snap.score * 5 >= row.score * 6
\* Mutant: any different set is a strong event.
AnyNewSetIsStrong(snap) ==
    /\ Len(snap.top) = Top
    /\ \/ row.calledAt = Never
       \/ snap.at - row.calledAt >= MinInterval
       \/ row.signature # snap.top
HermesFree(snap) ==
    /\ Len(snap.top) = Top
    /\ \/ row.calledAt = Never
       \/ snap.at - row.calledAt >= MinInterval
       \/ StrongEvent(snap)

\* record_hermes_http_call: the counter starts again on a new UTC day.
Counted ==
    [row EXCEPT !.day = UtcDay(now),
                !.calls = IF row.day = UtcDay(now) THEN @ + 1 ELSE 1]

(* ------------------------------------------------------- AI responses --- *)

\* The provider may answer with any of these; decisions name a symbol, the
\* action and whether both price levels are given.
Wait(s) == [symbol |-> s, action |-> "WAIT", levels |-> FALSE]
Long(s) == [symbol |-> s, action |-> "LONG", levels |-> TRUE]
Complete(top) == [i \in DOMAIN top |-> IF i = 1 THEN Long(top[i]) ELSE Wait(top[i])]
Answers(top) ==
    {Complete(top), Tail(Complete(top)), Append(Complete(top), Wait(top[1])),
     Append(Complete(top), Wait(0)),
     [Complete(top) EXCEPT ![1].levels = FALSE]}

\* MarketDiscoveryDecision, MarketDiscoveryBatch.
LevelsForTrade(d) == d.action # "WAIT" => d.levels
UniqueSymbols(batch) ==
    \A i, j \in DOMAIN batch : batch[i].symbol = batch[j].symbol => i = j
SymbolsOf(batch) == {batch[i].symbol : i \in DOMAIN batch}

\* parse_hermes_response, and the same two checks once more in cycle.
\* Mutant: the duplicate check is gone.
ValidWithDuplicates(batch, expected) ==
    /\ \A i \in DOMAIN batch : LevelsForTrade(batch[i])
    /\ SymbolsOf(batch) = expected
Valid(batch, expected) ==
    /\ \A i \in DOMAIN batch : LevelsForTrade(batch[i])
    /\ UniqueSymbols(batch)
    /\ SymbolsOf(batch) = expected

(* ------------------------------------------------------------- actions --- *)

DiscoveryInit ==
    /\ now = 0 /\ row = NoRow /\ task = NoTask /\ posts = <<>> /\ restarts = 0

Fails == task' = [task EXCEPT !.pc = "FAIL"]

\* The worker starts: initialize.
Start ==
    /\ task.pc = "OFF"
    /\ row' = Initialized /\ task' = Idle
    /\ UNCHANGED <<now, posts, restarts>>

\* cycle claims the five-minute slot; when the slot is taken it only sleeps.
ClaimLocalSlot ==
    /\ task.pc = "IDLE" /\ SlotFree
    /\ row' = [row EXCEPT !.slot = SlotOf(now)]
    /\ task' = [pc |-> "LISTING", started |-> now]
    /\ UNCHANGED <<now, posts, restarts>>

\* scan, first half: clock, all pages of the instruments, the tickers, the
\* filter and the shortlist.  A failed or cyclic page read raises.
ReadListing ==
    /\ task.pc = "LISTING"
    /\ \/ Fails
       \/ now - task.started > MaxScanAge /\ Fails
       \/ /\ now - task.started <= MaxScanAge
          /\ \E listing \in Listings :
                task' = [pc |-> "TECHNICAL", started |-> task.started,
                         listing |-> listing, short |-> Short(listing)]
    /\ UNCHANGED <<now, row, posts, restarts>>

\* scan, second half: the candles of the shortlist; a market whose candles
\* fail, are too few or are stale drops out; the rest is ranked.
RankShortlist ==
    /\ task.pc = "TECHNICAL"
    /\ \/ now - task.started > MaxScanAge /\ Fails
       \/ /\ now - task.started <= MaxScanAge
          /\ \E S \in SUBSET task.short :
                LET top == Candidates(task.listing, S)
                IN  task' = [pc |-> "SAVE", at |-> now, top |-> top,
                             score |-> Total(task.listing, top)]
    /\ UNCHANGED <<now, row, posts, restarts>>

SaveLocal ==
    /\ task.pc = "SAVE"
    /\ row' = [row EXCEPT !.status = "RUNNING", !.top = task.top]
    /\ task' = [task EXCEPT !.pc = "CLAIM"]
    /\ UNCHANGED <<now, posts, restarts>>

ClaimHermes ==
    /\ task.pc = "CLAIM"
    /\ IF HermesFree(task)
       THEN /\ row' = [row EXCEPT !.calledAt = task.at, !.signature = task.top,
                                  !.score = task.score]
            /\ task' = [pc |-> "OBSERVE", at |-> task.at, top |-> task.top,
                        score |-> task.score, attempt |-> 0]
       ELSE /\ task' = Idle                                  \* LOCAL_ONLY
            /\ UNCHANGED row
    /\ UNCHANGED <<now, posts, restarts>>

\* complete_json: the observer counts the call before it is made.  Missing
\* settings and a prompt that cannot be split raise before that.
Observe ==
    /\ task.pc = "OBSERVE"
    /\ \/ /\ task' = [pc |-> "POST", at |-> task.at, top |-> task.top,
                        score |-> task.score, attempt |-> task.attempt, day |-> UtcDay(now)]
          /\ row' = Counted
       \/ task.attempt = 0 /\ Fails /\ UNCHANGED row
    /\ UNCHANGED <<now, posts, restarts>>

\* The request reaches the provider.
Post ==
    /\ task.pc = "POST"
    /\ posts' = Append(posts, [at |-> task.at, top |-> task.top, score |-> task.score,
                               day |-> task.day, received |-> UtcDay(now)])
    /\ task' = [task EXCEPT !.pc = "ANSWER"]
    /\ UNCHANGED <<now, row, restarts>>

\* The answer: an HTTP error or a timeout raises; an invalid body is asked for
\* once more and then raises.
Answer ==
    /\ task.pc = "ANSWER"
    /\ \/ Fails
       \/ \E batch \in Answers(task.top) \cup {<<>>} :
             task' = IF Valid(batch, Range(task.top))
                     THEN [pc |-> "DECIDED", batch |-> batch]
                     ELSE IF task.attempt = 0
                     THEN [pc |-> "OBSERVE", at |-> task.at, top |-> task.top,
                           score |-> task.score, attempt |-> 1]
                     ELSE [task EXCEPT !.pc = "FAIL"]
    /\ UNCHANGED <<now, row, posts, restarts>>

SaveDecisions ==
    /\ task.pc = "DECIDED"
    /\ row' = [row EXCEPT !.decisions = task.batch, !.status = "RUNNING"]
    /\ task' = Idle
    /\ UNCHANGED <<now, posts, restarts>>

\* Any exception of a claimed cycle: fail.
Fail ==
    /\ task.pc = "FAIL"
    /\ row' = [row EXCEPT !.status = "DEGRADED"]
    /\ task' = Idle
    /\ UNCHANGED <<now, posts, restarts>>

\* The process dies, or a database error in claim_local_slot or fail ends the
\* task, which nothing but a new process starts again.
ProcessDies ==
    /\ task.pc # "OFF" /\ restarts < MaxRestarts
    /\ task' = NoTask /\ restarts' = restarts + 1
    /\ UNCHANGED <<now, row, posts>>

TimePasses ==
    /\ now < LastTick
    /\ now' = now + 1
    /\ UNCHANGED <<row, task, posts, restarts>>

DiscoveryNext ==
    \/ Start \/ ClaimLocalSlot \/ ReadListing \/ RankShortlist \/ SaveLocal
    \/ ClaimHermes \/ Observe \/ Post \/ Answer \/ SaveDecisions \/ Fail
    \/ ProcessDies \/ TimePasses

DiscoverySpec == DiscoveryInit /\ [][DiscoveryNext]_discoveryVars

(* ---------------------------------------------------------- properties --- *)

\* Types, and: what the row calls the last signature is a complete set.
DiscoveryTypeOK ==
    /\ now \in 0 .. LastTick /\ restarts \in 0 .. MaxRestarts
    /\ task.pc \in {"OFF", "IDLE", "LISTING", "TECHNICAL", "SAVE", "CLAIM", "OBSERVE",
                    "POST", "ANSWER", "DECIDED", "FAIL"}
    /\ row # NoRow =>
          /\ row.status \in {"RUNNING", "DEGRADED"}
          /\ row.slot <= now
          /\ row.calledAt = Never <=> row.score = Never
          /\ row.calledAt # Never => Len(row.signature) = Top /\ row.calledAt <= now

\* The thirty-minute gate survives restarts: of two sets sent to the provider
\* less than the interval apart the later one scores at least a fifth higher,
\* however many processes, claims and crashes lie between them.
GateIsDurable ==
    \A i, j \in DOMAIN posts :
        /\ i < j
        /\ posts[i].at # posts[j].at
        /\ posts[j].at - posts[i].at < MinInterval
        => posts[j].score * 5 >= posts[i].score * 6

\* The daily counter shown to the operator covers every request the provider received
\* that day, retries and those of earlier processes included, but for one: a request
\* counted before midnight and received after it, the first that day receives.
Crossed(i) == posts[i].received # posts[i].day

CounterCoversPosts ==
    /\ row # NoRow =>
          Cardinality({i \in DOMAIN posts : posts[i].received = row.day /\ ~Crossed(i)})
             <= row.calls
    /\ \A i, j \in DOMAIN posts :
          Crossed(i) /\ posts[j].received = posts[i].received => i <= j

\* What is saved as the provider's decisions answers the last claimed set, one
\* decision for each of its candidates, trades with both levels.
DecisionsAnswerTheClaim ==
    [][ \/ row = NoRow
        \/ row'.decisions = row.decisions
        \/ row'.decisions = <<>>
        \/ /\ Len(row'.decisions) = Top
           /\ SymbolsOf(row'.decisions) = Range(row.signature)
           /\ \A i \in DOMAIN row'.decisions : LevelsForTrade(row'.decisions[i]) ]_discoveryVars
=============================================================================
