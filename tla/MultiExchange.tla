---------------------------- MODULE MultiExchange ----------------------------
(***************************************************************************)
(* The multi-exchange execution path: MultiExchangeTradingEngine.execute   *)
(* (app/trading/multi_exchange.py) run by several callers of one process,  *)
(* the durable order ledger (execution_store.py), the adapter with its     *)
(* serialised, retrying request queue (app/exchanges/adapters.py, base.py, *)
(* rate_limit.py, ccxt_transport.py), the portfolio and its limits         *)
(* (exchanges/portfolio.py, risk/portfolio.py), and the read-only          *)
(* preflight that compares ledger and venue (bybit_readonly.py).           *)
(*                                                                         *)
(* The model follows one account of one exchange.  A price is one unit, so *)
(* that the notional of an order is its quantity.                          *)
(***************************************************************************)
EXTENDS Integers, Sequences, FiniteSets, FiniteSetsExt, SequencesExt

CONSTANTS
    Callers,        \* concurrent execute calls of the process
    Ids,            \* client order ids
    Requests,       \* what callers may ask for
    Group,          \* correlation group of a symbol
    Step, MinQty,   \* instrument rules: quantity step and minimum
    MaxNotional,    \* max_position_notional
    MaxPositions,   \* max_positions
    MaxExposure,    \* the tightest of the exposure limits
    MaxCorrelated,  \* max_correlated_exposure_pct of the equity
    MaxRetries,     \* RateLimitManager.max_retries
    RecentLimit,    \* length of the order history the preflight reads
    MaxCrashes,     \* bound: process crashes
    NoOne           \* the request queue when nobody is served

RequestSet == [id : Ids, qty : Nat \ {0}, symbol : DOMAIN Group, reduce : BOOLEAN]

\* What the venue accepts: a normalised quantity is zero where MinQty allows it.
VenueOrder == [id : Ids, qty : Nat, symbol : DOMAIN Group, reduce : BOOLEAN]

ASSUME RequestAssumption == Requests \subseteq RequestSet /\ NoOne \notin Callers
ASSUME LimitAssumption ==
    /\ Step \in Nat \ {0} /\ MinQty \in Nat /\ MaxNotional \in Nat
    /\ MaxPositions \in Nat /\ MaxExposure \in Nat /\ MaxCorrelated \in Nat
    /\ MaxRetries \in Nat /\ RecentLimit \in Nat /\ MaxCrashes \in Nat

VARIABLES
    row,        \* execution_orders: status and payload by client order id
    history,    \* venue: accepted orders, oldest first
    filled,     \* venue: ids no longer open
    resent,     \* ids of which more than one request left for the venue
    calls,      \* execute calls that got as far as sending, by id
    positions,  \* the PortfolioManager
    queue,      \* who holds the lock of the request queue
    caller,     \* the execute calls
    preflight,  \* the preflight: step, orders read, verdict
    sight,      \* history: ids that were open at the venue or among its newest
                \* orders at some moment from the first to the last read of the preflight
    crashes

venue == <<history, filled>>
vars  == <<row, history, filled, resent, calls, positions, queue, caller,
           preflight, sight, crashes>>

NoRow  == [status |-> "NONE"]
Active == {i \in Ids : row[i].status \in {"PENDING", "SUBMITTED", "UNKNOWN"}}
Accepted == {history[k].id : k \in DOMAIN history}

NoCall == [pc |-> "IDLE"]
\* A call past its claim: its step, its request and the attempts made for it.
Call == [pc : {"WAIT", "SEND", "FAILED", "DONE"}, req : Requests, attempt : 0 .. MaxRetries]
NoReport == [pc |-> "OFF", held |-> FALSE, open |-> {}, recent |-> {}, verdict |-> "NONE"]

(* ------------------------------------------------------------- limits --- *)

\* normalize_quantity rounds down to the step.
\* Mutant: it rounds up.
NormalizedUp(q) == ((q + Step - 1) \div Step) * Step
Normalized(q) == (q \div Step) * Step

\* validate_order: refused before anything is sent.
Valid(r) == Normalized(r.qty) >= MinQty

Notional(held) == MapThenSumSet(LAMBDA p : p.qty, held)
Correlated(r)  == {p \in positions : Group[p.symbol] = Group[r.symbol]}

\* GlobalPortfolioRiskManager.approve, on the positions registered so far.
Approved(r) ==
    /\ r.qty <= MaxNotional
    /\ Cardinality(positions) < MaxPositions
    /\ Notional(positions) + r.qty <= MaxExposure
    /\ Notional(Correlated(r)) + r.qty <= MaxCorrelated

(* ------------------------------------------------------------- ledger --- *)

TypeOK ==
    /\ row \in [Ids -> {NoRow} \cup
                  [status : {"PENDING", "SUBMITTED", "UNKNOWN"}, req : Requests]]
    /\ history \in Seq(VenueOrder)
    /\ filled \subseteq Accepted
    /\ resent \subseteq Ids /\ calls \in [Ids -> Nat]
    /\ positions \subseteq Requests
    /\ queue \in Callers \cup {NoOne}
    /\ caller \in [Callers -> {NoCall} \cup Call]
    /\ preflight \in [pc : {"OFF", "RECENT", "LEDGER", "REPORT"}, held : BOOLEAN,
                      open : SUBSET Ids, recent : SUBSET Ids, verdict : {"NONE", "MATCH", "MISMATCH"}]
    /\ sight \subseteq Accepted /\ crashes \in 0 .. MaxCrashes

Init ==
    /\ row = [i \in Ids |-> NoRow]
    /\ history = <<>> /\ filled = {} /\ positions = {}
    /\ resent = {} /\ calls = [i \in Ids |-> 0]
    /\ queue = NoOne
    /\ caller = [c \in Callers |-> NoCall]
    /\ preflight = NoReport /\ sight = {}
    /\ crashes = 0

At(c, pc) == caller[c].pc = pc
Req(c)    == caller[c].req
Goto(c, pc) == caller' = [caller EXCEPT ![c].pc = pc]
Return(c) == caller' = [caller EXCEPT ![c] = NoCall]

\* claim, decided by the unique key of the ledger: an id that has a row is
\* refused, whatever its status and payload.
\* Mutant: the same request may be claimed again while it is pending.
ClaimSharesPending(r) == row[r.id] \in {NoRow, [status |-> "PENDING", req |-> r]}
Claimable(r) == row[r.id].status = "NONE"

Mark(r, status) == row' = [row EXCEPT ![r.id].status = status]

(* ------------------------------------------------------------ execute --- *)

\* A call up to its claim: what it reads before the health check are its own
\* arguments, and from the health answer to the claim nothing else runs.  An
\* order that reduces skips the risk checks; a refused call (a mismatch, the
\* kill switch, a cooldown, a stale ticker, a limit, the claim) changes nothing.
Execute(c) ==
    /\ At(c, "IDLE")
    /\ \E r \in Requests :
         /\ r.reduce \/ Approved(r)
         /\ Claimable(r)
         /\ row' = [row EXCEPT ![r.id] = [status |-> "PENDING", req |-> r]]
         /\ caller' = [caller EXCEPT ![c] = [pc |-> "WAIT", req |-> r, attempt |-> 0]]
    /\ UNCHANGED <<venue, resent, calls, positions, queue, preflight, sight, crashes>>

\* create_order on a sandbox transport before its own request: the rules or
\* the ticker, read through the same queue, are missing or the order does not
\* fit them.
RefuseLocally(c) ==
    /\ At(c, "WAIT") /\ queue = NoOne
    /\ Goto(c, "FAILED")
    /\ UNCHANGED <<row, venue, resent, calls, positions, queue, preflight, sight, crashes>>

\* RateLimitManager.execute: one request of the adapter at a time.
EnterQueue(c) ==
    /\ At(c, "WAIT") /\ Valid(Req(c)) /\ queue = NoOne
    /\ queue' = c
    /\ calls' = [calls EXCEPT ![Req(c).id] = @ + 1]
    /\ Goto(c, "SEND")
    /\ UNCHANGED <<row, venue, resent, positions, preflight, sight, crashes>>

\* The lock is left with a result and with the last error.
LeaveQueue(c, pc) == queue' = NoOne

\* One attempt.  The venue takes an id once, at the normalised quantity; its
\* answer may be lost, and a lost answer and a refusal are the same
\* ExchangeError to the queue, which sends again.
SendOrder(c) ==
    /\ At(c, "SEND")
    /\ resent' = IF caller[c].attempt > 0 THEN resent \cup {Req(c).id} ELSE resent
    /\ \E accepts, answered \in BOOLEAN :
         /\ accepts => Req(c).id \notin Accepted
         /\ answered => accepts
         /\ history' = IF accepts
                       THEN Append(history, [Req(c) EXCEPT !.qty = Normalized(@)])
                       ELSE history
         /\ sight' = IF accepts /\ preflight.pc = "RECENT"
                     THEN sight \cup {Req(c).id} ELSE sight
         /\ \/ answered /\ Goto(c, "DONE") /\ LeaveQueue(c, "DONE")
            \/ /\ ~answered /\ caller[c].attempt = MaxRetries
               /\ Goto(c, "FAILED") /\ LeaveQueue(c, "FAILED")
            \/ /\ ~answered /\ caller[c].attempt < MaxRetries
               /\ caller' = [caller EXCEPT ![c].attempt = @ + 1]
               /\ UNCHANGED queue
    /\ UNCHANGED <<row, filled, calls, positions, preflight, crashes>>

\* mark_unknown after any error that follows the claim.
MarkUnknown(c) ==
    /\ At(c, "FAILED")
    /\ Mark(Req(c), "UNKNOWN")
    /\ Return(c)
    /\ UNCHANGED <<venue, resent, calls, positions, queue, preflight, sight, crashes>>

\* mark_order, then what the caller does with its order: register_position,
\* or PortfolioManager.remove for one that reduces.
MarkOrder(c) ==
    /\ At(c, "DONE")
    /\ Mark(Req(c), "SUBMITTED")
    /\ positions' = IF Req(c).reduce
                    THEN {p \in positions : p.symbol # Req(c).symbol}
                    ELSE positions \cup {Req(c)}
    /\ Return(c)
    /\ UNCHANGED <<venue, resent, calls, queue, preflight, sight, crashes>>

(* ------------------------------------------------ venue and preflight --- *)

Fill ==
    /\ \E i \in Accepted \ filled : filled' = filled \cup {i}
    /\ UNCHANGED <<row, history, resent, calls, positions, queue, caller, preflight, sight, crashes>>

\* The newest orders of the venue, as many as it is asked for.
Newest == {history[k].id : k \in {j \in DOMAIN history : j > Len(history) - RecentLimit}}

\* build_report reads positions and open orders, then the newest orders,
\* then the ledger; orders move on meanwhile.
ReadOpenOrders ==
    /\ preflight.pc = "OFF"
    /\ preflight' = [NoReport EXCEPT !.pc = "RECENT", !.held = filled # {},
                                    !.open = Accepted \ filled]
    /\ sight' = (Accepted \ filled) \cup Newest
    /\ UNCHANGED <<row, venue, resent, calls, positions, queue, caller, crashes>>

\* Mutant: the venue's first page taken for the newest orders while it lists the oldest first.
Oldest == {history[k].id : k \in {j \in DOMAIN history : j <= RecentLimit}}

ReadOldestOrders ==
    /\ preflight.pc = "RECENT"
    /\ preflight' = [preflight EXCEPT !.pc = "LEDGER", !.recent = Oldest]
    /\ UNCHANGED <<row, venue, resent, calls, positions, queue, caller, sight, crashes>>

ReadRecentOrders ==
    /\ preflight.pc = "RECENT"
    /\ preflight' = [preflight EXCEPT !.pc = "LEDGER", !.recent = Newest]
    /\ UNCHANGED <<row, venue, resent, calls, positions, queue, caller, sight, crashes>>

\* reconciliation_dry_run: open orders without an active row, active rows the
\* venue does not know, positions without any active row.
Unresolved(known) == Active \ known

Reconcile ==
    /\ preflight.pc = "LEDGER"
    /\ LET matches == /\ preflight.open \subseteq Active
                      /\ Unresolved(preflight.open \cup preflight.recent) = {}
                      /\ preflight.held => Active # {}
       IN preflight' = [NoReport EXCEPT !.pc = "REPORT",
                                          !.verdict = IF matches THEN "MATCH" ELSE "MISMATCH"]
    /\ UNCHANGED <<row, venue, resent, calls, positions, queue, caller, sight, crashes>>

\* The process dies: the ledger stays, everything in memory is gone.
Crash ==
    /\ crashes < MaxCrashes
    /\ crashes' = crashes + 1
    /\ caller' = [c \in Callers |-> NoCall]
    /\ queue' = NoOne /\ positions' = {}
    /\ UNCHANGED <<row, venue, resent, calls, preflight, sight>>

Progress(c) ==
    \/ RefuseLocally(c) \/ EnterQueue(c) \/ SendOrder(c)
    \/ MarkUnknown(c) \/ MarkOrder(c)

Next == \/ \E c \in Callers : Execute(c) \/ Progress(c)
        \/ Fill \/ ReadOpenOrders \/ ReadRecentOrders \/ Reconcile \/ Crash

Spec == Init /\ [][Next]_vars

(* ----------------------------------------------------------- properties --- *)

\* The ledger knows every order the venue took, with the payload it was
\* claimed for and never a larger quantity: a reused id with another payload
\* or a claim after the request would break it.
LedgerCoversVenue ==
    \A k \in DOMAIN history :
        LET i == history[k].id IN
        /\ row[i].status # "NONE"
        /\ history[k].qty <= row[i].req.qty /\ history[k].symbol = row[i].req.symbol

\* One execute call at most gets to send an id: not a concurrent duplicate,
\* not a repeated call after an unknown outcome, not one after a restart.
OneCallPerId == \A i \in Ids : calls[i] <= 1

\* A preflight that passes vouches for every active row: its order was in sight at the
\* venue while the preflight read.  A claim that never got there, one that got there after
\* the last read, and an order that was already filled and older than the orders it asks
\* for fail it, however orders are sent and filled between its reads.
PreflightIsSound ==
    [][preflight'.verdict = "MATCH" /\ preflight.verdict # "MATCH" => Active \subseteq sight]_vars

\* What the engine's error and its test say of a failed order call:
\* "automatic retry is forbidden until reconciliation".
NeverResent == resent = {}
=============================================================================
