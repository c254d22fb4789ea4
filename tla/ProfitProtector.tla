---------------------------- MODULE ProfitProtector ----------------------------
(***************************************************************************)
(* LocalPositionProfitProtector and PositionProfitRepository               *)
(* (src/app/trading/profit_protector.py) with the two gateway calls they   *)
(* make (manage_native_protection and protective_reduce_only_close of      *)
(* src/app/exchanges/bybit_v5_gateway.py), for the slot symbol:positionIdx *)
(* of one symbol, which successive entries use.                            *)
(*                                                                         *)
(* The protector is one task: a sync, a ticker and the request it leads to *)
(* follow each other.  Beside it run the entry path, which fills, protects *)
(* and records entries, and the exchange, which closes positions.  The     *)
(* process may die at every await; what it has committed stays.            *)
(*                                                                         *)
(* A stop request is applied or lost when it is sent: the exchange refuses *)
(* one older than the receive window (RECV_WINDOW_MS, 5 s), which is       *)
(* shorter than the client's own timeout (12 s).                           *)
(***************************************************************************)
EXTENDS ProfitDecision, FiniteSets

CONSTANTS
    Entries,            \* entry client order ids, all of one symbol
    NoEntry,            \* no position, no owner, no snapshot
    TermsChoices,       \* possible PositionSnapshots
    Prices,             \* executable prices the ticker may show
    Atrs,               \* values of the ATR, NoAtr included
    MaxEvents           \* bound on the event rows

ASSUME ProtectorAssumption ==
    /\ NoEntry \notin Entries
    /\ Prices \subseteq Nat \ {0}
    /\ Atrs \subseteq Nat
    /\ MaxEvents \in Nat

\* sync skips a position without a price, a size or a stop.  Losing the initial stop
\* costs something: a fee, a closing cost or a distance from the entry.
ASSUME TermsAssumption ==
    \A t \in TermsChoices :
       /\ t \in [side : {"Buy", "Sell"}, entry : Nat \ {0}, stop : Nat \ {0},
                 qty : Nat \ {0}, fee : Nat]
       /\ InitialRisk(t) > 0

VARIABLES
    terms,              \* each entry's side, prices, quantity and fee
    holder,             \* exchange: the entry whose position is open
    nativeStop,         \* exchange: stopLoss of that position
    filled,             \* entries that have filled
    owner,              \* owner_for_symbol: latest PROTECTED, FILLED_PROTECTED entry
    rows,               \* PositionProfitStateRecord by entry, or NoRow
    events,             \* PositionProtectionEventRecord rows
    pc,                 \* where the protector is
    snapshot,           \* self.positions[symbol]: entry and terms; of whose position
    seen,               \* result of the last position read
    current,            \* the event being carried out
    exitLive,           \* exchange: entries whose close order was accepted
    exitSent,           \* close requests sent, by entry
    best,               \* highest net profit of an entry's own position observed since
                        \* its row was inserted
    stray               \* entries that got a request meant for the position before

exchangeVars  == <<holder, nativeStop, exitLive>>
entryVars     == <<terms, filled, owner>>
recordVars    == <<rows, events>>
protectorVars == <<pc, snapshot, seen, current>>
historyVars   == <<exitSent, best, stray>>
vars == <<exchangeVars, entryVars, recordVars, protectorVars, historyVars>>

Action == StopActions \cup {"PROFIT_WATCH", "EARLY_PROFIT_EXIT"}

Stage == Action \cup {"INITIAL"}

EventStatus == {"PENDING", "CONFIRMED", "UNKNOWN", "FAILED", "SUPERSEDED"}

Resolvable == {"PENDING", "UNKNOWN"}

NoRow   == [stage |-> "NONE", stop |-> NoStop, mfe |-> 0, peak |-> 0, risk |-> 0,
            active |-> FALSE]
NoTerms == [side |-> "None", entry |-> 0, stop |-> NoStop, qty |-> 0, fee |-> 0]
NoEvent == [entry |-> NoEntry, action |-> "NONE", stop |-> NoStop, price |-> 0]
NoRead  == [holder |-> NoEntry, stop |-> NoStop, owner |-> NoEntry]

NoSnapshot == [entry |-> NoEntry, terms |-> NoTerms, of |-> NoEntry]

HasRow(e) == rows[e] # NoRow

ProtectorPc ==
    {"IDLE", "SYNC", "WATCH", "UPDATE", "AUTHORIZE", "SENT", "VERIFY", "EXIT",
     "EXIT_AUTHORIZE", "EXIT_SENT"}

TypeOK ==
    /\ terms \in [Entries -> TermsChoices]
    /\ holder \in Entries \cup {NoEntry}
    /\ nativeStop \in Int
    /\ filled \subseteq Entries
    /\ owner \in Entries \cup {NoEntry}
    /\ rows \in [Entries -> {NoRow} \cup [stage : Stage, stop : Int, mfe : Nat, peak : Nat,
                                         risk : Nat, active : BOOLEAN]]
    /\ \A v \in events : v \in [entry : Entries, action : Action, stop : Int,
                                status : EventStatus]
    /\ pc \in ProtectorPc
    /\ snapshot.entry \in Entries \cup {NoEntry}
    /\ snapshot.terms.side \in {"Buy", "Sell", "None"}
    /\ snapshot.of \in Entries \cup {NoEntry}
    /\ seen \in [holder : Entries \cup {NoEntry}, stop : Int,
                 owner : Entries \cup {NoEntry}]
    /\ current = NoEvent \/ current \in [entry : Entries, action : Action, stop : Int,
                                         price : Prices]
    /\ exitLive \subseteq Entries
    /\ exitSent \in [Entries -> Nat]
    /\ best \in [Entries -> Nat]
    /\ stray \subseteq Entries

Init ==
    /\ terms \in [Entries -> TermsChoices]
    /\ holder = NoEntry
    /\ nativeStop = NoStop
    /\ filled = {}
    /\ owner = NoEntry
    /\ rows = [e \in Entries |-> NoRow]
    /\ events = {}
    /\ pc = "IDLE"
    /\ snapshot = NoSnapshot
    /\ seen = NoRead
    /\ current = NoEvent
    /\ exitLive = {}
    /\ exitSent = [e \in Entries |-> 0]
    /\ best = [e \in Entries |-> 0]
    /\ stray = {}

(***************************************************************************)
(* The entry path and the exchange (external to this component)            *)
(***************************************************************************)

EntryFills(e) ==
    /\ holder = NoEntry
    /\ e \notin filled
    /\ holder' = e
    /\ nativeStop' = NoStop
    /\ filled' = filled \cup {e}
    /\ UNCHANGED <<terms, owner, exitLive, recordVars, protectorVars, historyVars>>

EntryProtected ==
    /\ holder # NoEntry
    /\ nativeStop = NoStop
    /\ nativeStop' = terms[holder].stop
    /\ UNCHANGED <<holder, exitLive, entryVars, recordVars, protectorVars, historyVars>>

\* mark_protected, after the stop was verified.
EntryRecorded ==
    /\ holder # NoEntry
    /\ nativeStop # NoStop
    /\ owner # holder
    /\ owner' = holder
    /\ UNCHANGED <<terms, filled, exchangeVars, recordVars, protectorVars, historyVars>>

\* Stop, target, an accepted reduce-only close, or the account holder.
PositionCloses ==
    /\ holder # NoEntry
    /\ holder' = NoEntry
    /\ nativeStop' = NoStop
    /\ UNCHANGED <<exitLive, entryVars, recordVars, protectorVars, historyVars>>

(***************************************************************************)
(* PositionProfitRepository                                                *)
(***************************************************************************)

NewRow(stop) == [stage |-> "INITIAL", stop |-> stop, mfe |-> 0, peak |-> 0, risk |-> 1,
                 active |-> TRUE]

\* upsert of an entry without a row: earlier active rows of the slot are closed and
\* their open events superseded.
InsertRow(e, stop) ==
    /\ rows' = [f \in Entries |->
                  IF f = e THEN NewRow(stop)
                  ELSE IF rows[f].active THEN [rows[f] EXCEPT !.active = FALSE]
                  ELSE rows[f]]
    /\ events' = {IF v.entry # e /\ rows[v.entry].active /\ v.status \in Resolvable
                  THEN [v EXCEPT !.status = "SUPERSEDED"] ELSE v : v \in events}

\* Mutant: the row follows the live stop but not the open events.
ReconcileRowOnly(e, t, stop) ==
    /\ rows' = [rows EXCEPT ![e].stop = Tighter(t, stop, @)]
    /\ UNCHANGED events

\* reconcile_native_stop: adopt a tighter live stop, confirm the event that asked for it.
ReconcileNativeStop(e, t, stop) ==
    LET answered == {v \in events : /\ v.entry = e
                                    /\ v.stop = stop
                                    /\ v.status \in Resolvable}
    IN  /\ \E s \in IF answered = {} THEN {rows[e].stage} ELSE {v.action : v \in answered} :
              rows' = [rows EXCEPT ![e].stop = Tighter(t, stop, @), ![e].stage = s]
        /\ events' = {IF v \in answered THEN [v EXCEPT !.status = "CONFIRMED"] ELSE v :
                        v \in events}

\* mark_absent_closed for a symbol that is not among the current positions.
MarkAbsentClosed ==
    /\ rows' = [e \in Entries |-> IF rows[e].active THEN [rows[e] EXCEPT !.active = FALSE]
                                  ELSE rows[e]]
    /\ events' = {IF /\ rows[v.entry].active
                     /\ v.action = "EARLY_PROFIT_EXIT"
                     /\ v.status \in Resolvable
                  THEN [v EXCEPT !.status = "CONFIRMED"] ELSE v : v \in events}

\* Mutant: the peak follows the price down.
ObserveLatest(e, profit, risk) ==
    rows' = [rows EXCEPT ![e].mfe = profit]

\* observe: max_favorable_r is peak / risk; the peak of the net profit is stored when
\* that ratio rises.
Observe(e, profit, risk) ==
    LET peak == Larger(rows[e].mfe, profit)
    IN  rows' = IF peak * rows[e].risk > rows[e].peak * risk
                THEN [rows EXCEPT ![e].mfe = peak, ![e].peak = peak, ![e].risk = risk]
                ELSE rows

\* Mutant: an event that did not end CONFIRMED may be begun again.
BegunUnlessFailed(e, d) ==
    \E v \in events : /\ v.entry = e /\ v.action = d.action /\ v.stop = d.stop
                      /\ v.status \notin {"FAILED", "UNKNOWN"}

\* begin_event refuses a second event of the same action and stop, whatever its status.
AlreadyBegun(e, d) ==
    \E v \in events : v.entry = e /\ v.action = d.action /\ v.stop = d.stop

SetStatus(s) ==
    events' = {IF v.entry = current.entry /\ v.action = current.action
                  /\ v.stop = current.stop
               THEN [v EXCEPT !.status = s] ELSE v : v \in events}

\* finish_event: a confirmation also moves the row's stage and, if given, its stop.
FinishEvent(s) ==
    /\ SetStatus(s)
    /\ rows' = IF s # "CONFIRMED" THEN rows
               ELSE [rows EXCEPT ![current.entry].stage = current.action,
                                 ![current.entry].stop =
                                    IF current.stop = NoStop THEN @ ELSE current.stop]
    /\ pc' = "IDLE"
    /\ current' = NoEvent
    /\ seen' = NoRead
    /\ UNCHANGED snapshot

(***************************************************************************)
(* sync                                                                    *)
(***************************************************************************)

\* read_open_positions and owner_for_symbol; several awaits follow.
SyncRead ==
    /\ pc = "IDLE"
    /\ pc' = "SYNC"
    /\ seen' = [holder |-> holder, stop |-> nativeStop, owner |-> owner]
    /\ UNCHANGED <<snapshot, current, exchangeVars, entryVars, recordVars, historyVars>>

\* What sync builds: the live position under the owner's id, with the owner's initial
\* stop and entry fee.
SnapshotOf(h, e) == [terms[h] EXCEPT !.stop = terms[e].stop, !.fee = terms[e].fee]

\* The ownership test: average price within a tick of the owner's fill, size within it.
\* A similar position of another entry passes too.
OwnedBy(h, e) ==
    /\ Distance(terms[h].entry, terms[e].entry) <= 1
    /\ terms[h].qty <= terms[e].qty

SyncMatches ==
    LET h == seen.holder
        e == seen.owner
    IN
    /\ pc = "SYNC"
    /\ h # NoEntry /\ e # NoEntry /\ seen.stop # NoStop
    /\ OwnedBy(h, e)
    /\ IF HasRow(e) THEN ReconcileNativeStop(e, SnapshotOf(h, e), seen.stop)
       ELSE InsertRow(e, seen.stop)
    /\ snapshot' = [entry |-> e, terms |-> SnapshotOf(h, e), of |-> h]
    /\ pc' = "IDLE"
    /\ seen' = NoRead
    /\ UNCHANGED <<current, exchangeVars, entryVars, historyVars>>

\* No position, no owner, or no match: the executions of a fill may not be listed yet.
SyncFindsNothing ==
    /\ pc = "SYNC"
    /\ MarkAbsentClosed
    /\ snapshot' = NoSnapshot
    /\ pc' = "IDLE"
    /\ seen' = NoRead
    /\ UNCHANGED <<current, exchangeVars, entryVars, historyVars>>

\* A read fails: the stream is reopened, the snapshot of the last sync stays.
SyncFails ==
    /\ pc = "SYNC"
    /\ pc' = "IDLE"
    /\ seen' = NoRead
    /\ UNCHANGED <<snapshot, current, exchangeVars, entryVars, recordVars, historyVars>>

(***************************************************************************)
(* on_ticker                                                               *)
(***************************************************************************)

FirstStep ==
    [a \in Action |-> CASE a = "PROFIT_WATCH"      -> "WATCH"
                        [] a = "EARLY_PROFIT_EXIT" -> "EXIT"
                        [] OTHER                   -> "UPDATE"]

OnTicker(price, atr, reversal) ==
    LET e == snapshot.entry
        t == snapshot.terms
        d == Evaluate(t, price, rows[e].stop, rows[e].mfe, rows[e].stage, atr, reversal)
    IN
    /\ pc = "IDLE"
    /\ e # NoEntry
    /\ HasRow(e)
    /\ Observe(e, NetPnl(t, price), InitialRisk(t))
    /\ best' = IF snapshot.of = e THEN [best EXCEPT ![e] = Larger(@, NetPnl(t, price))]
               ELSE best
    /\ IF d.action = "NONE" \/ AlreadyBegun(e, d)
       THEN UNCHANGED <<events, pc, current>>
       ELSE /\ Cardinality(events) < MaxEvents
            /\ events' = events \cup {[entry |-> e, action |-> d.action, stop |-> d.stop,
                                       status |-> "PENDING"]}
            /\ pc' = FirstStep[d.action]
            /\ current' = [entry |-> e, action |-> d.action, stop |-> d.stop,
                           price |-> price]
    /\ UNCHANGED <<snapshot, seen, exitSent, stray, exchangeVars, entryVars>>

FinishWatch ==
    /\ pc = "WATCH"
    /\ FinishEvent("CONFIRMED")
    /\ UNCHANGED <<exchangeVars, entryVars, historyVars>>

(***************************************************************************)
(* manage_native_protection                                                *)
(***************************************************************************)

\* Mutant: the new stop is not compared with the live one.
AnyStopAcceptable == holder # NoEntry /\ nativeStop # NoStop

\* The live position has a stop, and the new one is tighter.
StopAcceptable ==
    /\ holder # NoEntry
    /\ nativeStop # NoStop
    /\ Tightens(terms[holder], current.stop, nativeStop)

ReadForUpdate ==
    /\ pc = "UPDATE"
    /\ StopAcceptable
    /\ pc' = "AUTHORIZE"
    /\ seen' = [holder |-> holder, stop |-> nativeStop, owner |-> NoEntry]
    /\ UNCHANGED <<snapshot, current, exchangeVars, entryVars, recordVars, historyVars>>

\* The size the request names: the live one for a stop, the snapshot's for an exit.
RequestedQty == IF pc = "AUTHORIZE" THEN terms[seen.holder].qty ELSE snapshot.terms.qty

\* authorize_position_management: the slot holds a position of at least that size, and
\* the entry was approved for it.
AuthorizeUpdate ==
    /\ pc \in {"AUTHORIZE", "EXIT_AUTHORIZE"}
    /\ holder # NoEntry
    /\ RequestedQty <= terms[holder].qty
    /\ RequestedQty <= terms[current.entry].qty
    /\ pc' = IF pc = "AUTHORIZE" THEN "SENT" ELSE "EXIT_SENT"
    /\ UNCHANGED <<snapshot, seen, current, exchangeVars, entryVars, recordVars,
                   historyVars>>

\* A refusal before the request is sent, or a failing read: FAILED.
ManagementFails ==
    /\ pc \in {"UPDATE", "AUTHORIZE", "EXIT", "EXIT_AUTHORIZE", "EXIT_SENT"}
    /\ FinishEvent("FAILED")
    /\ UNCHANGED <<exchangeVars, entryVars, historyVars>>

\* The exchange sets the stop of whatever position the slot now holds.
ApplyStop ==
    /\ holder # NoEntry
    /\ nativeStop' = current.stop
    /\ stray' = IF holder = seen.holder THEN stray ELSE stray \cup {holder}
    /\ UNCHANGED <<holder, exitLive, exitSent, best>>

\* The trading-stop request is applied and answered.
StopApplied ==
    /\ pc = "SENT"
    /\ ApplyStop
    /\ pc' = "VERIFY"
    /\ UNCHANGED <<snapshot, seen, current, entryVars, recordVars>>

\* Mutant: a request without an answer is taken for confirmed.
TimeoutTakenAsConfirmed ==
    /\ pc = "SENT"
    /\ ApplyStop \/ UNCHANGED <<exchangeVars, historyVars>>
    /\ FinishEvent("CONFIRMED")
    /\ UNCHANGED entryVars

\* It times out, applied or not: UNKNOWN.
StopTimesOut ==
    /\ pc = "SENT"
    /\ ApplyStop \/ UNCHANGED <<exchangeVars, historyVars>>
    /\ FinishEvent("UNKNOWN")
    /\ UNCHANGED entryVars

\* It is refused, or the connection breaks, applied or not: FAILED.
StopErrors ==
    /\ pc = "SENT"
    /\ ApplyStop \/ UNCHANGED <<exchangeVars, historyVars>>
    /\ FinishEvent("FAILED")
    /\ UNCHANGED entryVars

\* verify_native_protection reads the position again.
VerifyStop ==
    /\ pc = "VERIFY"
    /\ FinishEvent(IF holder # NoEntry /\ nativeStop = current.stop
                   THEN "CONFIRMED" ELSE "UNKNOWN")
    /\ UNCHANGED <<exchangeVars, entryVars, historyVars>>

\* That read fails or times out: an exception like any other.
VerifyFails ==
    /\ pc = "VERIFY"
    /\ FinishEvent("FAILED")
    /\ UNCHANGED <<exchangeVars, entryVars, historyVars>>

(***************************************************************************)
(* protective_reduce_only_close                                            *)
(***************************************************************************)

ReadForExit ==
    /\ pc = "EXIT"
    /\ holder # NoEntry
    /\ pc' = "EXIT_AUTHORIZE"
    /\ seen' = [holder |-> holder, stop |-> nativeStop, owner |-> NoEntry]
    /\ UNCHANGED <<snapshot, current, exchangeVars, entryVars, recordVars, historyVars>>

AlreadyClosed ==
    /\ pc = "EXIT"
    /\ holder = NoEntry
    /\ FinishEvent("CONFIRMED")
    /\ UNCHANGED <<exchangeVars, entryVars, historyVars>>

\* A query by the derived link id comes first.  An order found is taken for this one,
\* but begin_event lets an entry get here once, so that none is ever found.
SendExit ==
    /\ pc = "EXIT_SENT"
    /\ current.entry \notin exitLive
    /\ exitSent' = [exitSent EXCEPT ![current.entry] = @ + 1]
    /\ UNCHANGED <<holder, nativeStop, entryVars, best, stray>>

\* Accepted; when it executes, PositionCloses follows.  An IOC order may end unfilled.
ExitAccepted ==
    /\ SendExit
    /\ exitLive' = exitLive \cup {current.entry}
    /\ FinishEvent("CONFIRMED")

\* Timeout, or another error, with the order accepted or not.
ExitUnanswered ==
    /\ SendExit
    /\ exitLive' \in {exitLive, exitLive \cup {current.entry}}
    /\ \E s \in {"UNKNOWN", "FAILED"} : FinishEvent(s)

(***************************************************************************)
(* The process dies and is started again                                   *)
(***************************************************************************)
Restart ==
    /\ pc # "IDLE" \/ snapshot # NoSnapshot
    /\ pc' = "IDLE"
    /\ snapshot' = NoSnapshot
    /\ current' = NoEvent
    /\ seen' = NoRead
    /\ UNCHANGED <<exchangeVars, entryVars, recordVars, historyVars>>

Environment ==
    \/ \E e \in Entries : EntryFills(e)
    \/ EntryProtected
    \/ EntryRecorded
    \/ PositionCloses

Tick == \E price \in Prices, atr \in Atrs, reversal \in BOOLEAN :
           OnTicker(price, atr, reversal)

Sync == SyncRead \/ SyncMatches \/ SyncFindsNothing \/ SyncFails

Update ==
    \/ ReadForUpdate \/ AuthorizeUpdate \/ ManagementFails
    \/ StopApplied \/ StopTimesOut \/ StopErrors \/ VerifyStop \/ VerifyFails

Exit == ReadForExit \/ AlreadyClosed \/ ExitAccepted \/ ExitUnanswered

Next == Environment \/ Sync \/ Tick \/ FinishWatch \/ Update \/ Exit \/ Restart

Spec == Init /\ [][Next]_vars

\* The stream delivers a message at least every keep-alive, a sync follows every thirty
\* seconds, and reads and requests do not fail for ever.
Fairness ==
    /\ WF_vars(Sync) /\ SF_vars(SyncRead) /\ SF_vars(SyncMatches)
    /\ WF_vars(FinishWatch) /\ WF_vars(Update) /\ WF_vars(Exit)

FairSpec == Spec /\ Fairness

\* Tickers go on, and no step of an update fails every time.
RetrySpec ==
    /\ FairSpec
    /\ SF_vars(Tick) /\ SF_vars(ReadForUpdate) /\ SF_vars(AuthorizeUpdate)
    /\ SF_vars(StopApplied) /\ SF_vars(VerifyStop)

(***************************************************************************)
(* Properties                                                              *)
(***************************************************************************)

\* The stop a decision asks for tightens the confirmed one, is not through the market,
\* and is as tight as the tick allows: behind the market, one tick more would protect
\* the promised profit (costs covered, 0.3R, or the share of the remaining profit).
Promise(v, t, peak) ==
    CASE v.action = "BREAK_EVEN"         -> 0
      [] v.action = "MFE_PROFIT_PROTECT" -> Smaller(15 * NetPnl(t, v.price), 10 * peak)
      [] OTHER                           -> 6 * InitialRisk(t)

RequestedStopIsSound ==
    pc = "UPDATE" =>
       LET t == snapshot.terms
           v == current
       IN  /\ Tightens(t, v.stop, rows[v.entry].stop)
           /\ Tightens(t, v.price, v.stop)
           /\ \/ v.stop = v.price - Direction(t)
              \/ 20 * NetPnl(t, NextTick(t, v.stop)) >= Promise(v, t, rows[v.entry].mfe)

\* FR-008: no request moves a live position's stop away from its profit.  The one case
\* left out is a position that replaced the one the gateway had read.
StopOnlyTightens ==
    [][holder # NoEntry /\ holder' = holder /\ nativeStop # NoStop /\ holder \notin stray'
         => ~Tightens(terms[holder], nativeStop, nativeStop')]_vars

\* The row of an owned open position never claims a tighter stop than the exchange has.
ConfirmedStopIsNative ==
    \A e \in Entries : holder = e /\ HasRow(e) /\ e \notin stray /\ nativeStop # NoStop
        => ~Tightens(terms[e], rows[e].stop, nativeStop)

\* FR-015: neither restarts nor later entries in the slot lose the peak of the profit.
PeakIsKept == \A e \in Entries : HasRow(e) => rows[e].mfe >= best[e]

\* The early exit is never submitted again, whatever became of the first request.
ExitSentOnce == \A e \in Entries : exitSent[e] <= 1

\* An update the exchange has applied although its answer timed out or the process died
\* waiting for it ends CONFIRMED, unless the position closes or its stop moves first: it
\* does not wait for ever, and while it waits nothing but a confirmation is recorded of it.
InHand(v) == /\ current.entry = v.entry
             /\ current.action = v.action
             /\ current.stop = v.stop

AwaitsRecovery(v) ==
    /\ holder = v.entry /\ owner = v.entry
    /\ nativeStop # NoStop /\ v.stop = nativeStop
    /\ v.status \in Resolvable
    /\ ~InHand(v)

LostAnswerIsRecovered ==
    /\ \A e \in Entries :
          (\E v \in events : v.entry = e /\ AwaitsRecovery(v))
             ~> ~\E v \in events : v.entry = e /\ AwaitsRecovery(v)
    /\ [][\A v \in events : AwaitsRecovery(v)
             => v \in events' \/ [v EXCEPT !.status = "CONFIRMED"] \in events']_vars

\* The edge case of spec.md:85, which the code does not keep: of an update that was
\* accepted but could not be verified, neither success nor failure is assumed.
AcceptedIsNotFailed ==
    [][pc = "VERIFY" => \A v \in events' : v.status = "FAILED" => v \in events]_vars

\* FR-013, which the code does not keep: an early exit is reconciled before its
\* completion is recorded.
ExitConfirmedMeansClosed ==
    \A v \in events : v.action = "EARLY_PROFIT_EXIT" /\ v.status = "CONFIRMED"
        => holder # v.entry

\* FR-005, which the code does not keep: an owned position shown at +0.5R or better gets
\* the break-even stop, unless it closes first.  (Checked where every ticker is at +0.5R.)
BreakEvenIsReached ==
    \A e \in Entries : holder = e /\ owner = e ~>
        holder # e \/ ~Tightens(terms[e], StopForNetProfit(terms[e], 0), nativeStop)
=============================================================================
