--------------------------- MODULE ShadowCollector ---------------------------
(***************************************************************************)
(* The prospective shadow collector: supervised runner processes           *)
(* (app/shadow/runner.py, supervisor.py, watchdog.py) that share one       *)
(* database (repository.py) and, while they hold the collector lease,      *)
(* turn closed one-hour candles into shadow decisions and shadow trades    *)
(* (engine.py, recovery.py).                                               *)
(*                                                                         *)
(* Every action is one database transaction, or one answer of the market   *)
(* data gateway together with the reads that follow it; any number of      *)
(* actions of another instance and of clock ticks may come between two of  *)
(* them.  The model follows the markets of one exchange (the exchanges of  *)
(* a cycle share no row but the alert queue).  Time is a number of ticks   *)
(* since the protocol lock; candle h opens at h * Hour.                    *)
(***************************************************************************)
EXTENDS Integers, FiniteSets, FiniteSetsExt

CONSTANTS
    Instances,      \* supervisors, one per deployment, each with one child
    Retiring,       \* the deployments a newer one will replace
    Markets,        \* the symbols of the exchange
    Hour,           \* ticks per candle
    Grace,          \* shadow_live_candle_grace_seconds
    Lease,          \* shadow_lease_seconds
    MaxAge,         \* shadow_heartbeat_max_age_seconds
    OfflineAfter,   \* shadow_offline_after_failures
    Hours,          \* bound: candles that close while the model runs
    HoursPerDay,    \* bound: a day is this many candles
    MaxFaults,      \* bound: kills, hangs, failed calls, leases that expire
                    \* under a live owner
    Nobody          \* the lease row before its first owner

ASSUME ClockAssumption ==
    /\ Hour \in Nat \ {0} /\ Grace \in 0 .. Hour - 1
    /\ Lease \in Nat \ {0} /\ MaxAge \in Nat /\ Lease <= MaxAge
    /\ OfflineAfter \in Nat \ {0} /\ Hours \in Nat \ {0}
    /\ HoursPerDay \in Nat \ {0} /\ MaxFaults \in Nat

ASSUME InstanceAssumption == Nobody \notin Instances /\ Retiring \subseteq Instances

\* The assets of the locked protocol.
ASSUME MarketAssumption == IsFiniteSet(Markets) /\ Markets # {}

VARIABLES
    now,        \* the clock, capped before one more candle closes
    matches,    \* instances whose lock, source and warm-up hashes agree
    \* The database.
    lease,      \* shadow_collector_state: owner, ticks left, status, beat age
    candle,     \* shadow_candles: how the row was written
    decision,   \* shadow_decisions
    trade,      \* shadow_trades, keyed like the decision that opened them
    pending,    \* shadow_system_events of trades with alerted_at null
    health,     \* shadow_exchange_health of the exchange
    daily,      \* shadow_daily_snapshots
    \* The processes.
    sup,        \* is the supervisor of an instance running
    proc,       \* the child process
    faults,     \* faults so far
    omitted     \* history: candles that a provider's answer left out before a later one

env  == <<matches, faults, omitted>>
rows == <<candle, decision, trade, pending>>
vars == <<now, matches, lease, candle, decision, trade, pending, health,
          daily, sup, proc, faults, omitted>>

Candles == 0 .. Hours - 1
Rows    == Markets \X Candles
End     == (Hours + 1) * Hour - 1
Days    == 0 .. Hours \div HoursPerDay
Today   == (now \div Hour) \div HoursPerDay

Alive      == {"STARTING", "RUNNING", "DEGRADED"}
LoopStates == {"MARKET", "CLOSE", "CANDLES", "SAVE", "RECORD", "ENDCYCLE",
               "RECOVER", "BEAT", "IDLE"}
Working    == LoopStates \cup {"RUNTIME", "REPAIR", "RECOVER0", "BEAT0"}
States     == Working \cup {"DOWN", "STANDBY", "HUNG"}

\* A child that does not exist.
NoChild == [pc |-> "DOWN", age |-> 0, todo |-> {}, errs |-> 0, quote |-> 0, answer |-> {}]

(* ------------------------------------------------------------- state --- *)

\* The rows of the collector's tables.
CollectorRow  == [owner : Instances \cup {Nobody}, left : 0 .. Lease,
                  status : Alive \cup {"STOPPED"}, beat : 0 .. MaxAge + 1]
CandleRow     == {"NONE", "LIVE", "RECOVERED"}
DecisionRow   == {"NONE", "WAIT", "REJECT", "ALLOW"}
TradeRow      == [status : {"NONE", "OPEN", "CLOSED"}, opened : 0 .. End]
TradeEvents   == {"FIRST", "CLOSED"} \X Rows
HealthRow     == [status : {"HEALTHY", "DEGRADED", "OFFLINE"}, failures : 0 .. OfflineAfter]
\* A snapshot marked as sent whose report was not delivered looks like any other.
DailyRow      == {"NONE", "OPEN", "SENT", "LOST"}

TypeOK ==
    /\ now \in 0 .. End /\ matches \subseteq Instances
    /\ lease \in CollectorRow
    /\ candle \in [Rows -> CandleRow]
    /\ decision \in [Rows -> DecisionRow]
    /\ trade \in [Rows -> TradeRow]
    /\ pending \subseteq TradeEvents
    /\ health \in HealthRow
    /\ daily \in [Days -> DailyRow]
    /\ sup \in [Instances -> {"UP", "STOPPED"}]
    /\ proc \in [Instances ->
                   [pc : States, age : 0 .. MaxAge, todo : SUBSET Markets,
                    errs : 0 .. Cardinality(Markets), quote : 0 .. End,
                    answer : SUBSET Candles]]
    /\ faults \in 0 .. MaxFaults /\ omitted \subseteq Rows

\* The protocol is locked at tick 0 and no collector has run yet.
Init ==
    /\ now = 0
    /\ matches \in {m \in SUBSET Instances : m # {}}
    /\ lease = [owner |-> Nobody, left |-> 0, status |-> "STOPPED", beat |-> MaxAge + 1]
    /\ candle = [r \in Rows |-> "NONE"]
    /\ decision = [r \in Rows |-> "NONE"]
    /\ trade = [r \in Rows |-> [status |-> "NONE", opened |-> 0]]
    /\ pending = {}
    /\ health = [status |-> "HEALTHY", failures |-> 0]
    /\ daily = [d \in Days |-> "NONE"]
    /\ sup = [i \in Instances |-> "UP"]
    /\ proc = [i \in Instances |-> NoChild]
    /\ faults = 0 /\ omitted = {}

\* What happens because a call failed, a process died or a clock ran out.
Fails  == faults < MaxFaults /\ faults' = faults + 1
NoFail == faults' = faults

(* --------------------------------------------------------- repository --- *)

Saved(m)      == {h \in Candles : candle[<<m, h>>] # "NONE"}
LastOpen(m)   == Max(Saved(m) \cup {-1})
OpenTrades(m) == {h \in Candles : trade[<<m, h>>].status = "OPEN"}
Orphans       == {r \in Rows : candle[r] # "NONE" /\ decision[r] = "NONE"}

At(i, pc)    == proc[i].pc = pc
Goto(i, pc)  == proc' = [proc EXCEPT ![i].pc = pc]

\* The key of shadow_decisions.
Undecided(r) == decision[r] = "NONE"

\* repair_orphan_decisions: every candle without a decision gets a WAIT.
\* Mutant: the repair only counts the orphans.
NothingRepaired == decision
Repaired == [r \in Rows |-> IF r \in Orphans THEN "WAIT" ELSE decision[r]]

\* save_candle, record_recovered_candle (the candle with its suppressed WAIT),
\* record_decision's trade, close_trade and save_daily_snapshot.
Stored(r)       == [candle EXCEPT ![r] = "LIVE"]
StoredRecovered(r) ==
    /\ candle' = [candle EXCEPT ![r] = "RECOVERED"]
    /\ decision' = [decision EXCEPT ![r] = "WAIT"]
Opened(r, quote) == [trade EXCEPT ![r] = [status |-> "OPEN", opened |-> quote]]
Closed(r)       == [trade EXCEPT ![r].status = "CLOSED"]
DaySaved        == [daily EXCEPT ![Today] = IF @ = "NONE" THEN "OPEN" ELSE @]

\* acquire_collector_lease is refused while another owner's lease runs.
\* Mutant: the expiry of the lease is not looked at.
LeaseNeverExpires(i) == lease.owner \notin {i, Nobody}
Busy(i) == lease.owner \notin {i, Nobody} /\ lease.left > 0
Taken(i) == [owner |-> i, left |-> Lease, status |-> "STARTING", beat |-> 0]

\* heartbeat: extends the lease of its owner, refuses anyone else.
Beats(i) == lease.owner = i

Beat(status) ==
    lease' = [lease EXCEPT !.left = Lease, !.status = status, !.beat = 0]

\* release_collector_lease: a no-op for anyone but the owner, and not called
\* by a child that never acquired the lease.
Released(i) ==
    IF proc[i].pc \in Working /\ lease.owner = i
    THEN [lease EXCEPT !.left = 0, !.status = "STOPPED", !.beat = 0]
    ELSE lease

\* deliver_pending: an event is marked only when Telegram took it; the rest
\* of the queue stays for the next call.
Deliver(queue) ==
    \/ NoFail /\ pending' = {}
    \/ Fails /\ queue # {} /\ pending' \in (SUBSET queue) \ {{}}

\* update_exchange_health counts every check that is not HEALTHY.
Checked(status) ==
    [status |-> status,
     failures |-> IF status = "HEALTHY" THEN 0
                  ELSE Min({OfflineAfter, health.failures + 1})]

\* _update_exchange_health: how the errors of a cycle are graded.
Graded(errs) ==
    IF errs = 0 THEN "HEALTHY"
    ELSE IF errs = Cardinality(Markets) /\ health.failures + 1 >= OfflineAfter
    THEN "OFFLINE" ELSE "DEGRADED"

(* ----------------------------------------------------- start of a child --- *)

\* The supervisor starts its child, which first verifies the lock.  A
\* mismatch exits with code 78 and the supervisor gives up for good.
LockVerified(i) == i \in matches
Start(i) ==
    /\ sup[i] = "UP" /\ At(i, "DOWN")
    /\ IF LockVerified(i)
       THEN Goto(i, "STANDBY") /\ UNCHANGED sup
       ELSE sup' = [sup EXCEPT ![i] = "STOPPED"] /\ UNCHANGED proc
    /\ UNCHANGED <<now, lease, rows, health, daily, env>>

\* _wait_for_collector_lease: a refused standby sleeps and asks again.
AcquireLease(i) ==
    /\ At(i, "STANDBY") /\ ~Busy(i)
    /\ lease' = Taken(i)
    /\ Goto(i, "RUNTIME")
    /\ UNCHANGED <<now, rows, health, daily, sup, env>>

\* An exception outside engine.cycle ends the process: its finally clause
\* releases the lease, the supervisor will start a new child.
Raise(i) ==
    /\ proc' = [proc EXCEPT ![i] = NoChild]
    /\ lease' = Released(i)

\* record_collector_runtime refuses an instance that is no longer the owner.
RecordRuntime(i) ==
    /\ At(i, "RUNTIME")
    /\ IF lease.owner = i THEN Goto(i, "REPAIR") /\ UNCHANGED lease ELSE Raise(i)
    /\ UNCHANGED <<now, rows, health, daily, sup, env>>

\* deliver_pending and the first health check of the exchange, which knows
\* only HEALTHY and OFFLINE.
StartupHealth ==
    \/ Deliver(pending) /\ health' = Checked("HEALTHY")
    \/ Fails /\ pending' = {} /\ health' = Checked("OFFLINE")

\* The repair in one transaction, and what follows up to the recovery.
RepairOrphans(i) ==
    /\ At(i, "REPAIR")
    /\ decision' = Repaired
    /\ StartupHealth
    /\ proc' = [proc EXCEPT ![i].pc = "RECOVER0", ![i].todo = Markets]
    /\ UNCHANGED <<now, matches, omitted, lease, candle, trade, daily, sup>>

(* ------------------------------------------------------------ recovery --- *)

\* recover_after_downtime goes through now at start-up, through now - grace
\* in the loop, so that the live path keeps its window.
Through(i) == IF At(i, "RECOVER0") THEN now \div Hour
              ELSE IF now < Grace THEN 0 ELSE (now - Grace) \div Hour

AfterRecovery(i) == IF At(i, "RECOVER0") THEN "BEAT0" ELSE "BEAT"

\* The candles recovery_candles is asked for: from the newest row on.
Asked(i, m) == LastOpen(m) + 1 .. Min({Through(i), Hours}) - 1

\* The market in hand is one of todo; it leaves todo when it is done.
InHand(i) == CHOOSE m \in proc[i].todo : TRUE

Recovering(i) == proc[i].pc \in {"RECOVER0", "RECOVER"} /\ proc[i].todo # {}

\* What is left of the answer; with nothing left the next market follows.
StillToStore(i, rest) ==
    LET left == proc[i].todo \ {InHand(i)} IN
    proc' = IF rest # {} THEN [proc EXCEPT ![i].answer = rest]
            ELSE [proc EXCEPT ![i].answer = {}, ![i].todo = left,
                              ![i].pc = IF left = {} THEN AfterRecovery(i) ELSE @]

\* Nothing is missing, or the provider is asked once.  It may leave out any candles: _dedupe
\* sorts what came and does not look at the interval.  An answer that ends early, or the
\* error that is logged and never raised, counts as a fault; a hole in it does not.
ReachesEnd(answer, asked) == \A h \in asked : \E a \in answer : h <= a

AskCandles(i) ==
    /\ Recovering(i) /\ proc[i].answer = {}
    /\ LET m == InHand(i)
       IN \E answer \in SUBSET Asked(i, m) :
             /\ IF ReachesEnd(answer, Asked(i, m)) THEN NoFail ELSE Fails
             /\ omitted' = omitted \cup {r \in Rows : /\ r[1] = m
                                                    /\ r[2] \in Asked(i, m) \ answer
                                                    /\ \E h \in answer : r[2] < h}
             /\ StillToStore(i, answer)
    /\ UNCHANGED <<now, matches, lease, rows, health, daily, sup>>

\* The order of an answer that _dedupe has sorted.
\* Mutant: newest first, as some exchanges answer.
NewestToStore(answer) == Max(answer)
NextToStore(answer) == Min(answer)

\* record_recovered_candle: the candle with its suppressed WAIT in one transaction, nothing
\* where a row exists.  An exception ends the market.
RecoverCandle(i) ==
    /\ Recovering(i) /\ proc[i].answer # {}
    /\ LET h == NextToStore(proc[i].answer)
           r == <<InHand(i), h>>
       IN \/ /\ NoFail
             /\ StillToStore(i, proc[i].answer \ {h})
             /\ IF candle[r] = "NONE" THEN StoredRecovered(r) ELSE UNCHANGED <<candle, decision>>
          \/ Fails /\ StillToStore(i, {}) /\ UNCHANGED <<candle, decision>>
    /\ UNCHANGED <<now, matches, omitted, lease, trade, pending, health, daily, sup>>

(* ---------------------------------------------------------- one cycle --- *)

\* Nothing between two cycles asks whose lease it is.
BeginCycle(i) ==
    /\ At(i, "IDLE")
    /\ proc' = [proc EXCEPT ![i].pc = "MARKET", ![i].todo = Markets, ![i].errs = 0]
    /\ UNCHANGED <<now, lease, rows, health, daily, sup, env>>

\* process_exchange goes on with the next symbol, with one more error or not.
NextMarket(i, failed) ==
    LET left == proc[i].todo \ {InHand(i)} IN
    proc' = [proc EXCEPT ![i].todo = left, ![i].quote = 0,
                         ![i].errs = IF failed THEN @ + 1 ELSE @,
                         ![i].pc = IF left = {} THEN "ENDCYCLE" ELSE "MARKET"]

\* snapshot and save_quote; _track_position reads the open trade and sees
\* whether the quote has reached its stop or its target.  The quote's exchange time and
\* the time it was received are one: they differ by less than a tick (stale_after).
Snapshot(i) ==
    /\ At(i, "MARKET")
    /\ \/ Fails /\ NextMarket(i, TRUE)
       \/ /\ NoFail
          /\ \E next \in IF OpenTrades(InHand(i)) = {} THEN {"CANDLES"}
                         ELSE {"CANDLES", "CLOSE"} :
                proc' = [proc EXCEPT ![i].pc = next, ![i].quote = now]
    /\ UNCHANGED <<now, matches, omitted, lease, rows, health, daily, sup>>

\* close_trade, its event in the same transaction, then deliver_pending.  A
\* trade another instance has closed meanwhile raises into the error list.
CloseTrade(i) ==
    /\ At(i, "CLOSE")
    /\ \/ \E h \in OpenTrades(InHand(i)) :
            LET r == <<InHand(i), h>> IN
            /\ trade' = Closed(r)
            /\ Deliver(pending \cup {<<"CLOSED", r>>})
            /\ Goto(i, "CANDLES")
       \/ /\ OpenTrades(InHand(i)) = {}
          /\ NextMarket(i, TRUE)
          /\ NoFail /\ UNCHANGED <<trade, pending>>
    /\ UNCHANGED <<now, matches, omitted, lease, candle, decision, health, daily, sup>>

\* closed_candles refuses to serve more than one candle, or one that closed
\* longer than the grace ago.
\* Mutant: a candle is live however long ago it closed.
GraceIgnored(start, end) == start < end - 1
TooLate(start, end) == start < end - 1 \/ now - end * Hour > Grace

\* _process_candles up to the answer of the provider.
ProcessCandles(i) ==
    /\ At(i, "CANDLES")
    /\ LET start == LastOpen(InHand(i)) + 1
           end   == proc[i].quote \div Hour
       IN \/ start >= end /\ NoFail /\ NextMarket(i, FALSE)
          \/ start < end /\ TooLate(start, end) /\ NoFail /\ NextMarket(i, TRUE)
          \/ /\ start < end /\ ~TooLate(start, end)
             /\ \/ Fails /\ \E failed \in BOOLEAN : NextMarket(i, failed)
                \/ NoFail /\ Goto(i, "SAVE")
    /\ UNCHANGED <<now, matches, omitted, lease, rows, health, daily, sup>>

\* The candle that had just closed when the quote was taken.
Row(i) == <<InHand(i), (proc[i].quote \div Hour) - 1>>

\* save_candle: a row that exists ends the matter without a decision.
SaveCandle(i) ==
    /\ At(i, "SAVE")
    /\ IF candle[Row(i)] # "NONE"
       THEN NextMarket(i, FALSE) /\ UNCHANGED candle
       ELSE candle' = Stored(Row(i)) /\ Goto(i, "RECORD")
    /\ UNCHANGED <<now, lease, decision, trade, pending, health, daily, sup, env>>

\* _decide, _shadow_order and record_decision.  No signal, a refused one (an
\* open position, the risk manager, the exchange minimums) or an approved
\* one; then the decision, its trade and the event of the first trade in one
\* transaction, refused by the decision's key when a row exists.
Verdicts(m) == IF OpenTrades(m) = {} THEN {"WAIT", "REJECT", "ALLOW"} ELSE {"WAIT", "REJECT"}

RecordDecision(i) ==
    /\ At(i, "RECORD")
    /\ LET r == Row(i)
           first == \A s \in Rows : trade[s].status = "NONE"
       IN \/ /\ Undecided(r)
             /\ \E verdict \in Verdicts(InHand(i)) :
                  /\ decision' = [decision EXCEPT ![r] = verdict]
                  /\ IF verdict = "ALLOW"
                     THEN /\ trade' = Opened(r, proc[i].quote)
                          /\ Deliver(pending \cup IF first THEN {<<"FIRST", r>>} ELSE {})
                     ELSE NoFail /\ UNCHANGED <<trade, pending>>
             /\ NextMarket(i, FALSE)
          \/ /\ IF Undecided(r) THEN Fails ELSE NoFail
             /\ NextMarket(i, TRUE) /\ UNCHANGED <<decision, trade, pending>>
    /\ UNCHANGED <<now, matches, omitted, lease, candle, health, daily, sup>>

\* The rest of the loop body: the day's snapshot, deliver_pending and the
\* exchange health.
EndCycle(i) ==
    /\ At(i, "ENDCYCLE")
    /\ daily' = DaySaved
    /\ Deliver(pending)
    /\ health' = Checked(Graded(proc[i].errs))
    /\ proc' = [proc EXCEPT ![i].pc = "RECOVER", ![i].todo = Markets, ![i].errs = 0]
    /\ UNCHANGED <<now, matches, omitted, lease, candle, decision, trade, sup>>

\* save_daily_snapshot, then the oldest unsent snapshot of an earlier day is reported by
\* one call, and marked as sent whether or not that call delivered it.
Unsent == {d \in Days : d < Today /\ daily[d] = "OPEN"}

Reported ==
    IF Unsent = {} THEN NoFail /\ daily' = DaySaved
    ELSE \/ NoFail /\ daily' = [DaySaved EXCEPT ![Min(Unsent)] = "SENT"]
         \/ Fails /\ daily' = [DaySaved EXCEPT ![Min(Unsent)] = "LOST"]

\* The heartbeat before the loop, and the one that ends every cycle after the
\* daily report.
Heartbeat(i) ==
    /\ proc[i].pc \in {"BEAT0", "BEAT"}
    /\ IF At(i, "BEAT") THEN Reported ELSE NoFail /\ daily' = daily
    /\ IF Beats(i)
       THEN /\ Beat(IF At(i, "BEAT0") \/ health.status = "HEALTHY"
                    THEN "RUNNING" ELSE "DEGRADED")
            /\ Goto(i, "IDLE")
       ELSE Raise(i)
    /\ UNCHANGED <<now, matches, omitted, rows, health, sup>>

(* --------------------------------------------- failures and supervisor --- *)

\* An unexpected error outside engine.cycle (the database, a notification).
CollectorFails(i) ==
    /\ proc[i].pc \in Working /\ Fails
    /\ Raise(i)
    /\ UNCHANGED <<now, matches, omitted, rows, health, daily, sup>>

\* The process is killed: no finally clause runs, the lease stays.
Crash(i) ==
    /\ proc[i].pc \in Working /\ Fails
    /\ proc' = [proc EXCEPT ![i] = NoChild]
    /\ UNCHANGED <<now, matches, omitted, lease, rows, health, daily, sup>>

\* The event loop blocks for good.
Hang(i) ==
    /\ proc[i].pc \in Working /\ Fails
    /\ proc' = [proc EXCEPT ![i] = [NoChild EXCEPT !.pc = "HUNG", !.age = proc[i].age]]
    /\ UNCHANGED <<now, matches, omitted, lease, rows, health, daily, sup>>

\* check_health: the critical findings, whichever instance caused them.
Critical ==
    \/ lease.owner = Nobody \/ lease.beat > MaxAge
    \/ lease.status \notin Alive
    \/ health.status = "OFFLINE"

\* _stop: a child that does not end within twenty seconds is killed.
Stop(i) ==
    \/ ~At(i, "HUNG") /\ NoFail /\ Raise(i)
    \/ /\ IF At(i, "HUNG") THEN NoFail ELSE Fails
       /\ proc' = [proc EXCEPT ![i] = NoChild] /\ UNCHANGED lease

\* The supervisor looks once the child is old enough, whatever it waits for.
Watchdog(i) ==
    /\ sup[i] = "UP" /\ ~At(i, "DOWN")
    /\ proc[i].age = MaxAge /\ Critical
    /\ Stop(i)
    /\ UNCHANGED <<now, matches, omitted, rows, health, daily, sup>>

\* A deployment is taken down once another can take over: SIGTERM reaches
\* the supervisor, which stops its child.
Undeploy(i) ==
    /\ i \in Retiring /\ sup[i] = "UP"
    /\ \E j \in matches \ {i} : sup[j] = "UP"
    /\ sup' = [sup EXCEPT ![i] = "STOPPED"]
    /\ Stop(i)
    /\ UNCHANGED <<now, matches, omitted, rows, health, daily>>

\* One tick is several minutes.  It is a fault when it passes over a standby
\* that could take the lease, which asks every five seconds, over a start-up
\* that has yet to check the exchange, or when a lease runs out under an owner
\* still at work: the code's own margin is that a start-up and a cycle are
\* shorter than a lease and than the watchdog's age limit (app/core/config.py).
Slow ==
    \/ \E i \in Instances : At(i, "STANDBY") /\ ~Busy(i)
    \/ \E i \in Instances : proc[i].pc \in {"RUNTIME", "REPAIR"}
    \/ lease.left = 1 /\ lease.owner # Nobody /\ proc[lease.owner].pc \in Working

Tick ==
    /\ IF Slow THEN Fails ELSE NoFail
    /\ now' = Min({End, now + 1})
    /\ lease' = [lease EXCEPT !.left = Max({0, @ - 1}), !.beat = Min({MaxAge + 1, @ + 1})]
    /\ proc' = [i \in Instances |-> IF At(i, "DOWN") THEN proc[i]
                                    ELSE [proc[i] EXCEPT !.age = Min({MaxAge, @ + 1})]]
    /\ UNCHANGED <<matches, omitted, rows, health, daily, sup>>

Startup(i) == \/ Start(i) \/ AcquireLease(i) \/ RecordRuntime(i)
              \/ RepairOrphans(i)
Recovery(i) == AskCandles(i) \/ RecoverCandle(i)
Cycle(i) == \/ BeginCycle(i) \/ Snapshot(i) \/ CloseTrade(i) \/ ProcessCandles(i)
            \/ SaveCandle(i) \/ RecordDecision(i) \/ EndCycle(i) \/ Heartbeat(i)
Disruption(i) == CollectorFails(i) \/ Crash(i) \/ Hang(i) \/ Undeploy(i)

Next == \/ Tick
        \/ \E i \in Instances : \/ Startup(i) \/ Recovery(i) \/ Cycle(i)
                                \/ Watchdog(i) \/ Disruption(i)

Spec == Init /\ [][Next]_vars

\* Processes and the clock go on, and a supervisor that finds its child
\* critical stops it.
FairSpec ==
    /\ Spec /\ WF_vars(Tick)
    /\ \A i \in Instances :
         /\ WF_vars(Startup(i) \/ Recovery(i) \/ Cycle(i))
         /\ WF_vars(Watchdog(i))

(* ----------------------------------------------------------- properties --- *)

\* The collector makes no hole of its own: last_candle_open is a maximum, so a candle that
\* the live path, a recovery that died half-way or an overlapping instance skipped would
\* never be asked for again.  Below a stored candle one is missing only if the provider
\* left it out of an answer that had a later one.
NoGaps ==
    \A m \in Markets : \A h \in Saved(m) : \A g \in 0 .. h - 1 :
        g \in Saved(m) \/ <<m, g>> \in omitted

\* README.md:127, which the code does not keep: what was missed is stored.
MissedIsStored ==
    \A m \in Markets : \A h \in Saved(m) : \A g \in 0 .. h - 1 : g \in Saved(m)

\* A shadow trade is prospective: its candle was observed live and decided by
\* the process that observed it, never recovered or repaired, and the quote
\* that priced it was taken after the close and within the grace
\* (closed_candles, record_decision against repair and recovery).
TradeIsProspective ==
    \A r \in Rows : trade[r].status # "NONE" =>
        /\ candle[r] = "LIVE" /\ decision[r] = "ALLOW"
        /\ trade[r].opened - (r[2] + 1) * Hour \in 0 .. Grace

\* Some collector always comes back to its loop as the owner of the lease, after any crash,
\* hang, lost lease or redeployment, with no trade event left in the queue (one committed
\* before a crash is still sent, deliver_pending) and with every finished day that has a
\* snapshot dealt with.  Whether that day's report was delivered is not recorded anywhere.
CollectorResumes ==
    []<>(/\ \E i \in Instances : At(i, "IDLE") /\ lease.owner = i
         /\ pending = {} /\ Unsent = {})

\* README.md:132, which the code does not keep: one report of every completed day.
ReportIsDelivered == \A d \in Days : daily[d] # "LOST"

\* Candles left without a decision by processes that have all ended get one
\* from the next start (repair_orphan_decisions).
OrphanIsRepaired ==
    (Orphans # {} /\ \A i \in Instances : At(i, "DOWN")) ~> (Orphans = {})
=============================================================================
