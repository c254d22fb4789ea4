----------------------------- MODULE PaperTrading -----------------------------
(***************************************************************************)
(* The demo autotrader on the paper broker (src/app/demo.py,               *)
(* src/app/trading/paper_broker.py, positions.py): one coroutine that      *)
(* waits for the frames of each symbol in turn, and an operator who        *)
(* starts, pauses and stops the bot between any two of its steps.  Prices  *)
(* and money are cents (Unit = Cent = 1), as the broker rounds them.       *)
(***************************************************************************)
EXTENDS RiskManager, Sequences, SequencesExt

CONSTANTS
    Symbols,        \* the symbols of the loop, a sequence
    Setups,         \* the setups the signal engine may propose
    Wait,           \* Decision.WAIT
    Prices,         \* the prices a frame may carry
    NoPosition,     \* the symbol has no open position
    Initial         \* initial_balance

SymbolSet == ToSet(Symbols)

\* What open_market is asked for.
Setup == [symbol : SymbolSet, side : Side, entry : Int, stop : Int, target : Int]

\* Position; fee is entry_fee, risk initial_risk, high and low the watermarks.
Position ==
    [side : Side, quantity : Int, entry : Int, stop : Int, target : Int, fee : Int, risk : Int,
     trailing : Int, high : Int, low : Int]

ASSUME BrokerAssumption ==
    /\ Unit = 1 /\ Cent = 1
    /\ Initial \in Nat /\ Prices \subseteq Nat \ {0}
    /\ SlipRate <= Hundred
    /\ Symbols \in Seq(SymbolSet) /\ Symbols # <<>> /\ IsFiniteSet(SymbolSet)
    /\ Setups \subseteq Setup /\ NoPosition \notin Position

VARIABLES
    state,  \* BotState
    book,   \* the broker and the closed positions: balance, positions, last, closed
    seen,   \* _seen_setups
    loop,   \* the symbol whose frames are awaited; 0 between rounds, -1 once run ended
    reached, \* history: the best price of each open position, its fill and every mark
    peaks   \* history: that price of every closed position, in the order of the log, the
            \* mark that closed it included

demoVars == <<state, book, seen, loop, reached, peaks>>

history == <<reached, peaks>>

BotState == {"ACTIVE", "PAUSED", "EMERGENCY_STOP"}

OpenSymbols(b) == {s \in SymbolSet : b.positions[s] # NoPosition}

(***************************************************************************)
(* PaperBroker                                                             *)
(***************************************************************************)

\* _fill_price: worse than the asked price by the slippage.
FillPrice(price, side, entering) ==
    LET up == (side = "LONG") = entering
    IN RoundHalfEven(price * (IF up THEN Hundred + SlipRate ELSE Hundred - SlipRate), Hundred)

Fee(price, quantity) == RoundHalfEven(price * quantity * FeeRate, Hundred)

UnrealizedPnl(b, s) ==
    LET p == b.positions[s] IN Sign(p.side) * (b.last[s] - p.entry) * p.quantity

\* account(); the demo asks for no leverage.
Equity(b) == b.balance + SumFunction([s \in OpenSymbols(b) |-> UnrealizedPnl(b, s)])

UsedMargin(b) ==
    SumFunction([s \in OpenSymbols(b) |-> b.positions[s].entry * b.positions[s].quantity])

Available(b) == Equity(b) - UsedMargin(b)

\* The intent of DemoAutotrader.process: the day's result and the losing streak are
\* always zero.
DemoIntent(b, u) ==
    [side |-> u.side, entry |-> u.entry, stop |-> u.stop, target |-> u.target,
     equity |-> Equity(b), daily |-> 0, open |-> Cardinality(OpenSymbols(b)), losses |-> 0,
     leverage |-> 1, available |-> Available(b), cooldown |-> FALSE, quiet |-> TRUE]

\* open_market accepts: the margin and the fee are taken from the fill price.
Accepts(b, u) ==
    LET n == DemoIntent(b, u)
        entry == FillPrice(u.entry, u.side, TRUE)
    IN /\ Approved(n)
       /\ entry * ApprovedQuantity(n) + Fee(entry, ApprovedQuantity(n)) <= Available(b)

\* process: trailing_distance is the initial risk of the fill.
TrailingDistance(entry, u) == Max({entry - u.stop, u.stop - entry})

\* open_market, and the position put back with its trailing distance.
OpenMarket(b, u) ==
    LET entry == FillPrice(u.entry, u.side, TRUE)
        quantity == ApprovedQuantity(DemoIntent(b, u))
        fee == Fee(entry, quantity)
    IN [b EXCEPT
          !.balance = @ - fee,
          !.last[u.symbol] = entry,
          !.positions[u.symbol] =
            [side |-> u.side, quantity |-> quantity, entry |-> entry, stop |-> u.stop,
             target |-> u.target, fee |-> fee,
             risk |-> Max({entry - u.stop, u.stop - entry}),
             trailing |-> TrailingDistance(entry, u), high |-> entry, low |-> entry]]

Gross(p, exit) == Sign(p.side) * (exit - p.entry) * p.quantity

ExitFee(p, exit) == Fee(exit, p.quantity)

\* Mutant: the realized result, which holds the entry fee, is what is booked.
BookedRealized(p, exit) == Gross(p, exit) - p.fee - ExitFee(p, exit)

\* What an exit adds to the balance; the entry fee left it at the opening.
Booked(p, exit) == Gross(p, exit) - ExitFee(p, exit)

\* ClosedPosition of a position that is closed at a price.
Closing(p, price, reason) ==
    LET exit == FillPrice(price, p.side, FALSE)
    IN [position |-> p, exit |-> exit, reason |-> reason,
        realized |-> Gross(p, exit) - p.fee - ExitFee(p, exit)]

\* close_market
CloseMarket(b, s, price, reason) ==
    LET x == Closing(b.positions[s], price, reason)
    IN [b EXCEPT
          !.balance = @ + Booked(x.position, x.exit),
          !.last[s] = x.exit,
          !.positions[s] = NoPosition,
          !.closed = Append(@, x)]

\* close_all at the last prices; the log keeps the order the positions were opened in,
\* which is any order here.
CloseAll(b, order) ==
    LET x(s) == Closing(b.positions[s], b.last[s], "EMERGENCY_CLOSE")
    IN [balance |-> b.balance
            + SumFunction([s \in OpenSymbols(b) |-> Booked(b.positions[s], x(s).exit)]),
        last |-> [s \in SymbolSet |-> IF s \in OpenSymbols(b) THEN x(s).exit ELSE b.last[s]],
        positions |-> [s \in SymbolSet |-> NoPosition],
        closed |-> b.closed \o [k \in DOMAIN order |-> x(order[k])]]

(***************************************************************************)
(* PositionManager                                                         *)
(***************************************************************************)

\* The price itself has reached one initial risk beyond the entry.
EvenReached(p, price) == Sign(p.side) * (price - p.entry) >= p.risk

\* Mutant: the stop trails the watermark of the marks before this one.
AdvancedLate(p, price) ==
    LET best == IF p.side = "LONG" THEN p.high ELSE p.low
        even == IF EvenReached(p, price) THEN Tighter(p.side, p.stop, p.entry) ELSE p.stop
    IN [p EXCEPT !.high = Max({p.high, price}), !.low = Min({p.low, price}),
                 !.stop = Tighter(p.side, even, best - Sign(p.side) * p.trailing)]

\* _advance_protection
Advanced(p, price) ==
    LET high == Max({p.high, price})
        low == Min({p.low, price})
        best == IF p.side = "LONG" THEN high ELSE low
        even == IF EvenReached(p, price) THEN Tighter(p.side, p.stop, p.entry) ELSE p.stop
        trail == IF p.trailing = 0 THEN even
                 ELSE Tighter(p.side, even, best - Sign(p.side) * p.trailing)
    IN [p EXCEPT !.high = high, !.low = low, !.stop = trail]

\* on_price: mark, then leave at the stop or the target, or move the stop.
OnPrice(b, s, price) ==
    LET marked == [b EXCEPT !.last[s] = price]
        p == b.positions[s]
    IN CASE p = NoPosition -> marked
         [] p # NoPosition /\ StopHit(p.side, p.stop, price, price) ->
                CloseMarket(marked, s, p.stop, "STOP_LOSS")
         [] p # NoPosition /\ ~StopHit(p.side, p.stop, price, price)
              /\ TargetHit(p.side, p.target, price, price) ->
                CloseMarket(marked, s, p.target, "TAKE_PROFIT")
         [] OTHER -> [marked EXCEPT !.positions[s] = Advanced(p, price)]

(***************************************************************************)
(* DemoAutotrader                                                          *)
(***************************************************************************)

DemoInit ==
    /\ state = "PAUSED"
    /\ book = [balance |-> Initial, positions |-> [s \in SymbolSet |-> NoPosition],
               last |-> [s \in SymbolSet |-> 0], closed |-> <<>>]
    /\ seen = {}
    /\ loop = 0
    /\ reached = [s \in SymbolSet |-> 0]
    /\ peaks = <<>>

\* start and pause
SetState(new) ==
    /\ state # "EMERGENCY_STOP"
    /\ state' = new
    /\ UNCHANGED <<book, seen, loop, history>>

\* emergency_stop
EmergencyStop(close) ==
    /\ state' = "EMERGENCY_STOP"
    /\ \/ /\ close
          /\ \E order \in SetToSeqs(OpenSymbols(book)) :
                /\ book' = CloseAll(book, order)
                /\ peaks' = peaks \o [k \in DOMAIN order |-> reached[order[k]]]
          /\ reached' = [s \in SymbolSet |-> 0]
       \/ /\ ~close
          /\ UNCHANGED <<book, history>>
    /\ UNCHANGED <<seen, loop>>

\* run: a round starts if the bot is active at its top, and ends at an emergency stop.
BeginRound ==
    /\ loop = 0
    /\ \/ state = "ACTIVE" /\ loop' = 1
       \/ state = "EMERGENCY_STOP" /\ loop' = -1
    /\ UNCHANGED <<state, book, seen, history>>

\* process opens a position for this setup.
Enters(s, u) ==
    /\ state = "ACTIVE"
    /\ u # Wait
    /\ book.positions[s] = NoPosition
    /\ u \notin seen
    /\ Accepts(book, u)

\* The history of a symbol's position p, whose best price was best, once price is marked
\* and the book is after.
Remember(p, best, s, price, after) ==
    /\ reached' = [reached EXCEPT ![s] =
                     IF after.positions[s] = NoPosition THEN 0 ELSE Tighter(p.side, best, price)]
    /\ peaks' = IF p # NoPosition /\ after.positions[s] = NoPosition
                THEN Append(peaks, Tighter(p.side, best, price)) ELSE peaks

\* The frames of the awaited symbol arrive: process, then on_price, in whatever state
\* the operator has left the bot meanwhile.
FramesArrive(u, price) ==
    /\ loop > 0
    /\ LET s == Symbols[loop]
       IN /\ u = Wait \/ (u # Wait /\ u.symbol = s)
          /\ \/ /\ Enters(s, u)
                /\ book' = OnPrice(OpenMarket(book, u), s, price)
                /\ LET p == OpenMarket(book, u).positions[s]
                   IN Remember(p, p.entry, s, price, book')
                /\ seen' = seen \cup {u}
             \/ /\ ~Enters(s, u)
                /\ book' = OnPrice(book, s, price)
                /\ Remember(book.positions[s], reached[s], s, price, book')
                /\ UNCHANGED seen
    /\ loop' = IF loop = Len(Symbols) THEN 0 ELSE loop + 1
    /\ UNCHANGED state

\* The provider raises: the exception leaves run.
FramesFail ==
    /\ loop > 0
    /\ loop' = -1
    /\ UNCHANGED <<state, book, seen, history>>

DemoNext ==
    \/ \E new \in BotState \ {"EMERGENCY_STOP"} : SetState(new)
    \/ \E close \in BOOLEAN : EmergencyStop(close)
    \/ BeginRound
    \/ \E u \in Setups \cup {Wait}, price \in Prices : FramesArrive(u, price)
    \/ FramesFail

DemoSpec == DemoInit /\ [][DemoNext]_demoVars

(***************************************************************************)
(* Properties                                                              *)
(***************************************************************************)

ClosedPosition ==
    [position : Position, exit : Int, realized : Int,
     reason : {"STOP_LOSS", "TAKE_PROFIT", "EMERGENCY_CLOSE"}]

Book ==
    [balance : Int, positions : [SymbolSet -> {NoPosition} \cup Position],
     last : [SymbolSet -> Int], closed : Seq(ClosedPosition)]

\* The types of the bot, the broker and the log.
DemoTypeOK ==
    /\ state \in BotState
    /\ book \in Book
    /\ seen \subseteq Setups
    /\ loop \in -1 .. Len(Symbols)
    /\ reached \in [SymbolSet -> Int]
    /\ peaks \in Seq(Int)

\* The cash of the broker is what it started with, plus every realized result of the
\* log, less the entry fees of the positions still open: no fee is charged twice or
\* lost over any mix of stops, targets and emergency closes (paper_broker.py 68-98).
BooksBalance ==
    book.balance =
        Initial + SumFunction([k \in DOMAIN book.closed |-> book.closed[k].realized])
          - SumFunction([s \in OpenSymbols(book) |-> book.positions[s].fee])

\* The exit gave back at most one initial risk of the best price of the position.  A mark
\* beyond the target counts as the target: the position leaves there and the rest of the
\* move is not the account's (positions.py 20-23).
LockedIn(x, best) ==
    LET p == x.position
        kept == IF Sign(p.side) * (best - p.target) > 0 THEN p.target ELSE best
    IN Sign(p.side) * (x.exit - FillPrice(kept - Sign(p.side) * p.risk, p.side, FALSE)) >= 0

\* No exit, by a stop, a target or an emergency, gives back more than one initial risk of
\* the best price from the fill of the position to the mark that closed it, up to its
\* target: a demo position always trails (demo.py 86-88, positions.py 52-66).  The best
\* price is read from the marks, not from the watermarks the stop is computed from.
GainIsLocked ==
    /\ Len(peaks) = Len(book.closed)
    /\ \A k \in DOMAIN book.closed : LockedIn(book.closed[k], peaks[k])
=============================================================================
