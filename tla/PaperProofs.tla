------------------------------ MODULE PaperProofs ------------------------------
(***************************************************************************)
(* Theorems about the demo account for any symbols, setups, prices, costs  *)
(* and risk profile, and any length of run.                                *)
(*                                                                         *)
(* The balance is rebuilt from the closed trades and the fees of the open  *)
(* ones, and every price an open position can be closed at keeps it within *)
(* one initial risk of its watermark (BookInv).  The watermark is the best *)
(* price the history has of it (Watermarks); the mark that closes it may   *)
(* be better, and then the exit is at the target.                          *)
(***************************************************************************)
EXTENDS PaperTrading, SumTheorems

(***************************************************************************)
(* Prices and fills                                                        *)
(***************************************************************************)

\* Rounding to the cent keeps an order and leaves whole cents alone.
LEMMA RoundOrder ==
  ASSUME NEW m \in Int, NEW n \in Int
  PROVE  /\ RoundHalfEven(m, Hundred) \in Int
         /\ RoundHalfEven(m * Hundred, Hundred) = m
         /\ m <= n => RoundHalfEven(m, Hundred) <= RoundHalfEven(n, Hundred)
BY DEF RoundHalfEven, Hundred

\* An entry is filled at its price or worse.
LEMMA EntryIsWorse ==
  ASSUME NEW price \in Nat, NEW side \in Side
  PROVE  Sign(side) * (FillPrice(price, side, TRUE) - price) >= 0
<1> DEFINE up   == price * (Hundred + SlipRate)
           down == price * (Hundred - SlipRate)
<1>1. SlipRate \in Nat /\ Hundred = 100
  BY ProfileAssumption DEF Hundred
<1>2. up \in Int /\ down \in Int /\ down <= price * Hundred /\ price * Hundred <= up
  BY <1>1
<1>3. /\ FillPrice(price, "LONG", TRUE) = RoundHalfEven(up, Hundred)
      /\ FillPrice(price, "SHORT", TRUE) = RoundHalfEven(down, Hundred)
  BY DEF FillPrice
<1>4. price * Hundred \in Int /\ RoundHalfEven(price * Hundred, Hundred) = price
  BY <1>1, RoundOrder
<1> HIDE DEF up, down
<1>5. RoundHalfEven(down, Hundred) <= price /\ price <= RoundHalfEven(up, Hundred)
  BY <1>2, <1>4, RoundOrder
<1>6. RoundHalfEven(down, Hundred) \in Int /\ RoundHalfEven(up, Hundred) \in Int
  BY <1>2, RoundOrder
<1> DEFINE fill == FillPrice(price, side, TRUE)
<1>7. CASE side = "LONG"
  <2>1. Sign(side) = 1 /\ fill = RoundHalfEven(up, Hundred)
    BY <1>3, <1>7 DEF Sign
  <2> HIDE DEF fill
  <2>2. Sign(side) * (fill - price) >= 0
    BY <1>5, <1>6, <2>1
  <2> QED BY <2>2 DEF fill
<1>8. CASE side = "SHORT"
  <2>1. Sign(side) = -1 /\ fill = RoundHalfEven(down, Hundred)
    BY <1>3, <1>8 DEF Sign
  <2> HIDE DEF fill
  <2>2. Sign(side) * (fill - price) >= 0
    BY <1>5, <1>6, <2>1
  <2> QED BY <2>2 DEF fill
<1> QED BY <1>7, <1>8 DEF Side

LEMMA FillTyped ==
  ASSUME NEW price \in Int, NEW side \in Side, NEW entering \in BOOLEAN
  PROVE  FillPrice(price, side, entering) \in Int
<1>1. SlipRate \in Nat /\ Hundred = 100
  BY ProfileAssumption DEF Hundred
<1>2. price * (Hundred + SlipRate) \in Int /\ price * (Hundred - SlipRate) \in Int
  BY <1>1
<1> QED BY <1>2, RoundOrder DEF FillPrice

\* The better the price of an exit, the better its fill.
LEMMA ExitOrder ==
  ASSUME NEW worse \in Int, NEW better \in Int, NEW side \in Side,
         Sign(side) * (better - worse) >= 0
  PROVE  Sign(side) * (FillPrice(better, side, FALSE) - FillPrice(worse, side, FALSE)) >= 0
<1>1. SlipRate \in Nat /\ SlipRate <= Hundred /\ Hundred = 100
  BY ProfileAssumption, BrokerAssumption DEF Hundred
<1>2. CASE side = "LONG"
  <2>1. worse <= better
    BY <1>2 DEF Sign
  <2> DEFINE w == worse * (Hundred - SlipRate)
             b == better * (Hundred - SlipRate)
  <2>2. w \in Int /\ b \in Int /\ w <= b
    BY <1>1, <2>1
  <2>3. FillPrice(better, side, FALSE) = RoundHalfEven(b, Hundred)
        /\ FillPrice(worse, side, FALSE) = RoundHalfEven(w, Hundred)
    BY <1>2 DEF FillPrice
  <2> HIDE DEF w, b
  <2>4. /\ RoundHalfEven(w, Hundred) \in Int /\ RoundHalfEven(b, Hundred) \in Int
        /\ RoundHalfEven(w, Hundred) <= RoundHalfEven(b, Hundred)
    BY <2>2, RoundOrder
  <2>5. Sign(side) = 1
    BY <1>2 DEF Sign
  <2>6. Sign(side) * (RoundHalfEven(b, Hundred) - RoundHalfEven(w, Hundred)) >= 0
    BY <2>4, <2>5
  <2> QED BY <2>3, <2>6
<1>3. CASE side = "SHORT"
  <2>1. better <= worse
    BY <1>3 DEF Sign
  <2> DEFINE w == worse * (Hundred + SlipRate)
             b == better * (Hundred + SlipRate)
  <2>2. w \in Int /\ b \in Int /\ b <= w
    BY <1>1, <2>1
  <2>3. FillPrice(better, side, FALSE) = RoundHalfEven(b, Hundred)
        /\ FillPrice(worse, side, FALSE) = RoundHalfEven(w, Hundred)
    BY <1>3 DEF FillPrice
  <2> HIDE DEF w, b
  <2>4. /\ RoundHalfEven(w, Hundred) \in Int /\ RoundHalfEven(b, Hundred) \in Int
        /\ RoundHalfEven(b, Hundred) <= RoundHalfEven(w, Hundred)
    BY <2>2, RoundOrder
  <2>5. Sign(side) = -1
    BY <1>3 DEF Sign
  <2>6. Sign(side) * (RoundHalfEven(b, Hundred) - RoundHalfEven(w, Hundred)) >= 0
    BY <2>4, <2>5
  <2> QED BY <2>3, <2>6
<1> QED BY <1>2, <1>3 DEF Side

(***************************************************************************)
(* The inductive invariant, on a book                                      *)
(***************************************************************************)

Best(p) == IF p.side = "LONG" THEN p.high ELSE p.low

\* A price gives back at most one initial risk of the best price.
Keeps(p, price) == Sign(p.side) * (price - Best(p)) >= -p.risk

\* Wherever an open position leaves, at its stop, its target or its last price, it does.
Locked(p, last) ==
    /\ p.risk > 0 /\ p.trailing = p.risk
    /\ Keeps(p, p.stop) /\ Keeps(p, p.target) /\ Keeps(p, last)

OpenAreLocked(b) == \A s \in OpenSymbols(b) : Locked(b.positions[s], b.last[s])

Realized(b) == SumFunction([k \in DOMAIN b.closed |-> b.closed[k].realized])

OpenFees(b) == SumFunction([s \in OpenSymbols(b) |-> b.positions[s].fee])

Balanced(b) == b.balance = Initial + Realized(b) - OpenFees(b)

BookInv(b) == b \in Book /\ Balanced(b) /\ OpenAreLocked(b)

(***************************************************************************)
(* The best prices: the watermarks of the open positions, and what the     *)
(* closed ones have kept                                                   *)
(***************************************************************************)

\* The best price of every symbol but these is the watermark of its position.
Watermarks(b, best, but) == \A s \in OpenSymbols(b) \ but : best[s] = Best(b.positions[s])

LogIsLocked(b, bests) ==
    /\ Len(bests) = Len(b.closed)
    /\ \A k \in DOMAIN b.closed : LockedIn(b.closed[k], bests[k])

DemoInv ==
    /\ DemoTypeOK /\ BookInv(book)
    /\ Watermarks(book, reached, {}) /\ LogIsLocked(book, peaks)


(***************************************************************************)
(* Books                                                                   *)
(***************************************************************************)

LEMMA OpenTyped ==
  ASSUME NEW b \in Book
  PROVE  /\ OpenSymbols(b) \subseteq SymbolSet /\ IsFiniteSet(OpenSymbols(b))
         /\ \A s \in OpenSymbols(b) : b.positions[s] \in Position
<1>1. IsFiniteSet(SymbolSet) /\ OpenSymbols(b) \subseteq SymbolSet
  BY BrokerAssumption DEF OpenSymbols
<1>2. IsFiniteSet(OpenSymbols(b))
  BY <1>1, FS_Subset
<1> QED BY <1>1, <1>2 DEF OpenSymbols, Book

LEMMA OpenFeesTyped == ASSUME NEW b \in Book PROVE OpenFees(b) \in Int
<1> DEFINE f == [s \in OpenSymbols(b) |-> b.positions[s].fee]
<1>1. f \in [OpenSymbols(b) -> Int]
  BY OpenTyped DEF Position
<1> QED BY <1>1, OpenTyped, SumType DEF OpenFees

LEMMA RealizedTyped == ASSUME NEW b \in Book PROVE Realized(b) \in Int
<1> DEFINE f == [k \in DOMAIN b.closed |-> b.closed[k].realized]
<1>1. b.closed \in Seq(ClosedPosition)
  BY DEF Book
<1>2. \A k \in DOMAIN b.closed : b.closed[k] \in ClosedPosition
  BY <1>1
<1>3. f \in [DOMAIN b.closed -> Int]
  BY <1>2 DEF ClosedPosition
<1>4. IsFiniteSet(DOMAIN b.closed)
  BY <1>1, FS_Interval
<1> QED BY <1>3, <1>4, SumType DEF Realized

\* What a log of one more exit has realized.
LEMMA RealizedGrows ==
  ASSUME NEW b \in Book, NEW c, NEW x \in ClosedPosition, c.closed = Append(b.closed, x)
  PROVE  Realized(c) = Realized(b) + x.realized
<1> DEFINE n == Len(b.closed) + 1
           f == [k \in DOMAIN c.closed |-> c.closed[k].realized]
           g == [k \in DOMAIN b.closed |-> b.closed[k].realized]
<1>1. /\ b.closed \in Seq(ClosedPosition) /\ c.closed \in Seq(ClosedPosition)
      /\ Len(b.closed) \in Nat /\ DOMAIN c.closed = 1 .. n
      /\ DOMAIN b.closed = (1 .. n) \ {n} /\ c.closed[n] = x
      /\ \A k \in DOMAIN b.closed : c.closed[k] = b.closed[k]
  BY DEF Book
<1>2. IsFiniteSet(1 .. n)
  BY <1>1, FS_Interval
<1>3. \A k \in DOMAIN c.closed : c.closed[k].realized \in Int
  <2>1. \A k \in DOMAIN c.closed : c.closed[k] \in ClosedPosition
    BY <1>1
  <2> QED BY <2>1 DEF ClosedPosition
<1>4. /\ DOMAIN f = DOMAIN c.closed /\ f \in [DOMAIN f -> Int]
      /\ g \in [DOMAIN c.closed \ {n} -> Int]
      /\ \A k \in DOMAIN c.closed \ {n} : f[k] = g[k]
      /\ n \in DOMAIN f /\ f[n] = x.realized
  BY <1>1, <1>3
<1>5. OneMore(f, g, n)
  BY <1>1, <1>2, <1>4 DEF OneMore
<1> HIDE DEF f, g
<1>6. SumFunction(f) = SumFunction(g) + f[n]
  BY <1>5, SumOfOneMore
<1> QED BY <1>4, <1>6 DEF Realized, f, g

\* What the positions have paid when one symbol more is open.
LEMMA OpenFeesGrow ==
  ASSUME NEW b \in Book, NEW c \in Book, NEW s \in OpenSymbols(c),
         OpenSymbols(b) = OpenSymbols(c) \ {s},
         \A o \in OpenSymbols(b) : c.positions[o] = b.positions[o]
  PROVE  OpenFees(c) = OpenFees(b) + c.positions[s].fee
<1> DEFINE f == [o \in OpenSymbols(c) |-> c.positions[o].fee]
           g == [o \in OpenSymbols(b) |-> b.positions[o].fee]
<1>1. /\ IsFiniteSet(OpenSymbols(c))
      /\ \A o \in OpenSymbols(c) : c.positions[o] \in Position
      /\ \A o \in OpenSymbols(b) : b.positions[o] \in Position
  BY OpenTyped
<1>2. OneMore(f, g, s) /\ f[s] = c.positions[s].fee
  BY <1>1 DEF OneMore, Position
<1> HIDE DEF f, g
<1>3. SumFunction(f) = SumFunction(g) + f[s]
  BY <1>2, SumOfOneMore
<1> QED BY <1>2, <1>3 DEF OpenFees, f, g

(***************************************************************************)
(* Exits                                                                   *)
(***************************************************************************)

\* The log row of an exit.
LEMMA ClosingTyped ==
  ASSUME NEW p \in Position, NEW price \in Int,
         NEW reason \in {"STOP_LOSS", "TAKE_PROFIT", "EMERGENCY_CLOSE"}
  PROVE  LET x == Closing(p, price, reason)
         IN /\ x \in ClosedPosition /\ x.position = p
            /\ x.exit = FillPrice(price, p.side, FALSE) /\ x.exit \in Int
            /\ Booked(p, x.exit) \in Int
            /\ Booked(p, x.exit) = x.realized + p.fee
<1> DEFINE x == Closing(p, price, reason)
           exit == FillPrice(price, p.side, FALSE)
<1>1. /\ p.side \in Side /\ Sign(p.side) \in {1, -1}
      /\ p.quantity \in Int /\ p.entry \in Int /\ p.fee \in Int
  BY DEF Position, Sign
<1>2. exit \in Int
  BY <1>1, FillTyped
<1> HIDE DEF exit
<1>3. Gross(p, exit) \in Int /\ ExitFee(p, exit) \in Int
  <2>1. FeeRate \in Nat /\ Hundred = 100
    BY ProfileAssumption DEF Hundred
  <2>2. exit * p.quantity * FeeRate \in Int
    BY <1>1, <1>2, <2>1
  <2>3. ExitFee(p, exit) \in Int
    BY <2>2, RoundOrder DEF ExitFee, Fee
  <2>4. Gross(p, exit) \in Int
    BY <1>1, <1>2 DEF Gross
  <2> QED BY <2>3, <2>4
<1>6. x = [position |-> p, exit |-> exit, reason |-> reason,
           realized |-> Gross(p, exit) - p.fee - ExitFee(p, exit)]
  BY DEF Closing, exit
<1>7. x \in ClosedPosition /\ x.position = p /\ x.exit = exit
      /\ x.realized = Gross(p, exit) - p.fee - ExitFee(p, exit)
  BY <1>1, <1>2, <1>3, <1>6 DEF ClosedPosition
<1>8. Booked(p, exit) \in Int /\ Booked(p, exit) = x.realized + p.fee
  BY <1>1, <1>3, <1>7 DEF Booked
<1> HIDE DEF x
<1> QED BY <1>2, <1>7, <1>8 DEF x, exit

\* What a best price counts for, and a price that gives back at most one risk of it.
Kept(p, best) == IF Sign(p.side) * (best - p.target) > 0 THEN p.target ELSE best

Gives(p, price, best) == Sign(p.side) * (price - Kept(p, best)) >= -p.risk

\* The log row of an exit at such a price.
LEMMA ClosingLocked ==
  ASSUME NEW p \in Position, NEW price \in Int, NEW best \in Int, Gives(p, price, best),
         NEW reason \in {"STOP_LOSS", "TAKE_PROFIT", "EMERGENCY_CLOSE"}
  PROVE  LockedIn(Closing(p, price, reason), best)
<1> DEFINE x == Closing(p, price, reason)
           level == Kept(p, best) - Sign(p.side) * p.risk
<1>1. /\ p.side \in Side /\ p.risk \in Int /\ p.target \in Int /\ Sign(p.side) \in {1, -1}
  BY DEF Position, Sign
<1>2. Kept(p, best) \in Int
  BY <1>1 DEF Kept
<1>3. level \in Int /\ Sign(p.side) * (price - level) >= 0
  <2> DEFINE kept == Kept(p, best)
  <2>1. Sign(p.side) * (price - kept) >= -p.risk /\ kept \in Int
    BY <1>2 DEF Gives
  <2> HIDE DEF kept
  <2>2. /\ kept - Sign(p.side) * p.risk \in Int
        /\ Sign(p.side) * (price - (kept - Sign(p.side) * p.risk)) >= 0
    BY <1>1, <2>1
  <2> QED BY <2>2 DEF kept
<1> HIDE DEF level
<1>4. x.position = p /\ x.exit = FillPrice(price, p.side, FALSE)
  BY ClosingTyped
<1> HIDE DEF x
<1>5. Sign(p.side) * (x.exit - FillPrice(level, p.side, FALSE)) >= 0
  BY <1>1, <1>3, <1>4, ExitOrder
<1>6. LockedIn(x, best)
  BY <1>4, <1>5 DEF LockedIn, level, Kept
<1> QED BY <1>6 DEF x

\* A last price that keeps the gain, the target, and a stop the mark has reached.
LEMMA ExitsGive ==
  ASSUME NEW p \in Position, NEW last \in Int, Locked(p, last), NEW price \in Int
  PROVE  /\ Best(p) \in Int /\ Tighter(p.side, Best(p), price) \in Int
         /\ Gives(p, last, Best(p))
         /\ Gives(p, p.target, Tighter(p.side, Best(p), price))
         /\ StopHit(p.side, p.stop, price, price)
              => Gives(p, p.stop, Tighter(p.side, Best(p), price))
<1> DEFINE top == Best(p)
           best == Tighter(p.side, top, price)
<1>1. /\ p.side \in Side /\ p.risk \in Int /\ p.target \in Int /\ p.stop \in Int
      /\ top \in Int /\ p.risk > 0
  BY DEF Position, Best, Locked
<1>2. /\ Sign(p.side) * (last - top) >= -p.risk
      /\ Sign(p.side) * (p.stop - top) >= -p.risk
  BY DEF Locked, Keeps
<1> HIDE DEF top
<1>3. CASE p.side = "LONG"
  <2>1. Sign(p.side) = 1 /\ best = Max({top, price})
    BY <1>3 DEF Sign, Tighter
  <2>2. Max({top, price}) = IF top >= price THEN top ELSE price
    BY <1>1 DEF Max
  <2>3. best = IF top >= price THEN top ELSE price
    BY <2>1, <2>2
  <2> HIDE DEF best
  <2>4. best \in Int /\ best \in {top, price}
    BY <1>1, <2>3
  <2>5. Gives(p, last, top) /\ Gives(p, p.target, best)
    BY <1>1, <1>2, <2>1, <2>4 DEF Gives, Kept
  <2>6. ASSUME StopHit(p.side, p.stop, price, price) PROVE Gives(p, p.stop, best)
    <3>1. price <= p.stop
      BY <1>3, <2>6 DEF StopHit
    <3> QED BY <1>1, <1>2, <2>1, <2>4, <3>1 DEF Gives, Kept
  <2> QED BY <1>1, <2>4, <2>5, <2>6 DEF best, top
<1>4. CASE p.side = "SHORT"
  <2>1. Sign(p.side) = -1 /\ best = Min({top, price})
    BY <1>4 DEF Sign, Tighter
  <2>2. Min({top, price}) = IF top <= price THEN top ELSE price
    BY <1>1 DEF Min
  <2>3. best = IF top <= price THEN top ELSE price
    BY <2>1, <2>2
  <2> HIDE DEF best
  <2>4. best \in Int /\ best \in {top, price}
    BY <1>1, <2>3
  <2>5. Gives(p, last, top) /\ Gives(p, p.target, best)
    BY <1>1, <1>2, <2>1, <2>4 DEF Gives, Kept
  <2>6. ASSUME StopHit(p.side, p.stop, price, price) PROVE Gives(p, p.stop, best)
    <3>1. price >= p.stop
      BY <1>4, <2>6 DEF StopHit
    <3> QED BY <1>1, <1>2, <2>1, <2>4, <3>1 DEF Gives, Kept
  <2> QED BY <1>1, <2>4, <2>5, <2>6 DEF best, top
<1> QED BY <1>1, <1>3, <1>4 DEF Side


OthersAreLocked(b, s) ==
    \A o \in OpenSymbols(b) \ {s} : Locked(b.positions[o], b.last[o])

LEMMA CloseMarketKeeps ==
  ASSUME NEW b \in Book, Balanced(b), NEW s \in OpenSymbols(b),
         OthersAreLocked(b, s), NEW price \in Int,
         NEW reason \in {"STOP_LOSS", "TAKE_PROFIT", "EMERGENCY_CLOSE"}
  PROVE  LET c == CloseMarket(b, s, price, reason)
         IN /\ BookInv(c)
            /\ c.positions[s] = NoPosition
            /\ \A o \in SymbolSet \ {s} : c.positions[o] = b.positions[o]
            /\ c.closed = Append(b.closed, Closing(b.positions[s], price, reason))
<1> DEFINE p == b.positions[s]
           x == Closing(p, price, reason)
           c == CloseMarket(b, s, price, reason)
<1>1. s \in SymbolSet /\ p \in Position /\ IsFiniteSet(OpenSymbols(b))
  BY OpenTyped
<1>2. /\ x \in ClosedPosition /\ x.position = p /\ x.exit \in Int
      /\ Booked(p, x.exit) \in Int
      /\ Booked(p, x.exit) = x.realized + p.fee
  BY <1>1, ClosingTyped
<1>20. c = [b EXCEPT !.balance = @ + Booked(x.position, x.exit), !.last[s] = x.exit,
                    !.positions[s] = NoPosition, !.closed = Append(@, x)]
  BY DEF CloseMarket
<1> HIDE DEF x, c
<1>21. b = [balance |-> b.balance, positions |-> b.positions, last |-> b.last,
            closed |-> b.closed]
  BY DEF Book
<1>3. c = [balance |-> b.balance + Booked(p, x.exit),
           positions |-> [b.positions EXCEPT ![s] = NoPosition],
           last |-> [b.last EXCEPT ![s] = x.exit], closed |-> Append(b.closed, x)]
  BY <1>2, <1>20, <1>21
<1> HIDE DEF c
<1>4. c \in Book
  <2>1. /\ b.balance \in Int /\ b.positions \in [SymbolSet -> {NoPosition} \cup Position]
        /\ b.last \in [SymbolSet -> Int] /\ b.closed \in Seq(ClosedPosition)
    BY DEF Book
  <2>2. /\ [b.positions EXCEPT ![s] = NoPosition] \in [SymbolSet -> {NoPosition} \cup Position]
        /\ [b.last EXCEPT ![s] = x.exit] \in [SymbolSet -> Int]
    BY <1>2, <2>1
  <2>3. Append(b.closed, x) \in Seq(ClosedPosition) /\ b.balance + Booked(p, x.exit) \in Int
    BY <1>2, <2>1
  <2> QED BY <1>3, <2>2, <2>3 DEF Book
<1>5. /\ c.balance = b.balance + Booked(p, x.exit)
      /\ c.closed = Append(b.closed, x)
      /\ OpenSymbols(c) = OpenSymbols(b) \ {s} /\ c.positions[s] = NoPosition
      /\ \A o \in SymbolSet \ {s} : c.positions[o] = b.positions[o] /\ c.last[o] = b.last[o]
  BY <1>1, <1>3 DEF Book, OpenSymbols
<1>6. Balanced(c)
  <2>1. Realized(c) = Realized(b) + x.realized
    BY <1>2, <1>5, RealizedGrows
  <2>2. OpenFees(b) = OpenFees(c) + p.fee
    <3>1. \A o \in OpenSymbols(c) : b.positions[o] = c.positions[o]
      BY <1>5, OpenTyped
    <3> QED BY <1>4, <1>5, <3>1, OpenFeesGrow
  <2>3. /\ Realized(b) \in Int /\ OpenFees(b) \in Int
        /\ Realized(c) \in Int /\ OpenFees(c) \in Int
    BY <1>4, RealizedTyped, OpenFeesTyped
  <2>5. b.balance \in Int /\ x.realized \in Int /\ p.fee \in Int /\ Initial \in Int
    BY <1>1, <1>2, BrokerAssumption DEF Book, ClosedPosition, Position
  <2> HIDE DEF p
  <2>4. b.balance = Initial + Realized(b) - OpenFees(b)
    BY DEF Balanced
  <2> DEFINE booked == Booked(b.positions[s], x.exit)
  <2>6. /\ booked = x.realized + p.fee /\ c.balance = b.balance + booked
    BY <1>2, <1>5 DEF p
  <2> HIDE DEF booked
  <2>7. c.balance = Initial + Realized(c) - OpenFees(c)
    BY <2>1, <2>2, <2>3, <2>4, <2>5, <2>6
  <2> QED BY <2>7 DEF Balanced
<1>7. OpenAreLocked(c)
  <2>1. \A o \in OpenSymbols(b) : o \in SymbolSet
    BY OpenTyped
  <2> QED BY <1>5, <2>1 DEF OpenAreLocked, OthersAreLocked
<1>9. BookInv(c)
  BY <1>4, <1>6, <1>7 DEF BookInv
<1> QED BY <1>5, <1>9 DEF c, x

(***************************************************************************)
(* A new price                                                             *)
(***************************************************************************)

\* A price that hits neither level leaves the position locked, and its stop moved.
LEMMA AdvancedKeeps ==
  ASSUME NEW p \in Position, NEW last, Locked(p, last), NEW price \in Int,
         ~StopHit(p.side, p.stop, price, price), ~TargetHit(p.side, p.target, price, price)
  PROVE  /\ Advanced(p, price) \in Position
         /\ Advanced(p, price).fee = p.fee
         /\ Locked(Advanced(p, price), price)
         /\ Best(Advanced(p, price)) = Tighter(p.side, Best(p), price)
<1> DEFINE a == Advanced(p, price)
           high == Max({p.high, price})
           low == Min({p.low, price})
           best == IF p.side = "LONG" THEN high ELSE low
           even == IF EvenReached(p, price) THEN Tighter(p.side, p.stop, p.entry) ELSE p.stop
           trail == Tighter(p.side, even, best - Sign(p.side) * p.trailing)
<1>1. /\ {p.high, p.low, p.stop, p.target, p.entry, p.risk, p.trailing} \subseteq Int
      /\ p.side \in Side /\ p.risk > 0 /\ p.trailing = p.risk
  BY DEF Position, Locked
<1>9. p.trailing # 0
  BY <1>1
<1>5. a = [p EXCEPT !.high = high, !.low = low, !.stop = trail]
  BY <1>9, Zenon DEF Advanced
<1>2. /\ high \in Int /\ high >= p.high /\ high >= price /\ high \in {p.high, price}
      /\ low \in Int /\ low <= p.low /\ low <= price /\ low \in {p.low, price}
  BY <1>1 DEF Max, Min
<1>10. best = Tighter(p.side, Best(p), price)
  BY <1>1 DEF Best, Tighter, Side
<1> HIDE DEF high, low
<1>3. even \in Int
  BY <1>1 DEF Tighter, Max, Min
<1> HIDE DEF even
<1>4. trail \in Int /\ Sign(p.side) * (trail - best) >= -p.risk
  <2>1. CASE p.side = "LONG"
    <3>1. best = high /\ Sign(p.side) = 1 /\ trail = Max({even, high - p.risk})
      BY <1>1, <1>2, <2>1 DEF Tighter, Sign
    <3>2. Max({even, high - p.risk}) \in Int /\ Max({even, high - p.risk}) >= high - p.risk
      BY <1>1, <1>2, <1>3 DEF Max
    <3> DEFINE moved == Max({even, high - p.risk})
    <3>3. /\ best = high /\ Sign(p.side) = 1 /\ trail = moved
          /\ moved \in Int /\ moved >= high - p.risk /\ p.risk \in Int
      BY <1>1, <3>1, <3>2
    <3> HIDE DEF moved, best, trail
    <3> QED BY <1>2, <3>3
  <2>2. CASE p.side = "SHORT"
    <3>4. low - (-1) * p.trailing = low + p.risk
      BY <1>1, <1>2
    <3>1. best = low /\ Sign(p.side) = -1 /\ trail = Min({even, low + p.risk})
      BY <1>1, <2>2, <3>4 DEF Tighter, Sign
    <3>2. Min({even, low + p.risk}) \in Int /\ Min({even, low + p.risk}) <= low + p.risk
      BY <1>1, <1>2, <1>3 DEF Min
    <3> DEFINE moved == Min({even, low + p.risk})
    <3>3. /\ best = low /\ Sign(p.side) = -1 /\ trail = moved
          /\ moved \in Int /\ moved <= low + p.risk /\ p.risk \in Int
      BY <1>1, <3>1, <3>2
    <3> HIDE DEF moved, best, trail
    <3> QED BY <1>2, <3>3
  <2> QED BY <1>1, <2>1, <2>2 DEF Side
<1> HIDE DEF trail
<1>6. /\ a \in Position /\ a.fee = p.fee /\ a.side = p.side /\ a.risk = p.risk
      /\ a.trailing = p.trailing /\ a.stop = trail /\ a.target = p.target
      /\ Best(a) = best
  BY <1>1, <1>2, <1>4, <1>5 DEF Position, Best
<1> HIDE DEF a
<1>7. Sign(p.side) * (p.target - best) >= -p.risk /\ Sign(p.side) * (price - best) >= -p.risk
  <2>1. /\ Sign(p.side) * (p.target - Best(p)) >= -p.risk
        /\ Sign(p.side) * (p.stop - Best(p)) >= -p.risk
    BY DEF Locked, Keeps
  <2>2. CASE p.side = "LONG"
    BY <1>1, <1>2, <2>1, <2>2 DEF Best, Sign, StopHit, TargetHit
  <2>3. CASE p.side = "SHORT"
    BY <1>1, <1>2, <2>1, <2>3 DEF Best, Sign, StopHit, TargetHit
  <2> QED BY <1>1, <2>2, <2>3 DEF Side
<1>8. Locked(a, price)
  BY <1>1, <1>4, <1>6, <1>7 DEF Locked, Keeps
<1> QED BY <1>6, <1>8, <1>10 DEF a

\* What a price leaves of a symbol's position: nothing to close, a row of the log that
\* keeps the gain, or a position that has seen the price.
Outcome(b, s, price, c) ==
    LET p == b.positions[s]
        best == Tighter(p.side, Best(p), price)
    IN /\ \A o \in SymbolSet \ {s} : c.positions[o] = b.positions[o]
       /\ \/ p = NoPosition /\ c.positions[s] = NoPosition /\ c.closed = b.closed
          \/ /\ p # NoPosition /\ c.positions[s] = NoPosition
             /\ \E x \in ClosedPosition : c.closed = Append(b.closed, x) /\ LockedIn(x, best)
          \/ /\ p # NoPosition /\ c.positions[s] # NoPosition /\ c.closed = b.closed
             /\ Best(c.positions[s]) = best

\* A price for one symbol leaves the books in order, whether it closes the position or not.
LEMMA OnPriceKeeps ==
  ASSUME NEW b, BookInv(b), NEW s \in SymbolSet, NEW price \in Int
  PROVE  BookInv(OnPrice(b, s, price)) /\ Outcome(b, s, price, OnPrice(b, s, price))
<1> DEFINE m == [b EXCEPT !.last[s] = price]
           p == b.positions[s]
<1>1. b \in Book /\ Balanced(b) /\ OpenAreLocked(b)
  BY DEF BookInv
<1>2. b = [balance |-> b.balance, positions |-> b.positions, last |-> b.last,
           closed |-> b.closed]
  BY <1>1 DEF Book
<1>3. m = [balance |-> b.balance, positions |-> b.positions,
           last |-> [b.last EXCEPT ![s] = price], closed |-> b.closed]
  BY <1>2
<1>4. /\ m \in Book /\ m.balance = b.balance /\ m.positions = b.positions
      /\ m.closed = b.closed /\ m.last[s] = price
      /\ \A o \in SymbolSet \ {s} : m.last[o] = b.last[o]
  <2>1. b.last \in [SymbolSet -> Int]
    BY <1>1 DEF Book
  <2>2. [b.last EXCEPT ![s] = price] \in [SymbolSet -> Int]
    BY <2>1
  <2>3. m \in Book
    BY <1>1, <1>3, <2>2 DEF Book
  <2> QED BY <1>3, <2>1, <2>3
<1> HIDE DEF m
<1>5. /\ OpenSymbols(m) = OpenSymbols(b) /\ OpenFees(m) = OpenFees(b)
      /\ Realized(m) = Realized(b)
  BY <1>4 DEF OpenSymbols, OpenFees, Realized
<1>6. Balanced(m)
  BY <1>1, <1>4, <1>5 DEF Balanced
<1>7. OthersAreLocked(m, s)
  BY <1>1, <1>4, <1>5, OpenTyped DEF OpenAreLocked, OthersAreLocked
<1>8. CASE p = NoPosition
  <2>1. s \notin OpenSymbols(m)
    BY <1>5, <1>8 DEF OpenSymbols
  <2>2. OpenAreLocked(m)
    BY <1>7, <2>1 DEF OpenAreLocked, OthersAreLocked
  <2>3. OnPrice(b, s, price) = m
    BY <1>8 DEF OnPrice, m
  <2>4. Outcome(b, s, price, m)
    BY <1>4, <1>8 DEF Outcome
  <2> QED BY <1>4, <1>6, <2>2, <2>3, <2>4 DEF BookInv
<1>9. ASSUME p # NoPosition
      PROVE  /\ s \in OpenSymbols(b) /\ s \in OpenSymbols(m) /\ m.positions[s] = p
             /\ p \in Position /\ p.stop \in Int /\ p.target \in Int
             /\ Locked(p, b.last[s]) /\ b.last[s] \in Int
  <2>1. s \in OpenSymbols(b) /\ s \in OpenSymbols(m) /\ m.positions[s] = p
    BY <1>4, <1>5, <1>9 DEF OpenSymbols
  <2>2. p \in Position /\ Locked(p, b.last[s])
    BY <1>1, <2>1, OpenTyped DEF OpenAreLocked
  <2>3. b.last[s] \in Int
    BY <1>1 DEF Book
  <2> QED BY <2>1, <2>2, <2>3 DEF Position
<1>13. ASSUME p # NoPosition, NEW level \in Int,
              NEW reason \in {"STOP_LOSS", "TAKE_PROFIT", "EMERGENCY_CLOSE"},
              Gives(p, level, Tighter(p.side, Best(p), price)),
              OnPrice(b, s, price) = CloseMarket(m, s, level, reason)
       PROVE  BookInv(OnPrice(b, s, price)) /\ Outcome(b, s, price, OnPrice(b, s, price))
  <2> DEFINE c == OnPrice(b, s, price)
             x == Closing(p, level, reason)
  <2>1. /\ BookInv(c) /\ c.positions[s] = NoPosition
        /\ \A o \in SymbolSet \ {s} : c.positions[o] = b.positions[o]
        /\ c.closed = Append(b.closed, x)
    <3> DEFINE after == CloseMarket(m, s, level, reason)
    <3>1. /\ BookInv(after) /\ after.positions[s] = NoPosition
          /\ \A o \in SymbolSet \ {s} : after.positions[o] = m.positions[o]
          /\ after.closed = Append(m.closed, Closing(m.positions[s], level, reason))
      <4>1. m \in Book /\ Balanced(m) /\ s \in OpenSymbols(m) /\ OthersAreLocked(m, s)
        BY <1>4, <1>6, <1>7, <1>9, <1>13
      <4>2. /\ level \in Int /\ reason \in {"STOP_LOSS", "TAKE_PROFIT", "EMERGENCY_CLOSE"}
        BY <1>13
      <4> QED BY ONLY <4>1, <4>2, CloseMarketKeeps
    <3>2. c = after
      BY <1>13
    <3> HIDE DEF after, c
    <3> QED BY <1>4, <1>9, <1>13, <3>1, <3>2
  <2>2. Tighter(p.side, Best(p), price) \in Int
    BY <1>9, <1>13, ExitsGive
  <2>3. x \in ClosedPosition /\ LockedIn(x, Tighter(p.side, Best(p), price))
    BY <1>9, <1>13, <2>2, ClosingTyped, ClosingLocked
  <2> HIDE DEF c, x
  <2>4. Outcome(b, s, price, c)
    BY <1>13, <2>1, <2>3 DEF Outcome
  <2> QED BY <2>1, <2>4 DEF c
<1> DEFINE hitStop == StopHit(p.side, p.stop, price, price)
           hitTarget == TargetHit(p.side, p.target, price, price)
<1>10. CASE p # NoPosition /\ hitStop
  <2>1. OnPrice(b, s, price) = CloseMarket(m, s, p.stop, "STOP_LOSS")
    BY <1>10 DEF OnPrice, m
  <2>2. Gives(p, p.stop, Tighter(p.side, Best(p), price))
    BY <1>9, <1>10, ExitsGive
  <2> QED BY <1>9, <1>10, <1>13, <2>1, <2>2
<1>11. CASE p # NoPosition /\ ~hitStop /\ hitTarget
  <2>1. OnPrice(b, s, price) = CloseMarket(m, s, p.target, "TAKE_PROFIT")
    BY <1>11 DEF OnPrice, m
  <2>2. Gives(p, p.target, Tighter(p.side, Best(p), price))
    BY <1>9, <1>11, ExitsGive
  <2> QED BY <1>9, <1>11, <1>13, <2>1, <2>2
<1>12. CASE p # NoPosition /\ ~hitStop /\ ~hitTarget
  <2> DEFINE a == Advanced(p, price)
             c == OnPrice(b, s, price)
  <2>1. c = [m EXCEPT !.positions[s] = a]
    BY <1>12 DEF OnPrice, m
  <2>2. /\ a \in Position /\ a.fee = p.fee /\ Locked(a, price)
        /\ Best(a) = Tighter(p.side, Best(p), price)
    BY <1>9, <1>12, AdvancedKeeps
  <2> HIDE DEF a, c
  <2>3. /\ c \in Book /\ c.balance = m.balance /\ c.closed = m.closed /\ c.last = m.last
        /\ c.positions = [m.positions EXCEPT ![s] = a]
    <3>1. m = [balance |-> m.balance, positions |-> m.positions, last |-> m.last,
               closed |-> m.closed]
      BY <1>4 DEF Book
    <3>2. c = [balance |-> m.balance, positions |-> [m.positions EXCEPT ![s] = a],
               last |-> m.last, closed |-> m.closed]
      BY <2>1, <3>1
    <3>3. m.positions \in [SymbolSet -> {NoPosition} \cup Position]
      BY <1>4 DEF Book
    <3>4. [m.positions EXCEPT ![s] = a] \in [SymbolSet -> {NoPosition} \cup Position]
      BY <2>2, <3>3
    <3>5. c \in Book
      BY <1>4, <3>2, <3>4 DEF Book
    <3> QED BY <3>2, <3>5
  <2>4. /\ c.positions[s] = a /\ \A o \in SymbolSet \ {s} : c.positions[o] = m.positions[o]
    BY <1>4, <2>3 DEF Book
  <2>5. a # NoPosition
    BY <2>2, BrokerAssumption
  <2>6. OpenSymbols(c) = OpenSymbols(m)
    BY <1>9, <1>12, <2>4, <2>5 DEF OpenSymbols
  <2>7. \A o \in OpenSymbols(m) : c.positions[o].fee = m.positions[o].fee
    BY <1>9, <1>12, <2>2, <2>4, <1>4, OpenTyped
  <2>8. OpenFees(c) = OpenFees(m) /\ Realized(c) = Realized(m)
    BY <2>3, <2>6, <2>7 DEF OpenFees, Realized
  <2>9. Balanced(c)
    BY <1>6, <2>3, <2>8 DEF Balanced
  <2>10. OpenAreLocked(c)
    <3>1. \A o \in OpenSymbols(c) : o \in SymbolSet
      BY <2>3, OpenTyped
    <3> QED BY <1>4, <1>7, <2>2, <2>3, <2>4, <2>6, <3>1 DEF OpenAreLocked, OthersAreLocked
  <2>11. BookInv(c)
    BY <2>3, <2>9, <2>10 DEF BookInv
  <2>12. Outcome(b, s, price, c)
    <3>1. c.positions[s] # NoPosition /\ c.closed = b.closed
          /\ \A o \in SymbolSet \ {s} : c.positions[o] = b.positions[o]
      BY <1>4, <2>3, <2>4, <2>5
    <3> QED BY <1>12, <2>2, <2>4, <3>1 DEF Outcome
  <2> QED BY <2>11, <2>12 DEF c
<1> QED BY <1>8, <1>10, <1>11, <1>12

(***************************************************************************)
(* The size of a trade                                                     *)
(***************************************************************************)

LEMMA RoundTyped ==
  ASSUME NEW m \in Int, NEW n \in Nat \ {0}
  PROVE  RoundHalfEven(m, n) \in Int
<1>1. m \div n \in Int
  OBVIOUS
<1> DEFINE q == m \div n
<1>2. RoundHalfEven(m, n) \in {q, q + 1}
  BY DEF RoundHalfEven
<1> HIDE DEF q
<1>3. q \in Int
  BY <1>1 DEF q
<1> QED BY <1>2, <1>3

\* The smallest of four sizes.
LEMMA LeastOfFour ==
  ASSUME NEW i \in Int, NEW j \in Int, NEW k \in Int, NEW l \in Int
  PROVE  Min({i, j, k, l}) \in Int /\ Min({i, j, k, l}) <= i
<1> DEFINE S == {i, j, k, l}
<1>1. \E x \in S : \A y \in S : x <= y
  <2>1. CASE i <= j /\ i <= k /\ i <= l BY <2>1
  <2>2. CASE j <= i /\ j <= k /\ j <= l BY <2>2
  <2>3. CASE k <= i /\ k <= j /\ k <= l BY <2>3
  <2>4. CASE l <= i /\ l <= j /\ l <= k BY <2>4
  <2> QED BY <2>1, <2>2, <2>3, <2>4
<1>2. Min(S) \in S /\ \A y \in S : Min(S) <= y
  <2> HIDE DEF S
  <2> QED BY <1>1 DEF Min
<1> QED BY <1>2

\* The fields of a trade intent that its size depends on.
Sized(n) ==
    /\ n.side \in Side /\ n.entry \in Int /\ n.stop \in Int
    /\ n.equity \in Int /\ n.leverage \in Int /\ n.available \in Int
    /\ n.entry > 0 /\ PerUnitRisk(n) > 0

\* The size is a whole number of lots, and risks no more than the profile's share.
LEMMA QuantityIsBounded ==
  ASSUME NEW n, Sized(n)
  PROVE  /\ RiskAmount(n.equity) \in Int
         /\ ApprovedQuantity(n) \in Int
         /\ ApprovedQuantity(n) * (PerUnitRisk(n) * Unit) <= RiskAmount(n.equity)
<1> DEFINE r == PerUnitRisk(n) * Unit
           e == n.entry * Unit
           amount == RiskAmount(n.equity)
           own == n.equity * n.leverage
           free == n.available * n.leverage
<1>1. /\ Unit \in Nat /\ Unit > 0 /\ Cent \in Nat /\ Cent > 0 /\ RiskPct \in Nat
      /\ MaxNotional \in Nat /\ Hundred = 100
  BY ProfileAssumption DEF Hundred
<1>2. PerUnitRisk(n) \in Int /\ PerUnitRisk(n) > 0
  BY DEF Sized, PerUnitRisk, Sign
<1>3. r \in Int /\ r > 0
  <2> DEFINE risk == PerUnitRisk(n)
  <2>1. risk \in Int /\ risk > 0
    BY <1>2
  <2> HIDE DEF risk
  <2>2. risk * Unit \in Int /\ risk * Unit > 0
    BY <1>1, <2>1
  <2> QED BY <2>2 DEF risk
<1>4. e \in Int /\ e > 0
  <2> DEFINE price == n.entry
  <2>1. price \in Int /\ price > 0
    BY DEF Sized
  <2> HIDE DEF price
  <2>2. price * Unit \in Int /\ price * Unit > 0
    BY <1>1, <2>1
  <2> QED BY <2>2 DEF price
<1>5. amount \in Int
  <2>1. n.equity * RiskPct \in Int /\ Hundred * Cent \in Nat \ {0}
    BY <1>1 DEF Sized
  <2>2. RoundHalfEven(n.equity * RiskPct, Hundred * Cent) \in Int
    BY <2>1, RoundTyped
  <2> QED BY <1>1, <2>2 DEF RiskAmount
<1>6. own \in Int /\ free \in Int
  BY DEF Sized
<1> DEFINE q == ApprovedQuantity(n)
<1>7. q = Min({amount \div r, MaxNotional \div e, own \div e, free \div e})
  BY DEF ApprovedQuantity
<1> HIDE DEF r, e, amount, own, free, q
<1>8. /\ amount \div r \in Int /\ MaxNotional \div e \in Int /\ own \div e \in Int
      /\ free \div e \in Int
  BY <1>1, <1>3, <1>4, <1>5, <1>6
<1>9. q \in Int /\ q <= amount \div r
  BY <1>7, <1>8, LeastOfFour
<1>10. (amount \div r) * r <= amount
  BY <1>3, <1>5
<1>11. q * r <= (amount \div r) * r
  <2> DEFINE d == amount \div r
  <2>1. d \in Int /\ q <= d
    BY <1>8, <1>9
  <2> HIDE DEF d
  <2>2. q * r <= d * r
    BY <1>3, <1>9, <2>1
  <2> QED BY <2>2 DEF d
<1>12. q * r \in Int /\ (amount \div r) * r \in Int
  BY <1>3, <1>8, <1>9
<1>13. q * r <= amount
  BY <1>5, <1>10, <1>11, <1>12
<1> QED BY <1>5, <1>9, <1>13 DEF r, amount, q

(***************************************************************************)
(* An entry                                                                *)
(***************************************************************************)

LEMMA AccountTyped ==
  ASSUME NEW b \in Book
  PROVE  Equity(b) \in Int /\ Available(b) \in Int
<1> DEFINE f == [s \in OpenSymbols(b) |-> UnrealizedPnl(b, s)]
           g == [s \in OpenSymbols(b) |-> b.positions[s].entry * b.positions[s].quantity]
<1>1. \A s \in OpenSymbols(b) : UnrealizedPnl(b, s) \in Int
  <2> SUFFICES ASSUME NEW s \in OpenSymbols(b) PROVE UnrealizedPnl(b, s) \in Int
    OBVIOUS
  <2>1. b.positions[s] \in Position /\ s \in SymbolSet
    BY OpenTyped
  <2>2. /\ b.positions[s].entry \in Int /\ b.positions[s].quantity \in Int
        /\ Sign(b.positions[s].side) \in Int
    BY <2>1 DEF Position, Sign
  <2>3. b.last[s] \in Int
    BY <2>1 DEF Book
  <2> QED BY <2>2, <2>3 DEF UnrealizedPnl
<1>2. f \in [OpenSymbols(b) -> Int] /\ g \in [OpenSymbols(b) -> Int]
  <2>1. \A s \in OpenSymbols(b) : b.positions[s].entry * b.positions[s].quantity \in Int
    BY OpenTyped DEF Position
  <2> QED BY <1>1, <2>1
<1> HIDE DEF f, g
<1>3. SumFunction(f) \in Int /\ SumFunction(g) \in Int /\ b.balance \in Int
  BY <1>2, OpenTyped, SumType DEF Book
<1>4. Equity(b) = b.balance + SumFunction(f) /\ UsedMargin(b) = SumFunction(g)
  BY DEF Equity, UsedMargin, f, g
<1> QED BY <1>3, <1>4 DEF Available

\* A position is opened on the right side of its stop, with all its risk before it.
LEMMA OpenMarketKeeps ==
  ASSUME NEW b, BookInv(b), NEW u \in Setup, b.positions[u.symbol] = NoPosition,
         Accepts(b, u)
  PROVE  LET c == OpenMarket(b, u)
         IN /\ BookInv(c) /\ c.closed = b.closed
            /\ \A o \in SymbolSet \ {u.symbol} : c.positions[o] = b.positions[o]
            /\ c.positions[u.symbol] # NoPosition
            /\ Best(c.positions[u.symbol]) = c.positions[u.symbol].entry
<1> DEFINE s == u.symbol
           n == DemoIntent(b, u)
           entry == FillPrice(u.entry, u.side, TRUE)
           quantity == ApprovedQuantity(n)
           fee == Fee(entry, quantity)
           risk == Max({entry - u.stop, u.stop - entry})
           p == [side |-> u.side, quantity |-> quantity, entry |-> entry, stop |-> u.stop,
                 target |-> u.target, fee |-> fee, risk |-> risk, trailing |-> risk,
                 high |-> entry, low |-> entry]
           c == OpenMarket(b, u)
<1>1. b \in Book /\ Balanced(b) /\ OpenAreLocked(b)
  BY DEF BookInv
<1>2. /\ s \in SymbolSet /\ u.side \in Side
      /\ u.entry \in Int /\ u.stop \in Int /\ u.target \in Int
  BY DEF Setup
<1>3. /\ n.side = u.side /\ n.entry = u.entry /\ n.stop = u.stop /\ n.target = u.target
      /\ n.equity = Equity(b) /\ n.available = Available(b) /\ n.leverage = 1
  BY DEF DemoIntent
<1>4. Admissible(n)
  BY DEF Accepts, Approved
<1> HIDE DEF n
<1>5. /\ u.entry > 0
      /\ Sign(u.side) * (u.entry - u.stop) > 0
      /\ Sign(u.side) * (u.target - u.entry)
           >= MinRiskReward * (Sign(u.side) * (u.entry - u.stop))
  BY <1>3, <1>4 DEF Admissible, PerUnitRisk, PerUnitReward
<1>6. quantity \in Int
  <2>1. Equity(b) \in Int /\ Available(b) \in Int
    BY <1>1, AccountTyped
  <2>2. PerUnitRisk(n) > 0 /\ n.entry > 0
    BY <1>4 DEF Admissible
  <2>3. Sized(n)
    BY <1>2, <1>3, <2>1, <2>2 DEF Sized
  <2> QED BY <2>3, QuantityIsBounded
<1>7. entry \in Int /\ Sign(u.side) * (entry - u.entry) >= 0
  <2>1. u.entry \in Nat
    BY <1>2, <1>5
  <2>2. entry \in Int
    BY <1>2, FillTyped
  <2>3. Sign(u.side) * (entry - u.entry) >= 0
    BY <1>2, <2>1, EntryIsWorse
  <2> QED BY <2>2, <2>3
<1> HIDE DEF entry, quantity
<1>8. fee \in Int
  <2>1. entry * quantity * FeeRate \in Int
    BY <1>6, <1>7, ProfileAssumption
  <2> QED BY <2>1, RoundOrder DEF Fee
<1> HIDE DEF fee
<1>9. /\ risk \in Int /\ risk > 0
      /\ Sign(u.side) * (u.stop - entry) >= -risk
      /\ Sign(u.side) * (u.target - entry) >= -risk
  <2> DEFINE unit == Sign(u.side) * (u.entry - u.stop)
             reward == Sign(u.side) * (u.target - u.entry)
  <2>1. unit \in Int /\ unit > 0 /\ reward \in Int /\ reward >= MinRiskReward * unit
        /\ MinRiskReward \in Nat
    BY <1>2, <1>5, ProfileAssumption DEF Sign
  <2>2. reward >= 0
    <3> HIDE DEF unit, reward
    <3>1. MinRiskReward * unit >= 0 /\ MinRiskReward * unit \in Int
      BY <2>1
    <3> QED BY <2>1, <3>1
  <2>3. CASE u.side = "LONG"
    <3>1. u.stop < u.entry /\ u.entry <= u.target /\ u.entry <= entry
      BY <1>2, <1>5, <1>7, <2>2, <2>3 DEF Sign
    <3>2. risk = entry - u.stop
      BY <1>2, <1>7, <3>1 DEF Max
    <3> QED BY <1>2, <1>7, <2>3, <3>1, <3>2 DEF Sign
  <2>4. CASE u.side = "SHORT"
    <3>1. u.entry < u.stop /\ u.target <= u.entry /\ entry <= u.entry
      BY <1>2, <1>5, <1>7, <2>2, <2>4 DEF Sign
    <3>2. risk = u.stop - entry
      BY <1>2, <1>7, <3>1 DEF Max
    <3> QED BY <1>2, <1>7, <2>4, <3>1, <3>2 DEF Sign
  <2> QED BY <1>2, <2>3, <2>4 DEF Side
<1>10. c = [b EXCEPT !.balance = @ - fee, !.last[u.symbol] = entry, !.positions[u.symbol] = p]
  BY DEF OpenMarket, TrailingDistance, entry, quantity, fee, n
<1> HIDE DEF risk, c
<1>11. p \in Position /\ p.fee = fee /\ Best(p) = p.entry
  BY <1>2, <1>6, <1>7, <1>8, <1>9 DEF Position, Best
<1>12. Locked(p, entry)
  <2>1. Best(p) = entry
    BY DEF Best
  <2>2. Sign(u.side) * (entry - entry) >= -risk
    BY <1>7, <1>9 DEF Sign
  <2> QED BY <1>9, <2>1, <2>2 DEF Locked, Keeps
<1> HIDE DEF p
<1>13. b = [balance |-> b.balance, positions |-> b.positions, last |-> b.last,
            closed |-> b.closed]
  BY <1>1 DEF Book
<1>14. c = [balance |-> b.balance - fee, positions |-> [b.positions EXCEPT ![s] = p],
            last |-> [b.last EXCEPT ![s] = entry], closed |-> b.closed]
  BY <1>10, <1>13
<1>15. /\ c \in Book /\ c.balance = b.balance - fee /\ c.closed = b.closed
       /\ c.positions[s] = p /\ c.last[s] = entry
       /\ \A o \in SymbolSet \ {s} : c.positions[o] = b.positions[o] /\ c.last[o] = b.last[o]
  <2>1. /\ b.balance \in Int /\ b.positions \in [SymbolSet -> {NoPosition} \cup Position]
        /\ b.last \in [SymbolSet -> Int] /\ b.closed \in Seq(ClosedPosition)
    BY <1>1 DEF Book
  <2>2. /\ [b.positions EXCEPT ![s] = p] \in [SymbolSet -> {NoPosition} \cup Position]
        /\ [b.last EXCEPT ![s] = entry] \in [SymbolSet -> Int]
    BY <1>7, <1>11, <2>1
  <2>4. b.balance - fee \in Int
    BY <1>8, <2>1
  <2>3. c \in Book
    BY <1>14, <2>1, <2>2, <2>4 DEF Book
  <2> QED BY <1>2, <1>14, <2>1, <2>3
<1>16. s \in OpenSymbols(c) /\ s \notin OpenSymbols(b) /\ OpenSymbols(b) = OpenSymbols(c) \ {s}
  <2>1. p # NoPosition
    BY <1>11, BrokerAssumption
  <2> QED BY <1>2, <1>15, <2>1 DEF OpenSymbols
<1>17. Balanced(c)
  <2>1. OpenFees(c) = OpenFees(b) + fee
    <3>1. \A o \in OpenSymbols(b) : c.positions[o] = b.positions[o]
      BY <1>1, <1>15, <1>16, OpenTyped
    <3> QED BY <1>1, <1>11, <1>15, <1>16, <3>1, OpenFeesGrow
  <2>2. Realized(c) = Realized(b)
    BY <1>15 DEF Realized
  <2>3. /\ b.balance \in Int /\ Initial \in Int /\ Realized(b) \in Int /\ OpenFees(b) \in Int
    BY <1>1, BrokerAssumption, RealizedTyped, OpenFeesTyped DEF Book
  <2>4. b.balance = Initial + Realized(b) - OpenFees(b)
    BY <1>1 DEF Balanced
  <2>5. c.balance = Initial + Realized(c) - OpenFees(c)
    BY <1>8, <1>15, <2>1, <2>2, <2>3, <2>4
  <2> QED BY <2>5 DEF Balanced
<1>18. OpenAreLocked(c)
  <2>1. \A o \in OpenSymbols(c) : o \in SymbolSet
    BY <1>15, OpenTyped
  <2> QED BY <1>1, <1>12, <1>15, <1>16, <2>1 DEF OpenAreLocked
<1>19. c.positions[s] # NoPosition
  BY <1>16 DEF OpenSymbols
<1>20. BookInv(c)
  BY <1>15, <1>17, <1>18 DEF BookInv
<1> QED BY <1>11, <1>15, <1>19, <1>20 DEF c

(***************************************************************************)
(* An emergency close                                                      *)
(***************************************************************************)

LEMMA CloseAllKeeps ==
  ASSUME NEW b, BookInv(b), NEW order \in SetToSeqs(OpenSymbols(b))
  PROVE  LET c == CloseAll(b, order)
             n == Len(b.closed)
             m == Len(order)
         IN /\ BookInv(c) /\ OpenSymbols(c) = {}
            /\ order \in Seq(OpenSymbols(b)) /\ Len(c.closed) = n + m
            /\ \A k \in 1 .. n : c.closed[k] = b.closed[k]
            /\ \A k \in 1 .. m : LockedIn(c.closed[n + k], Best(b.positions[order[k]]))
<1> DEFINE S == OpenSymbols(b)
           m == Cardinality(S)
           n == Len(b.closed)
           x == [s \in S |-> Closing(b.positions[s], b.last[s], "EMERGENCY_CLOSE")]
           booked == [s \in S |-> Booked(b.positions[s], x[s].exit)]
           paid == [s \in S |-> b.positions[s].fee]
           results == [s \in S |-> x[s].realized]
           rows == [k \in DOMAIN order |-> x[order[k]]]
           c == CloseAll(b, order)
<1>1. b \in Book /\ Balanced(b) /\ OpenAreLocked(b)
  BY DEF BookInv
<1>2. /\ S \subseteq SymbolSet /\ IsFiniteSet(S)
      /\ \A s \in S : b.positions[s] \in Position
  BY <1>1, OpenTyped
<1>3. m \in Nat
  BY <1>2, FS_CardinalityType
<1>4. /\ order \in [1 .. m -> S] /\ DOMAIN order = 1 .. m
      /\ \A i, j \in 1 .. m : i # j => order[i] # order[j]
  BY DEF SetToSeqs
<1> HIDE DEF S, m
<1>18. order \in Seq(S) /\ Len(order) = m
  BY <1>3, <1>4
<1>5. \A s \in S : b.last[s] \in Int /\ Locked(b.positions[s], b.last[s])
  BY <1>1, <1>2 DEF Book, OpenAreLocked, S
<1>6. \A s \in S :
        /\ x[s] \in ClosedPosition /\ x[s].position = b.positions[s]
        /\ Booked(b.positions[s], x[s].exit) \in Int
        /\ Booked(b.positions[s], x[s].exit) = x[s].realized + b.positions[s].fee
        /\ LockedIn(x[s], Best(b.positions[s]))
        /\ x[s].exit \in Int
  <2> SUFFICES ASSUME NEW s \in S
      PROVE  /\ x[s] \in ClosedPosition /\ x[s].position = b.positions[s]
             /\ Booked(b.positions[s], x[s].exit) \in Int
             /\ Booked(b.positions[s], x[s].exit) = x[s].realized + b.positions[s].fee
             /\ LockedIn(x[s], Best(b.positions[s]))
             /\ x[s].exit \in Int
    OBVIOUS
  <2>1. x[s] = Closing(b.positions[s], b.last[s], "EMERGENCY_CLOSE")
    OBVIOUS
  <2> HIDE DEF x
  <2> DEFINE p == b.positions[s]
             price == b.last[s]
             y == x[s]
  <2>2. p \in Position /\ price \in Int /\ Locked(p, price)
    BY <1>2, <1>5
  <2>5. y = Closing(p, price, "EMERGENCY_CLOSE")
    BY <2>1
  <2> HIDE DEF p, price, y
  <2>3. /\ y \in ClosedPosition /\ y.position = p /\ y.exit \in Int
        /\ Booked(p, y.exit) \in Int
        /\ Booked(p, y.exit) = y.realized + p.fee
    BY <2>2, <2>5, ClosingTyped
  <2>4. LockedIn(y, Best(p))
    BY <2>2, <2>5, ExitsGive, ClosingLocked
  <2> QED BY <2>3, <2>4 DEF p, y
<1>7. c = [balance |-> b.balance + SumFunction(booked),
           last |-> [s \in SymbolSet |-> IF s \in S THEN x[s].exit ELSE b.last[s]],
           positions |-> [s \in SymbolSet |-> NoPosition],
           closed |-> b.closed \o rows]
  <2>1. \A k \in 1 .. m : order[k] \in S
    BY <1>4
  <2>2. \A s \in S : x[s] = Closing(b.positions[s], b.last[s], "EMERGENCY_CLOSE")
    OBVIOUS
  <2> HIDE DEF x
  <2>3. booked = [s \in S |->
            Booked(b.positions[s], Closing(b.positions[s], b.last[s], "EMERGENCY_CLOSE").exit)]
    BY <2>2
  <2>4. rows = [k \in DOMAIN order |->
            Closing(b.positions[order[k]], b.last[order[k]], "EMERGENCY_CLOSE")]
    BY <1>4, <2>1, <2>2
  <2>5. [s \in SymbolSet |-> IF s \in S THEN x[s].exit ELSE b.last[s]]
          = [s \in SymbolSet |->
               IF s \in S THEN Closing(b.positions[s], b.last[s], "EMERGENCY_CLOSE").exit
               ELSE b.last[s]]
    BY <2>2
  <2> HIDE DEF booked, rows
  <2> QED BY <2>3, <2>4, <2>5 DEF CloseAll, S
<1> HIDE DEF x, c
<1>8. /\ booked \in [S -> Int] /\ paid \in [S -> Int] /\ results \in [S -> Int]
      /\ \A s \in S : booked[s] = results[s] + paid[s]
  <2>1. \A s \in S : x[s].realized \in Int /\ b.positions[s].fee \in Int
    BY <1>2, <1>6 DEF ClosedPosition, Position
  <2> QED BY <1>6, <2>1
<1>9. /\ SumFunction(booked) \in Int /\ SumFunction(paid) \in Int
      /\ SumFunction(results) \in Int
      /\ SumFunction(booked) = SumFunction(results) + SumFunction(paid)
  <2> HIDE DEF booked, paid, results
  <2> QED BY <1>2, <1>8, SumType, SumOfSums
<1>10. /\ rows \in Seq(ClosedPosition) /\ Len(rows) = m
       /\ \A k \in 1 .. m : rows[k] = x[order[k]] /\ rows[k] \in ClosedPosition
  <2>1. \A k \in 1 .. m : x[order[k]] \in ClosedPosition
    BY <1>4, <1>6
  <2>2. rows \in [1 .. m -> ClosedPosition]
    BY <1>4, <2>1
  <2> QED BY <1>3, <1>4, <2>1, <2>2
<1> HIDE DEF rows
<1>11. /\ b.closed \in Seq(ClosedPosition) /\ n \in Nat /\ DOMAIN b.closed = 1 .. n
       /\ c.closed \in Seq(ClosedPosition) /\ DOMAIN c.closed = 1 .. (n + m)
       /\ Len(c.closed) = n + m
       /\ \A k \in 1 .. n : c.closed[k] = b.closed[k]
       /\ \A k \in 1 .. m : c.closed[n + k] = rows[k]
       /\ \A k \in 1 .. (n + m) : k \in 1 .. n \/ \E j \in 1 .. m : k = n + j
  <2>1. b.closed \in Seq(ClosedPosition) /\ n \in Nat /\ DOMAIN b.closed = 1 .. n
    BY <1>1 DEF Book
  <2>2. c.closed = b.closed \o rows
    BY <1>7
  <2>3. /\ c.closed \in Seq(ClosedPosition) /\ Len(c.closed) = n + m
        /\ \A k \in 1 .. n : c.closed[k] = b.closed[k]
        /\ \A k \in 1 .. m : c.closed[n + k] = rows[k]
    <3>1. Len(rows) = m /\ rows \in Seq(ClosedPosition) /\ b.closed \in Seq(ClosedPosition)
          /\ Len(b.closed) = n
      BY <1>10, <2>1
    <3> HIDE DEF n
    <3>5. c.closed \in Seq(ClosedPosition)
      BY <2>2, <3>1
    <3>7. Len(b.closed \o rows) = Len(b.closed) + Len(rows)
      BY <3>1
    <3>6. Len(c.closed) = Len(b.closed) + Len(rows)
      BY <2>2, <3>7
    <3>2. c.closed \in Seq(ClosedPosition) /\ Len(c.closed) = n + m
      BY <3>1, <3>5, <3>6
    <3>3. \A k \in 1 .. n : c.closed[k] = b.closed[k]
      BY <1>3, <2>1, <2>2, <3>1
    <3>4. ASSUME NEW k \in 1 .. m PROVE c.closed[n + k] = rows[k]
      <4>1. n + k \in 1 .. (n + m) /\ ~(n + k <= n) /\ n + k - n = k
        BY <1>3, <2>1
      <4> QED BY <2>2, <3>1, <4>1
    <3> QED BY <3>2, <3>3, <3>4
  <2>4. ASSUME NEW k \in 1 .. (n + m), k \notin 1 .. n PROVE \E j \in 1 .. m : k = n + j
    <3>1. k - n \in 1 .. m /\ k = n + (k - n)
      BY <1>3, <2>1, <2>4
    <3> QED BY <3>1
  <2>5. DOMAIN c.closed = 1 .. (n + m)
    BY <2>3
  <2> QED BY <2>1, <2>3, <2>4, <2>5
<1> HIDE DEF n
<1>12. c \in Book
  <2>1. [s \in SymbolSet |-> IF s \in S THEN x[s].exit ELSE b.last[s]] \in [SymbolSet -> Int]
    BY <1>1, <1>6 DEF Book
  <2>2. b.balance + SumFunction(booked) \in Int
    BY <1>1, <1>9 DEF Book
  <2>3. [s \in SymbolSet |-> NoPosition] \in [SymbolSet -> {NoPosition} \cup Position]
    OBVIOUS
  <2>4. b.closed \o rows \in Seq(ClosedPosition)
    BY <1>7, <1>11
  <2> HIDE DEF booked
  <2> QED BY <1>7, <2>1, <2>2, <2>3, <2>4 DEF Book
<1>13. OpenSymbols(c) = {}
  BY <1>7 DEF OpenSymbols
<1>14. Balanced(c)
  <2> DEFINE before == [k \in DOMAIN b.closed |-> b.closed[k].realized]
             after == [k \in DOMAIN c.closed |-> c.closed[k].realized]
  <2>1. before \in [1 .. n -> Int] /\ after \in [1 .. (n + m) -> Int]
    <3>1. /\ \A k \in 1 .. n : b.closed[k] \in ClosedPosition
          /\ \A k \in 1 .. (n + m) : c.closed[k] \in ClosedPosition
      <4>1. /\ \A k \in DOMAIN b.closed : b.closed[k] \in ClosedPosition
            /\ \A k \in DOMAIN c.closed : c.closed[k] \in ClosedPosition
        <5>1. b.closed \in Seq(ClosedPosition) /\ c.closed \in Seq(ClosedPosition)
          BY <1>11
        <5> QED BY <5>1
      <4> QED BY <1>11, <4>1
    <3> QED BY <1>11, <3>1 DEF ClosedPosition
  <2>2. /\ \A k \in 1 .. n : after[k] = before[k]
        /\ \A k \in 1 .. m : after[n + k] = results[order[k]]
    <3>1. \A k \in 1 .. n : k \in 1 .. (n + m)
      BY <1>3, <1>11
    <3>2. \A k \in 1 .. m : n + k \in 1 .. (n + m)
      BY <1>3, <1>11
    <3>3. \A k \in 1 .. m : results[order[k]] = x[order[k]].realized
      BY <1>4
    <3>4. \A k \in 1 .. n : after[k] = before[k]
      BY <1>11, <3>1
    <3>5. ASSUME NEW k \in 1 .. m PROVE after[n + k] = results[order[k]]
      <4>1. after[n + k] = c.closed[n + k].realized
        BY <1>11, <3>2
      <4>2. c.closed[n + k] = x[order[k]]
        BY <1>10, <1>11
      <4> QED BY <3>3, <4>1, <4>2
    <3> QED BY <3>4, <3>5
  <2>3. SumFunction(after) = SumFunction(before) + SumFunction(results)
    <3>1. DOMAIN results = S
      OBVIOUS
    <3> HIDE DEF before, after, results
    <3>2. Lists(after, before, results, order, n, m)
      BY <1>2, <1>4, <1>8, <1>11, <2>1, <2>2, <3>1 DEF Lists, m
    <3> QED BY <3>2, SumOfListed
  <2>4. Realized(c) = Realized(b) + SumFunction(results)
    BY <2>3 DEF Realized
  <2>5. OpenFees(c) = 0
    <3> DEFINE f == [s \in OpenSymbols(c) |-> c.positions[s].fee]
    <3>1. DOMAIN f = {}
      BY <1>13
    <3> HIDE DEF f
    <3>2. SumFunction(f) = 0
      BY <3>1, SumOfNothing
    <3> QED BY <3>2 DEF OpenFees, f
  <2>6. OpenFees(b) = SumFunction(paid)
    BY DEF OpenFees, S
  <2>7. c.balance = b.balance + SumFunction(booked)
    BY <1>7
  <2>8. /\ b.balance \in Int /\ Initial \in Int /\ Realized(b) \in Int
        /\ b.balance = Initial + Realized(b) - OpenFees(b)
    <3>1. b.balance \in Int
      BY <1>1 DEF Book
    <3>2. Realized(b) \in Int
      BY <1>1, RealizedTyped
    <3> QED BY <1>1, <3>1, <3>2, BrokerAssumption DEF Balanced
  <2> HIDE DEF booked, paid, results
  <2>9. c.balance = Initial + Realized(c) - OpenFees(c)
    BY <1>9, <2>4, <2>5, <2>6, <2>7, <2>8
  <2> QED BY <2>9 DEF Balanced
<1>15. \A k \in 1 .. m : LockedIn(c.closed[n + k], Best(b.positions[order[k]]))
  BY <1>4, <1>6, <1>10, <1>11
<1>16. OpenAreLocked(c)
  BY <1>13 DEF OpenAreLocked
<1>17. BookInv(c)
  BY <1>12, <1>14, <1>16 DEF BookInv
<1> QED BY <1>11, <1>13, <1>15, <1>17, <1>18 DEF c, S, n

(***************************************************************************)
(* The demo autotrader                                                     *)
(***************************************************************************)

LEMMA DemoInitInv == DemoInit => DemoInv
<1> SUFFICES ASSUME DemoInit PROVE DemoInv
  OBVIOUS
<1>1. book = [balance |-> Initial, positions |-> [s \in SymbolSet |-> NoPosition],
              last |-> [s \in SymbolSet |-> 0], closed |-> <<>>]
  BY DEF DemoInit
<1>2. book \in Book
  <2>1. Initial \in Int
    BY BrokerAssumption
  <2> QED BY <1>1, <2>1 DEF Book
<1>3. OpenSymbols(book) = {} /\ DOMAIN book.closed = {}
  BY <1>1 DEF OpenSymbols
<1>4. Balanced(book)
  <2> DEFINE f == [s \in OpenSymbols(book) |-> book.positions[s].fee]
             g == [k \in DOMAIN book.closed |-> book.closed[k].realized]
  <2>1. DOMAIN f = {} /\ DOMAIN g = {}
    BY <1>3
  <2> HIDE DEF f, g
  <2>2. SumFunction(f) = 0 /\ SumFunction(g) = 0
    BY <2>1, SumOfNothing
  <2>3. OpenFees(book) = 0 /\ Realized(book) = 0
    BY <2>2 DEF OpenFees, Realized, f, g
  <2>4. book.balance = Initial + 0 - 0
    BY <1>1, BrokerAssumption
  <2> QED BY <2>3, <2>4 DEF Balanced
<1>5. OpenAreLocked(book) /\ Watermarks(book, reached, {}) /\ LogIsLocked(book, peaks)
  <2>1. Len(peaks) = Len(book.closed)
    BY <1>1 DEF DemoInit
  <2> QED BY <1>3, <2>1 DEF OpenAreLocked, Watermarks, LogIsLocked
<1>6. DemoTypeOK
  <2>1. state \in BotState /\ seen \subseteq Setups /\ loop = 0
    BY DEF DemoInit, BotState
  <2>2. Len(Symbols) \in Nat
    BY BrokerAssumption
  <2>3. reached \in [SymbolSet -> Int] /\ peaks \in Seq(Int)
    BY DEF DemoInit
  <2> QED BY <1>2, <2>1, <2>2, <2>3 DEF DemoTypeOK
<1> QED BY <1>2, <1>4, <1>5, <1>6 DEF DemoInv, BookInv

\* The history of a symbol whose position has met a price.
LEMMA Remembered ==
  ASSUME NEW b \in Book, NEW c \in Book, NEW s \in SymbolSet, NEW price \in Int,
         Outcome(b, s, price, c), Watermarks(b, reached, {s}), LogIsLocked(b, peaks),
         reached \in [SymbolSet -> Int], peaks \in Seq(Int), NEW best \in Int,
         b.positions[s] # NoPosition => best = Best(b.positions[s]),
         Remember(b.positions[s], best, s, price, c)
  PROVE  /\ reached' \in [SymbolSet -> Int] /\ peaks' \in Seq(Int)
         /\ Watermarks(c, reached', {}) /\ LogIsLocked(c, peaks')
<1> DEFINE p == b.positions[s]
           top == Tighter(p.side, best, price)
<1>1. /\ reached' = [reached EXCEPT ![s] = IF c.positions[s] = NoPosition THEN 0 ELSE top]
      /\ peaks' = IF p # NoPosition /\ c.positions[s] = NoPosition
                  THEN Append(peaks, top) ELSE peaks
  BY DEF Remember
<1>2. p # NoPosition => top \in Int /\ top = Tighter(p.side, Best(p), price)
  <2>1. ASSUME p # NoPosition PROVE top \in Int
    <3>3. Max({best, price}) \in Int /\ Min({best, price}) \in Int
      BY DEF Max, Min
    <3> QED BY <3>3 DEF Tighter
  <2> QED BY <2>1
<1>3. b.closed \in Seq(ClosedPosition) /\ c.closed \in Seq(ClosedPosition)
  BY DEF Book
<1>4. p = NoPosition => c.positions[s] = NoPosition
  BY DEF Outcome
<1>5. reached' \in [SymbolSet -> Int] /\ peaks' \in Seq(Int)
  <2> HIDE DEF p, top
  <2>1. c.positions[s] # NoPosition => top \in Int
    BY <1>2, <1>4
  <2> QED BY <1>1, <1>2, <2>1
<1>6. Watermarks(c, reached', {})
  <2> SUFFICES ASSUME NEW o \in OpenSymbols(c) PROVE reached'[o] = Best(c.positions[o])
    BY DEF Watermarks
  <2>1. o \in SymbolSet /\ c.positions[o] # NoPosition
    BY DEF OpenSymbols
  <2>2. CASE o = s
    <3>1. reached'[o] = top
      BY <1>1, <2>1, <2>2
    <3>2. p # NoPosition /\ Best(c.positions[s]) = Tighter(p.side, Best(p), price)
      BY <2>1, <2>2 DEF Outcome
    <3> QED BY <1>2, <2>2, <3>1, <3>2
  <2>3. CASE o # s
    <3>1. reached'[o] = reached[o]
      BY <1>1, <2>1, <2>3
    <3>2. c.positions[o] = b.positions[o]
      BY <2>1, <2>3 DEF Outcome
    <3>3. o \in OpenSymbols(b) \ {s}
      BY <2>1, <2>3, <3>2 DEF OpenSymbols
    <3> QED BY <3>1, <3>2, <3>3 DEF Watermarks
  <2> QED BY <2>2, <2>3
<1>7. CASE p = NoPosition \/ c.positions[s] # NoPosition
  <2>1. c.closed = b.closed /\ peaks' = peaks
    BY <1>1, <1>7 DEF Outcome
  <2>2. LogIsLocked(c, peaks')
    BY <2>1 DEF LogIsLocked
  <2> QED BY <1>5, <1>6, <2>2
<1>8. CASE p # NoPosition /\ c.positions[s] = NoPosition
  <2>1. PICK x \in ClosedPosition :
          c.closed = Append(b.closed, x) /\ LockedIn(x, Tighter(p.side, Best(p), price))
    BY <1>8 DEF Outcome
  <2> HIDE DEF p, top
  <2>2. peaks' = Append(peaks, top) /\ LockedIn(x, top) /\ top \in Int
    BY <1>1, <1>2, <1>8, <2>1
  <2>3. Len(peaks) = Len(b.closed) /\ \A k \in DOMAIN b.closed : LockedIn(b.closed[k], peaks[k])
    BY DEF LogIsLocked
  <2> DEFINE n == Len(b.closed)
  <2>4. /\ n \in Nat /\ DOMAIN b.closed = 1 .. n /\ DOMAIN c.closed = 1 .. (n + 1)
        /\ Len(c.closed) = n + 1 /\ c.closed[n + 1] = x
        /\ \A k \in 1 .. n : c.closed[k] = b.closed[k]
    BY <1>3, <2>1
  <2>5. /\ Len(peaks') = n + 1 /\ peaks'[n + 1] = top
        /\ \A k \in 1 .. n : peaks'[k] = peaks[k]
    BY <2>2, <2>3
  <2> HIDE DEF n
  <2>6. \A k \in 1 .. (n + 1) : k \in 1 .. n \/ k = n + 1
    BY <2>4
  <2>7. LogIsLocked(c, peaks')
    BY <2>2, <2>3, <2>4, <2>5, <2>6 DEF LogIsLocked
  <2> QED BY <1>5, <1>6, <2>7
<1> QED BY <1>7, <1>8

\* The symbol whose frames arrive is one of the bot's, and the broker keeps its books in
\* order through process and on_price.
LEMMA FramesKeep ==
  ASSUME DemoInv, NEW u \in Setups \cup {Wait}, NEW price \in Prices, FramesArrive(u, price)
  PROVE  DemoInv'
<1> DEFINE s == Symbols[loop]
<1>1. /\ DemoTypeOK /\ BookInv(book) /\ loop \in 1 .. Len(Symbols) /\ Len(Symbols) \in Nat
      /\ Watermarks(book, reached, {}) /\ LogIsLocked(book, peaks)
      /\ reached \in [SymbolSet -> Int] /\ peaks \in Seq(Int)
  BY BrokerAssumption DEF DemoInv, DemoTypeOK, FramesArrive
<1>2. s \in SymbolSet /\ price \in Int
  BY <1>1, BrokerAssumption
<1>3. /\ u = Wait \/ (u # Wait /\ u.symbol = s)
      /\ \/ /\ Enters(s, u)
            /\ book' = OnPrice(OpenMarket(book, u), s, price)
            /\ LET p == OpenMarket(book, u).positions[s] IN Remember(p, p.entry, s, price, book')
            /\ seen' = seen \cup {u}
         \/ /\ ~Enters(s, u)
            /\ book' = OnPrice(book, s, price)
            /\ Remember(book.positions[s], reached[s], s, price, book')
            /\ UNCHANGED seen
      /\ loop' = IF loop = Len(Symbols) THEN 0 ELSE loop + 1
      /\ UNCHANGED state
  BY DEF FramesArrive
<1> HIDE DEF s
<1>4. /\ BookInv(book') /\ seen' \subseteq Setups
      /\ reached' \in [SymbolSet -> Int] /\ peaks' \in Seq(Int)
      /\ Watermarks(book', reached', {}) /\ LogIsLocked(book', peaks')
  <2>0. seen \subseteq Setups
    BY <1>1 DEF DemoTypeOK
  <2>1. CASE Enters(s, u)
    <3> DEFINE b == OpenMarket(book, u)
               p == b.positions[s]
               c == book'
    <3>1. u # Wait /\ book.positions[s] = NoPosition /\ Accepts(book, u)
      BY <2>1 DEF Enters
    <3>2. u \in Setups /\ u \in Setup /\ u.symbol = s
      BY <1>3, <3>1, BrokerAssumption
    <3>3. /\ BookInv(b) /\ b.closed = book.closed
          /\ \A o \in SymbolSet \ {s} : b.positions[o] = book.positions[o]
          /\ p # NoPosition /\ Best(p) = p.entry
      BY <1>1, <3>1, <3>2, OpenMarketKeeps
    <3>4. /\ c = OnPrice(b, s, price) /\ Remember(p, p.entry, s, price, c)
          /\ seen' = seen \cup {u}
      BY <1>3, <2>1
    <3> HIDE DEF b, c
    <3>5. BookInv(c) /\ Outcome(b, s, price, c)
      BY <1>2, <3>3, <3>4, OnPriceKeeps
    <3>6. b \in Book /\ c \in Book
      BY <3>3, <3>5 DEF BookInv
    <3>7. p.entry \in Int
      BY <1>2, <3>3, <3>6 DEF Book, Position
    <3>8. Watermarks(b, reached, {s}) /\ LogIsLocked(b, peaks)
      <4>1. \A o \in OpenSymbols(b) \ {s} :
              o \in OpenSymbols(book) /\ b.positions[o] = book.positions[o]
        BY <3>3 DEF OpenSymbols
      <4> QED BY <1>1, <3>3, <4>1 DEF Watermarks, LogIsLocked
    <3>9. /\ reached' \in [SymbolSet -> Int] /\ peaks' \in Seq(Int)
          /\ Watermarks(c, reached', {}) /\ LogIsLocked(c, peaks')
      BY <1>1, <1>2, <3>3, <3>4, <3>5, <3>6, <3>7, <3>8, Remembered
    <3> QED BY <2>0, <3>2, <3>4, <3>5, <3>9 DEF c
  <2>2. CASE ~Enters(s, u)
    <3> DEFINE c == book'
    <3>1. /\ c = OnPrice(book, s, price) /\ seen' = seen
          /\ Remember(book.positions[s], reached[s], s, price, c)
      BY <1>3, <2>2
    <3> HIDE DEF c
    <3>2. BookInv(c) /\ Outcome(book, s, price, c)
      BY <1>1, <1>2, <3>1, OnPriceKeeps
    <3>3. book \in Book /\ c \in Book /\ reached[s] \in Int
      BY <1>1, <1>2, <3>2 DEF BookInv
    <3>4. /\ Watermarks(book, reached, {s})
          /\ book.positions[s] # NoPosition => reached[s] = Best(book.positions[s])
      BY <1>1, <1>2 DEF Watermarks, OpenSymbols
    <3>5. /\ reached' \in [SymbolSet -> Int] /\ peaks' \in Seq(Int)
          /\ Watermarks(c, reached', {}) /\ LogIsLocked(c, peaks')
      BY <1>1, <1>2, <3>1, <3>2, <3>3, <3>4, Remembered
    <3> QED BY <2>0, <3>1, <3>2, <3>5 DEF c
  <2> QED BY <2>1, <2>2
<1>5. loop' \in -1 .. Len(Symbols)
  BY <1>1, <1>3
<1>6. state' \in BotState
  BY <1>1, <1>3 DEF DemoTypeOK
<1>7. book' \in Book
  BY <1>4 DEF BookInv
<1>8. DemoTypeOK'
  BY <1>4, <1>5, <1>6, <1>7 DEF DemoTypeOK
<1>9. BookInv(book)'
  BY <1>4 DEF BookInv, Balanced, OpenAreLocked, Realized, OpenFees, OpenSymbols
<1>10. Watermarks(book, reached, {})' /\ LogIsLocked(book, peaks)'
  BY <1>4 DEF Watermarks, LogIsLocked, OpenSymbols
<1> QED BY <1>8, <1>9, <1>10 DEF DemoInv

\* The history of an emergency close.
LEMMA AllRemembered ==
  ASSUME DemoInv, NEW order \in SetToSeqs(OpenSymbols(book)),
         book' = CloseAll(book, order),
         peaks' = peaks \o [k \in DOMAIN order |-> reached[order[k]]],
         reached' = [s \in SymbolSet |-> 0]
  PROVE  /\ BookInv(book')
         /\ reached' \in [SymbolSet -> Int] /\ peaks' \in Seq(Int)
         /\ Watermarks(book', reached', {}) /\ LogIsLocked(book', peaks')
<1> DEFINE c == book'
           n == Len(book.closed)
           m == Len(order)
           rest == [k \in DOMAIN order |-> reached[order[k]]]
<1>1. /\ BookInv(book) /\ reached \in [SymbolSet -> Int] /\ peaks \in Seq(Int)
      /\ Watermarks(book, reached, {}) /\ LogIsLocked(book, peaks)
  BY DEF DemoInv, DemoTypeOK
<1>2. /\ BookInv(c) /\ OpenSymbols(c) = {}
      /\ order \in Seq(OpenSymbols(book)) /\ Len(c.closed) = n + m
      /\ \A k \in 1 .. n : c.closed[k] = book.closed[k]
      /\ \A k \in 1 .. m : LockedIn(c.closed[n + k], Best(book.positions[order[k]]))
  BY <1>1, CloseAllKeeps
<1> HIDE DEF c
<1>3. /\ book.closed \in Seq(ClosedPosition) /\ c.closed \in Seq(ClosedPosition)
  BY <1>1, <1>2 DEF BookInv, Book
<1>4. n \in Nat /\ m \in Nat /\ DOMAIN c.closed = 1 .. (n + m) /\ DOMAIN book.closed = 1 .. n
  BY <1>2, <1>3
<1>5. /\ DOMAIN order = 1 .. m
      /\ \A k \in 1 .. m : order[k] \in OpenSymbols(book) /\ order[k] \in SymbolSet
  <2>1. DOMAIN order = 1 .. m /\ \A k \in 1 .. m : order[k] \in OpenSymbols(book)
    BY <1>2
  <2> QED BY <2>1 DEF OpenSymbols
<1>6. rest \in Seq(Int) /\ Len(rest) = m /\ \A k \in 1 .. m : rest[k] = reached[order[k]]
  <2>1. rest \in [1 .. m -> Int]
    BY <1>1, <1>5
  <2> QED BY <1>4, <1>5, <2>1
<1>7. \A k \in 1 .. m : LockedIn(c.closed[n + k], rest[k])
  BY <1>1, <1>2, <1>5, <1>6 DEF Watermarks
<1> HIDE DEF rest
<1>8. Len(peaks) = n /\ \A k \in 1 .. n : LockedIn(book.closed[k], peaks[k])
  BY <1>1, <1>4 DEF LogIsLocked
<1>9. peaks' = peaks \o rest
  BY DEF rest
<1>10. /\ peaks' \in Seq(Int) /\ Len(peaks') = n + m
       /\ \A k \in 1 .. n : peaks'[k] = peaks[k]
       /\ \A k \in 1 .. m : peaks'[n + k] = rest[k]
  <2>1. Len(peaks) \in Nat /\ Len(rest) \in Nat /\ Len(peaks) = n /\ Len(rest) = m
    BY <1>4, <1>6, <1>8
  <2> HIDE DEF n, m
  <2> DEFINE before == peaks
             after == peaks'
  <2>6. /\ before \in Seq(Int) /\ rest \in Seq(Int) /\ after = before \o rest
        /\ Len(before) = n /\ Len(rest) = m
    BY <1>1, <1>6, <1>9, <2>1
  <2> HIDE DEF before, after
  <2>2. after \in Seq(Int)
    BY <2>6
  <2>7. Len(before \o rest) = Len(before) + Len(rest)
    <3>1. before \in Seq(Int) /\ rest \in Seq(Int)
      BY <2>6
    <3> QED BY ONLY <3>1
  <2>3. Len(after) = n + m
    BY <2>6, <2>7
  <2>4. \A k \in 1 .. n : peaks'[k] = peaks[k]
    BY <1>1, <1>6, <1>9, <2>1
  <2>5. ASSUME NEW k \in 1 .. m PROVE peaks'[n + k] = rest[k]
    <3>1. n + k \in 1 .. (n + m) /\ ~(n + k <= n) /\ n + k - n = k
      BY <2>1
    <3> QED BY <1>1, <1>6, <1>9, <2>1, <3>1
  <2> QED BY <2>2, <2>3, <2>4, <2>5 DEF after
<1> HIDE DEF n, m
<1>11. LogIsLocked(c, peaks')
  <2>1. ASSUME NEW k \in 1 .. (n + m) PROVE LockedIn(c.closed[k], peaks'[k])
    <3>1. CASE k \in 1 .. n
      BY <1>2, <1>8, <1>10, <3>1
    <3>2. CASE k \notin 1 .. n
      <4> DEFINE j == k - n
      <4>1. j \in 1 .. m /\ k = n + j
        BY <1>4, <2>1, <3>2
      <4> HIDE DEF j
      <4> QED BY <1>7, <1>10, <4>1
    <3> QED BY <3>1, <3>2
  <2> QED BY <1>2, <1>4, <1>10, <2>1 DEF LogIsLocked
<1>12. Watermarks(c, reached', {}) /\ reached' \in [SymbolSet -> Int]
  BY <1>2 DEF Watermarks
<1> QED BY <1>2, <1>10, <1>11, <1>12 DEF c

LEMMA DemoNextInv == DemoInv /\ [DemoNext]_demoVars => DemoInv'
<1> SUFFICES ASSUME DemoInv, [DemoNext]_demoVars PROVE DemoInv'
  OBVIOUS
<1>1. /\ DemoTypeOK /\ BookInv(book) /\ Len(Symbols) \in Nat
      /\ Watermarks(book, reached, {}) /\ LogIsLocked(book, peaks)
  BY BrokerAssumption DEF DemoInv
<1>2. /\ state \in BotState /\ book \in Book /\ seen \subseteq Setups
      /\ loop \in -1 .. Len(Symbols) /\ reached \in [SymbolSet -> Int] /\ peaks \in Seq(Int)
  BY <1>1 DEF DemoTypeOK
<1>3. ASSUME BookInv(book'), state' \in BotState, UNCHANGED seen, loop' \in -1 .. Len(Symbols),
             reached' \in [SymbolSet -> Int], peaks' \in Seq(Int),
             Watermarks(book', reached', {}), LogIsLocked(book', peaks')
      PROVE  DemoInv'
  <2>1. book' \in Book
    BY <1>3 DEF BookInv
  <2>2. DemoTypeOK'
    BY <1>2, <1>3, <2>1 DEF DemoTypeOK
  <2>3. BookInv(book)'
    BY <1>3 DEF BookInv, Balanced, OpenAreLocked, Realized, OpenFees, OpenSymbols
  <2>4. Watermarks(book, reached, {})' /\ LogIsLocked(book, peaks)'
    BY <1>3 DEF Watermarks, LogIsLocked, OpenSymbols
  <2> QED BY <2>2, <2>3, <2>4 DEF DemoInv
<1>10. ASSUME UNCHANGED <<book, seen, reached, peaks>>, state' \in BotState,
              loop' \in -1 .. Len(Symbols)
       PROVE  DemoInv'
  BY <1>1, <1>2, <1>3, <1>10
<1>4. ASSUME NEW new \in BotState \ {"EMERGENCY_STOP"}, SetState(new) PROVE DemoInv'
  BY <1>2, <1>4, <1>10 DEF SetState, history
<1>5. ASSUME NEW close \in BOOLEAN, EmergencyStop(close) PROVE DemoInv'
  <2>1. state' \in BotState /\ UNCHANGED seen /\ loop' \in -1 .. Len(Symbols)
    BY <1>2, <1>5 DEF EmergencyStop, BotState
  <2>2. CASE close
    <3>1. /\ reached' = [s \in SymbolSet |-> 0]
          /\ \E order \in SetToSeqs(OpenSymbols(book)) :
                /\ book' = CloseAll(book, order)
                /\ peaks' = peaks \o [k \in DOMAIN order |-> reached[order[k]]]
      BY <1>5, <2>2 DEF EmergencyStop
    <3> QED BY <1>3, <2>1, <3>1, AllRemembered
  <2>3. CASE ~close
    BY <1>5, <1>10, <2>1, <2>3 DEF EmergencyStop, history
  <2> QED BY <2>2, <2>3
<1>6. CASE BeginRound
  <2>1. loop' \in -1 .. Len(Symbols)
    <3>1. loop' = -1 \/ loop' = 1
      BY <1>6 DEF BeginRound
    <3>2. Len(Symbols) > 0
      BY BrokerAssumption
    <3> QED BY <1>1, <3>1, <3>2
  <2> QED BY <1>2, <1>6, <1>10, <2>1 DEF BeginRound, history
<1>7. ASSUME NEW u \in Setups \cup {Wait}, NEW price \in Prices, FramesArrive(u, price)
      PROVE  DemoInv'
  BY <1>7, FramesKeep
<1>8. CASE FramesFail
  <2>1. loop' \in -1 .. Len(Symbols)
    BY <1>1, <1>8 DEF FramesFail
  <2> QED BY <1>2, <1>8, <1>10, <2>1 DEF FramesFail, history
<1>9. CASE UNCHANGED demoVars
  BY <1>2, <1>9, <1>10 DEF demoVars
<1> QED BY <1>4, <1>5, <1>6, <1>7, <1>8, <1>9 DEF DemoNext

\* The bot, the broker and the log keep their types.
THEOREM DemoTypeCorrect == DemoSpec => []DemoTypeOK
<1>1. DemoInv => DemoTypeOK
  BY DEF DemoInv
<1> QED BY <1>1, DemoInitInv, DemoNextInv, PTL DEF DemoSpec

\* The balance is the initial one and the log's results, less the entry fees of the open
\* positions, for every sequence of setups, prices and operator commands.
THEOREM BooksBalanced == DemoSpec => []BooksBalance
<1>1. DemoInv => BooksBalance
  BY DEF DemoInv, BookInv, Balanced, Realized, OpenFees, BooksBalance
<1> QED BY <1>1, DemoInitInv, DemoNextInv, PTL DEF DemoSpec

\* No exit gives back more than one initial risk of the best price from the fill to the
\* mark that closed the position, up to its target.
THEOREM GainLocked == DemoSpec => []GainIsLocked
<1>1. DemoInv => GainIsLocked
  BY DEF DemoInv, LogIsLocked, GainIsLocked
<1> QED BY <1>1, DemoInitInv, DemoNextInv, PTL DEF DemoSpec
=============================================================================
