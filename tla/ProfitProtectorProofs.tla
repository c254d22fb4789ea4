------------------------ MODULE ProfitProtectorProofs ------------------------
(***************************************************************************)
(* Theorems about the profit protector for any number of entries, any      *)
(* terms, prices and costs.                                                *)
(*                                                                         *)
(* The difficulty is the gap between what the protector has read and what  *)
(* the slot holds now: the slot's next position may already be there, and  *)
(* sync may take a similar position for the owner's.  What carries the     *)
(* proofs is that an entry fills once.  What was read of a position that   *)
(* is still open is still true of it, and a row that has been fed another  *)
(* position's profit belongs to a position that never comes back.          *)
(***************************************************************************)
EXTENDS ProfitProtector, TLAPS

(***************************************************************************)
(* The inductive invariant                                                 *)
(***************************************************************************)

RowSet == [stage : Stage, stop : Int, mfe : Nat, peak : Nat, risk : Nat, active : BOOLEAN]

Position == [side : {"Buy", "Sell"}, entry : Nat \ {0}, stop : Nat \ {0},
             qty : Nat \ {0}, fee : Nat]

Pending == [entry : Entries, action : Action, stop : Int, price : Prices]

Updating == {"UPDATE", "AUTHORIZE", "SENT", "VERIFY"}
Exiting  == {"EXIT", "EXIT_AUTHORIZE", "EXIT_SENT"}
Working  == {"WATCH"} \cup Updating \cup Exiting

\* Everything the protector knows of has filled.
KnownHasFilled ==
    /\ {holder, owner, seen.holder, seen.owner, snapshot.entry, snapshot.of}
          \subseteq filled \cup {NoEntry}
    /\ \A e \in Entries : HasRow(e) => e \in filled

\* The event in hand is one of a row, of the kind that the step works on.
EventInHand ==
    /\ pc \in Working => current \in Pending /\ HasRow(current.entry)
    /\ pc \in {"IDLE", "SYNC"} => current = NoEvent
    /\ pc = "WATCH" => current.stop = NoStop
    /\ pc \in Updating => current.action \in StopActions /\ current.stop > 0
    /\ pc \in Exiting => current.action = "EARLY_PROFIT_EXIT" /\ current.stop = NoStop

\* A read lasts as long as the operation that made it; only sync asks for the owner.
ReadInHand ==
    /\ pc \in {"IDLE", "UPDATE"} => seen = NoRead
    /\ pc # "SYNC" => seen.owner = NoEntry
    /\ pc \in {"AUTHORIZE", "SENT"} => seen.holder # NoEntry

SnapshotIsReal ==
    \/ snapshot = NoSnapshot
    \/ /\ snapshot.entry \in Entries /\ snapshot.of \in Entries
       /\ snapshot.terms = SnapshotOf(snapshot.of, snapshot.entry)

\* An owner whose position is not the one that was read is not in the slot any more.
OtherOwnersAreGone ==
    /\ seen.owner # seen.holder => holder # seen.owner \/ holder = NoEntry
    /\ snapshot.entry # snapshot.of => holder # snapshot.entry

StopsArePositive ==
    /\ nativeStop >= 0 /\ seen.stop >= 0
    /\ \A e \in Entries : HasRow(e) => rows[e].stop > 0

\* A position without a stop has neither been recorded nor seen as its owner's.
UnprotectedIsUnknown ==
    holder # NoEntry /\ nativeStop = NoStop
        => owner # holder /\ seen.owner # holder /\ ~HasRow(holder)

\* What was read of a position is true of it while it is open: only the protector moves
\* its stop.
ReadIsCurrent ==
    holder # NoEntry /\ holder = seen.holder =>
       /\ pc = "SYNC" /\ seen.stop # NoStop => nativeStop = seen.stop
       /\ pc \in {"AUTHORIZE", "SENT"} =>
             nativeStop # NoStop /\ Tightens(terms[holder], current.stop, nativeStop)

\* The peak of the profit is the one the ratio was computed from.
PeakIsConsistent ==
    \A e \in Entries : HasRow(e) =>
       /\ rows[e].mfe = rows[e].peak
       /\ rows[e].peak = 0 => rows[e].risk = 1

\* While an entry's position can still be observed, its row was fed by it alone.
RowIsPure ==
    \A e \in Entries :
       HasRow(e) /\ (holder = e \/ snapshot.of = e \/ seen.holder = e)
          => rows[e].peak = 0 \/ rows[e].risk = InitialRisk(terms[e])

NothingObserved == \A e \in Entries : ~HasRow(e) => best[e] = 0

\* The close request of an entry is sent, or on its way, once; its event stays.
ExitOnItsWay(e) == pc \in Exiting /\ current.entry = e

ExitBegun(e) ==
    \E v \in events : v.entry = e /\ v.action = "EARLY_PROFIT_EXIT" /\ v.stop = NoStop

ExitBudget ==
    \A e \in Entries :
       /\ exitSent[e] \in {0, 1}
       /\ ExitOnItsWay(e) => exitSent[e] = 0
       /\ ExitOnItsWay(e) \/ exitSent[e] = 1 => ExitBegun(e)

IInv ==
    /\ TypeOK
    /\ KnownHasFilled
    /\ EventInHand
    /\ ReadInHand
    /\ SnapshotIsReal
    /\ OtherOwnersAreGone
    /\ StopsArePositive
    /\ UnprotectedIsUnknown
    /\ ReadIsCurrent
    /\ PeakIsConsistent
    /\ RowIsPure
    /\ NothingObserved
    /\ ExitBudget
    /\ PeakIsKept
    /\ ConfirmedStopIsNative
    /\ RequestedStopIsSound

(***************************************************************************)
(* The arithmetic                                                          *)
(***************************************************************************)

\* Rounding a quotient brackets it: the result is behind it, one tick more is past it.
LEMMA Floor ==
  ASSUME NEW n \in Int, NEW d \in Int, d > 0
  PROVE  /\ n \div d \in Int
         /\ d * (n \div d) <= n
         /\ n < d * (n \div d + 1)
<1>1. n \div d \in Int
  OBVIOUS
<1>2. d * (n \div d) <= n
  BY SMT
<1>3. n < d * (n \div d + 1)
  BY SMT
<1> QED BY <1>1, <1>2, <1>3

LEMMA ProductPositive ==
  ASSUME NEW x \in Int, NEW y \in Int
  PROVE  /\ x > 0 /\ y > 0 => x * y > 0
         /\ x >= 0 /\ y >= 0 => x * y >= 0
OBVIOUS

\* A stop is placed, priced and netted in integers.
LEMMA Amounts ==
  ASSUME NEW t \in Position, NEW p \in Int
  PROVE  /\ CloseCost(t, p) \in Int
         /\ p >= 0 => CloseCost(t, p) >= 0
         /\ NetPnl(t, p) \in Int
         /\ InitialRisk(t) \in Nat
<1>1. /\ t.side \in {"Buy", "Sell"} /\ t.entry \in Nat /\ t.stop \in Nat
      /\ t.qty \in Nat /\ t.fee \in Nat
  BY DEF Position
<1>2. CostDen \in Nat /\ CostNum \in Nat
  BY CostAssumption
<1>3. \A x \in Int : CloseCost(t, x) \in Int /\ (x >= 0 => CloseCost(t, x) >= 0)
  <2> TAKE x \in Int
  <2>1. x * t.qty \in Int /\ (x >= 0 => x * t.qty >= 0)
    BY <1>1, ProductPositive
  <2> DEFINE a == x * t.qty
  <2> HIDE DEF a
  <2>2. a * CostNum \in Int /\ (a >= 0 => a * CostNum >= 0)
    BY <1>2, <2>1, ProductPositive DEF a
  <2> QED BY <2>1, <2>2 DEF CloseCost, a
<1>4. NetPnl(t, p) \in Int
  <2>1. Direction(t) \in Int
    BY DEF Direction
  <2> QED BY <1>1, <1>2, <1>3, <2>1 DEF NetPnl
<1>5. InitialRisk(t) \in Nat
  <2>1. Distance(t.entry, t.stop) \in Nat
    BY <1>1 DEF Distance
  <2> DEFINE a == Distance(t.entry, t.stop) * t.qty
  <2>2. a \in Nat
    BY <1>1, <2>1, ProductPositive
  <2> HIDE DEF a
  <2>3. a * CostDen \in Nat
    BY <1>2, <2>2, ProductPositive
  <2>4. CloseCost(t, t.stop) \in Nat
    BY <1>1, <1>3
  <2> QED BY <1>1, <2>3, <2>4 DEF InitialRisk, a
<1> QED BY <1>3, <1>4, <1>5

\* What StopForNetProfit divides by, and twenty times the profit in its terms.
Divisor(t) == 20 * t.qty * (CostDen - Direction(t) * CostNum)

LEMMA DivisorPositive ==
  ASSUME NEW t \in Position
  PROVE  Divisor(t) \in Int /\ Divisor(t) > 0
<1>1. t.qty \in Nat /\ t.qty > 0 /\ Direction(t) \in {-1, 1}
  BY DEF Position, Direction
<1>2. CostDen - Direction(t) * CostNum \in Int /\ CostDen - Direction(t) * CostNum > 0
  BY <1>1, CostAssumption
<1> DEFINE c == CostDen - Direction(t) * CostNum
<1> HIDE DEF c
<1>3. (20 * t.qty) * c > 0 /\ (20 * t.qty) * c \in Int
  BY <1>1, <1>2, ProductPositive DEF c
<1> QED BY <1>3 DEF Divisor, c

LEMMA ProfitIsLinear ==
  ASSUME NEW t \in Position, NEW p \in Int
  PROVE  20 * NetPnl(t, p) = Direction(t) * (Divisor(t) * p)
                             - Direction(t) * (20 * t.qty * t.entry * CostDen)
                             - 20 * t.fee
<1>1. t.qty \in Int /\ t.entry \in Int /\ t.fee \in Int /\ CostDen \in Int /\ CostNum \in Int
  BY CostAssumption DEF Position
<1>2. CASE Direction(t) = 1
  BY <1>1, <1>2 DEF NetPnl, CloseCost, Divisor
<1>3. CASE Direction(t) = -1
  BY <1>1, <1>3 DEF NetPnl, CloseCost, Divisor
<1> QED BY <1>2, <1>3 DEF Direction

\* Closer to the market is worth more.
LEMMA TighterPaysMore ==
  ASSUME NEW t \in Position, NEW p \in Int, NEW q \in Int, ~Tightens(t, q, p)
  PROVE  NetPnl(t, p) >= NetPnl(t, q)
<1>1. Divisor(t) \in Int /\ Divisor(t) > 0 /\ NetPnl(t, p) \in Int /\ NetPnl(t, q) \in Int
  BY DivisorPositive, Amounts
<1> DEFINE k == Direction(t) * (20 * t.qty * t.entry * CostDen) + 20 * t.fee
<1>2. k \in Int
  BY CostAssumption DEF Position, Direction
<1>3. /\ 20 * NetPnl(t, p) = Direction(t) * (Divisor(t) * p) - k
      /\ 20 * NetPnl(t, q) = Direction(t) * (Divisor(t) * q) - k
  <2>1. /\ Direction(t) * (20 * t.qty * t.entry * CostDen) \in Int
        /\ 20 * t.fee \in Int
        /\ Direction(t) * (Divisor(t) * p) \in Int
        /\ Direction(t) * (Divisor(t) * q) \in Int
    BY <1>1, CostAssumption DEF Position, Direction
  <2> QED BY <2>1, ProfitIsLinear
<1> HIDE DEF k
<1>4. t.side \in {"Buy", "Sell"}
  BY DEF Position
<1>5. CASE t.side = "Buy"
  <2>1. p - q >= 0 /\ Direction(t) = 1
    BY <1>5 DEF Tightens, Direction
  <2>2. Divisor(t) * (p - q) >= 0
    BY <1>1, <2>1, ProductPositive
  <2>3. Divisor(t) * (p - q) = Divisor(t) * p - Divisor(t) * q
    BY <1>1
  <2> QED BY <1>1, <1>2, <1>3, <2>1, <2>2, <2>3
<1>6. CASE t.side = "Sell"
  <2>1. q - p >= 0 /\ Direction(t) = -1
    BY <1>6 DEF Tightens, Direction
  <2>2. Divisor(t) * (q - p) >= 0
    BY <1>1, <2>1, ProductPositive
  <2>3. Divisor(t) * (q - p) = Divisor(t) * q - Divisor(t) * p
    BY <1>1
  <2> QED BY <1>1, <1>2, <1>3, <2>1, <2>2, <2>3
<1> QED BY <1>4, <1>5, <1>6

\* One tick past the stop for a profit, the position nets more than that profit.
LEMMA StopForNetProfitIsTight ==
  ASSUME NEW t \in Position, NEW desired \in Int
  PROVE  /\ StopForNetProfit(t, desired) \in Int
         /\ NextTick(t, StopForNetProfit(t, desired)) \in Int
         /\ 20 * NetPnl(t, NextTick(t, StopForNetProfit(t, desired))) >= desired
<1> DEFINE d == Divisor(t)
           base == 20 * t.qty * t.entry * CostDen
           extra == desired + 20 * t.fee
           s == StopForNetProfit(t, desired)
<1>1. d \in Int /\ d > 0
  BY DivisorPositive
<1>2. base \in Int /\ extra \in Int /\ 20 * t.fee \in Int
  BY CostAssumption DEF Position
<1>3. t.side \in {"Buy", "Sell"}
  BY DEF Position
<1>4. s = RoundProtective(t, base + Direction(t) * extra, d)
  BY DEF StopForNetProfit, Divisor
<1>5. \A p \in Int : 20 * NetPnl(t, p) = Direction(t) * (d * p) - Direction(t) * base
                                          - 20 * t.fee
  BY ProfitIsLinear
<1>6. extra = desired + 20 * t.fee
  OBVIOUS
<1>7. \A p \in Int : NetPnl(t, p) \in Int
  BY Amounts
<1> HIDE DEF d, base, extra, s
<1>8. CASE t.side = "Buy"
  <2>1. Direction(t) = 1
    BY <1>8 DEF Direction
  <2>2. s = (base + extra) \div d
    BY <1>2, <1>4, <1>8, <2>1 DEF RoundProtective
  <2>3. s \in Int /\ base + extra < d * (s + 1)
    BY <1>1, <1>2, <2>2, Floor
  <2>4. NextTick(t, s) = s + 1
    BY <2>1 DEF NextTick
  <2>5. 20 * NetPnl(t, s + 1) = d * (s + 1) - base - 20 * t.fee
    <3>1. d * (s + 1) \in Int BY <1>1, <2>3
    <3> QED BY <1>2, <1>5, <2>1, <2>3, <3>1
  <2>6. 20 * NetPnl(t, s + 1) >= desired
    <3>1. d * (s + 1) \in Int BY <1>1, <2>3
    <3> DEFINE n == NetPnl(t, s + 1)
    <3>2. n \in Int BY <1>7, <2>3
    <3> HIDE DEF n
    <3> QED BY <1>2, <1>6, <2>3, <2>5, <3>1, <3>2 DEF n
  <2> QED BY <2>3, <2>4, <2>6 DEF s
<1>9. CASE t.side = "Sell"
  <2>1. Direction(t) = -1 /\ t.side # "Buy"
    BY <1>9 DEF Direction
  <2> DEFINE u == (-(base - extra)) \div d
  <2>2. s = -u
    BY <1>2, <1>4, <2>1 DEF RoundProtective
  <2>3. u \in Int /\ -(base - extra) < d * (u + 1)
    BY <1>1, <1>2, Floor
  <2> HIDE DEF u
  <2>4. NextTick(t, s) = -(u + 1) /\ s \in Int
    BY <2>1, <2>2, <2>3 DEF NextTick
  <2>5. d * (-(u + 1)) = -(d * (u + 1)) /\ d * (u + 1) \in Int
    BY <1>1, <2>3
  <2>6. 20 * NetPnl(t, -(u + 1)) = d * (u + 1) + base - 20 * t.fee
    BY <1>2, <1>5, <2>1, <2>3, <2>5
  <2>7. 20 * NetPnl(t, -(u + 1)) >= desired
    <3> DEFINE n == NetPnl(t, -(u + 1))
    <3>2. n \in Int BY <1>7, <2>3
    <3> HIDE DEF n
    <3> QED BY <1>2, <1>6, <2>3, <2>5, <2>6, <3>2 DEF n
  <2> QED BY <2>3, <2>4, <2>7 DEF s
<1> QED BY <1>3, <1>8, <1>9

LEMMA TrailingStopIsAnInteger ==
  ASSUME NEW t \in Position, NEW price \in Int, NEW atr \in Int
  PROVE  TrailingStop(t, price, atr) \in Int
<1> DEFINE n == 2 * price - Direction(t) * (IF 100 * atr >= price THEN 4 ELSE 3) * atr
<1>1. n \in Int
  BY DEF Direction
<1>2. TrailingStop(t, price, atr) = RoundProtective(t, n, 2)
  BY DEF TrailingStop
<1> HIDE DEF n
<1>3. n \div 2 \in Int /\ (-n) \div 2 \in Int
  BY <1>1
<1> QED BY <1>2, <1>3 DEF RoundProtective

\* What a stop candidate promises, in twentieths: profit is the one at the price of
\* the decision, peak the one the decision knew.
Desired(action, t, profit, peak) ==
    CASE action = "BREAK_EVEN"         -> 0
      [] action = "MFE_PROFIT_PROTECT" -> Smaller(15 * profit, 10 * peak)
      [] OTHER                         -> 6 * InitialRisk(t)

\* A candidate stop keeps its promise one tick past it.
LEMMA CandidateIsTight ==
  ASSUME NEW t \in Position, NEW price \in Int, NEW peak \in Int, NEW stage,
         NEW atr \in Int, NEW reversal \in BOOLEAN
  PROVE  LET c == Candidate(t, price, peak, stage, atr, reversal)
         IN  \/ c = [action |-> "EARLY_PROFIT_EXIT", stop |-> NoStop]
             \/ c = [action |-> "PROFIT_WATCH", stop |-> NoStop]
             \/ c = NoDecision
             \/ /\ c.action \in StopActions
                /\ c.stop \in Int
                /\ 20 * NetPnl(t, NextTick(t, c.stop))
                      >= Desired(c.action, t, NetPnl(t, price), peak)
<1> DEFINE profit   == NetPnl(t, price)
           risk     == InitialRisk(t)
           desired  == Smaller(15 * profit, 10 * peak)
           locked   == Tighter(t, TrailingStop(t, price, atr), StopForNetProfit(t, 6 * risk))
           Tight(a, s) == s \in Int /\ 20 * NetPnl(t, NextTick(t, s)) >= Desired(a, t, profit, peak)
           c        == Candidate(t, price, peak, stage, atr, reversal)
<1>1. profit \in Int /\ risk \in Nat
  BY Amounts
<1>2. desired \in Int
  BY <1>1 DEF Smaller
<1>3. \A x \in Int : /\ StopForNetProfit(t, x) \in Int
                     /\ NextTick(t, StopForNetProfit(t, x)) \in Int
                     /\ 20 * NetPnl(t, NextTick(t, StopForNetProfit(t, x))) >= x
  BY StopForNetProfitIsTight
<1>4. Tight("BREAK_EVEN", StopForNetProfit(t, 0))
  BY <1>3 DEF Desired
<1>5. Tight("MFE_PROFIT_PROTECT", StopForNetProfit(t, desired))
  <2>1. Desired("MFE_PROFIT_PROTECT", t, profit, peak) = desired
    BY DEF Desired
  <2> HIDE DEF desired, profit
  <2> QED BY <1>2, <1>3, <2>1
<1>6. ASSUME NEW a \in {"PROFIT_LOCK", "TRAILING_UPDATE"}
      PROVE  Tight(a, locked)
  <2> DEFINE low == StopForNetProfit(t, 6 * risk)
  <2>1. low \in Int /\ NextTick(t, low) \in Int /\ 20 * NetPnl(t, NextTick(t, low)) >= 6 * risk
    <3>1. 6 * risk \in Int
      BY <1>1
    <3> HIDE DEF risk
    <3> QED BY <1>3, <3>1
  <2>2. locked \in Int /\ ~Tightens(t, low, locked)
    <3> HIDE DEF low
    <3>1. TrailingStop(t, price, atr) \in Int
      BY TrailingStopIsAnInteger
    <3>2. locked = Tighter(t, TrailingStop(t, price, atr), low)
      BY DEF low
    <3> HIDE DEF locked
    <3> QED BY <2>1, <3>1, <3>2 DEF Tighter, Tightens
  <2>3. NextTick(t, locked) \in Int /\ ~Tightens(t, NextTick(t, low), NextTick(t, locked))
    <3> HIDE DEF low, locked
    <3> QED BY <2>1, <2>2 DEF NextTick, Tightens, Direction
  <2>4. NetPnl(t, NextTick(t, locked)) >= NetPnl(t, NextTick(t, low))
    <3> HIDE DEF low, locked
    <3> QED BY <2>1, <2>3, TighterPaysMore
  <2>5. NetPnl(t, NextTick(t, locked)) \in Int /\ NetPnl(t, NextTick(t, low)) \in Int
    <3> HIDE DEF low, locked
    <3> QED BY <2>1, <2>3, Amounts
  <2>6. Desired(a, t, profit, peak) = 6 * risk
    BY DEF Desired
  <2> HIDE DEF low, locked, profit, risk
  <2> QED BY <1>1, <2>1, <2>2, <2>4, <2>5, <2>6
<1>7. \/ c = [action |-> "EARLY_PROFIT_EXIT", stop |-> NoStop]
      \/ c = [action |-> "PROFIT_WATCH", stop |-> NoStop]
      \/ c = NoDecision
      \/ c = [action |-> "MFE_PROFIT_PROTECT", stop |-> StopForNetProfit(t, desired)]
      \/ \E a \in {"PROFIT_LOCK", "TRAILING_UPDATE"} : c = [action |-> a, stop |-> locked]
      \/ c = [action |-> "BREAK_EVEN", stop |-> StopForNetProfit(t, 0)]
  BY DEF Candidate
<1>8. ASSUME NEW a \in StopActions, NEW s, Tight(a, s), c = [action |-> a, stop |-> s]
      PROVE  /\ c.action \in StopActions
             /\ c.stop \in Int
             /\ 20 * NetPnl(t, NextTick(t, c.stop)) >= Desired(c.action, t, profit, peak)
  <2> HIDE DEF c, profit
  <2> QED BY <1>8
<1> HIDE DEF c, profit, desired, locked
<1>9. QED
  <2>1. CASE c = [action |-> "MFE_PROFIT_PROTECT", stop |-> StopForNetProfit(t, desired)]
    <3>1. "MFE_PROFIT_PROTECT" \in StopActions BY DEF StopActions
    <3> QED BY <1>5, <1>8, <2>1, <3>1 DEF c, profit
  <2>2. ASSUME NEW a \in {"PROFIT_LOCK", "TRAILING_UPDATE"}, c = [action |-> a, stop |-> locked]
        PROVE  /\ c.action \in StopActions
               /\ c.stop \in Int
               /\ 20 * NetPnl(t, NextTick(t, c.stop)) >= Desired(c.action, t, profit, peak)
    <3>1. a \in StopActions BY DEF StopActions
    <3> QED BY <1>6, <1>8, <2>2, <3>1
  <2>3. CASE c = [action |-> "BREAK_EVEN", stop |-> StopForNetProfit(t, 0)]
    <3>1. "BREAK_EVEN" \in StopActions BY DEF StopActions
    <3> QED BY <1>4, <1>8, <2>3, <3>1 DEF c, profit
  <2> QED BY <1>7, <2>1, <2>2, <2>3 DEF c, profit

\* A stop that a decision asks for: tighter than the confirmed one, behind the market,
\* and either next to it or as tight as the promise allows.
SoundStop(t, price, confirmed, action, stop, peak) ==
    /\ stop \in Int /\ stop > 0
    /\ Tightens(t, stop, confirmed)
    /\ Tightens(t, price, stop)
    /\ \/ stop = price - Direction(t)
       \/ 20 * NetPnl(t, NextTick(t, stop)) >= Desired(action, t, NetPnl(t, price), peak)

LEMMA DecisionIsSound ==
  ASSUME NEW t \in Position, NEW price \in Nat \ {0}, NEW confirmed \in Nat \ {0},
         NEW mfe \in Nat, NEW stage, NEW atr \in Nat, NEW reversal \in BOOLEAN
  PROVE  LET d == Evaluate(t, price, confirmed, mfe, stage, atr, reversal)
         IN  \/ d = [action |-> "EARLY_PROFIT_EXIT", stop |-> NoStop]
             \/ d = [action |-> "PROFIT_WATCH", stop |-> NoStop]
             \/ d = NoDecision
             \/ /\ d.action \in StopActions
                /\ SoundStop(t, price, confirmed, d.action, d.stop,
                             Larger(mfe, NetPnl(t, price)))
<1> DEFINE peak == Larger(mfe, NetPnl(t, price))
           c == Candidate(t, price, peak, stage, atr, reversal)
           s == KeepBehindMarket(t, c.stop, price)
           d == Evaluate(t, price, confirmed, mfe, stage, atr, reversal)
<1>1. peak \in Int
  BY Amounts DEF Larger
<1>2. \/ c = [action |-> "EARLY_PROFIT_EXIT", stop |-> NoStop]
      \/ c = [action |-> "PROFIT_WATCH", stop |-> NoStop]
      \/ c = NoDecision
      \/ /\ c.action \in StopActions
         /\ c.stop \in Int
         /\ 20 * NetPnl(t, NextTick(t, c.stop))
               >= Desired(c.action, t, NetPnl(t, price), peak)
  <2> HIDE DEF peak
  <2> QED BY <1>1, CandidateIsTight
<1>3. d = IF c.action \notin StopActions THEN c
          ELSE IF Tightens(t, c.stop, confirmed) /\ Tightens(t, s, confirmed)
               THEN [action |-> c.action, stop |-> s]
               ELSE NoDecision
  BY DEF Evaluate
<1> HIDE DEF peak, c, d
<1>4. ASSUME c.action \in StopActions, c.stop \in Int, Tightens(t, s, confirmed),
             20 * NetPnl(t, NextTick(t, c.stop))
                >= Desired(c.action, t, NetPnl(t, price), peak)
      PROVE  SoundStop(t, price, confirmed, c.action, s, peak)
  <2>1. t.side \in {"Buy", "Sell"}
    BY DEF Position
  <2>2. /\ s \in Int
        /\ s = c.stop \/ s = price - Direction(t)
        /\ Tightens(t, price, s)
    BY <1>4, <2>1 DEF KeepBehindMarket, Smaller, Larger, Direction, Tightens
  <2>3. s > 0
    <3>1. CASE t.side = "Buy"
      BY <1>4, <2>2, <3>1 DEF Tightens
    <3>2. CASE t.side # "Buy"
      BY <1>4, <2>2, <3>2 DEF Tightens
    <3> QED BY <3>1, <3>2
  <2> HIDE DEF s
  <2> QED BY <1>4, <2>2, <2>3 DEF SoundStop
<1> HIDE DEF s
<1>5. /\ "EARLY_PROFIT_EXIT" \notin StopActions
      /\ "PROFIT_WATCH" \notin StopActions
      /\ NoDecision.action \notin StopActions
  BY DEF StopActions, NoDecision
<1> QED BY <1>2, <1>3, <1>4, <1>5 DEF d, peak

(***************************************************************************)
(* The initial states and the steps beside the protector                   *)
(***************************************************************************)

LEMMA PositionsAreReal ==
  ASSUME TypeOK, NEW e \in Entries
  PROVE  terms[e] \in Position /\ InitialRisk(terms[e]) > 0
BY TermsAssumption DEF TypeOK, Position

LEMMA InitialStates == Init => IInv
<1> SUFFICES ASSUME Init PROVE IInv
  OBVIOUS
<1> USE DEF Init, NoRead, NoSnapshot
<1>1. \A e \in Entries : rows[e] = NoRow /\ ~HasRow(e) /\ exitSent[e] = 0 /\ best[e] = 0
  BY DEF HasRow
<1>2. TypeOK
  BY <1>1 DEF TypeOK, ProtectorPc, NoTerms, NoStop
<1>3. KnownHasFilled /\ OtherOwnersAreGone /\ ReadIsCurrent
  BY <1>1 DEF KnownHasFilled, OtherOwnersAreGone, ReadIsCurrent
<1>4. EventInHand /\ ReadInHand /\ SnapshotIsReal
  BY DEF EventInHand, ReadInHand, SnapshotIsReal, Working, Updating, Exiting
<1>5. StopsArePositive /\ UnprotectedIsUnknown
  BY <1>1 DEF StopsArePositive, UnprotectedIsUnknown, NoStop
<1>6. PeakIsConsistent /\ RowIsPure /\ NothingObserved /\ PeakIsKept
  BY <1>1 DEF PeakIsConsistent, RowIsPure, NothingObserved, PeakIsKept
<1>7. ExitBudget
  BY <1>1 DEF ExitBudget, ExitOnItsWay, Exiting
<1>8. ConfirmedStopIsNative /\ RequestedStopIsSound
  BY <1>1 DEF ConfirmedStopIsNative, RequestedStopIsSound
<1> QED BY <1>2, <1>3, <1>4, <1>5, <1>6, <1>7, <1>8 DEF IInv

\* What an entry or a closing position leaves alone.
LEMMA ProtectorKept ==
  ASSUME IInv, UNCHANGED <<terms, recordVars, protectorVars, historyVars>>
  PROVE  /\ EventInHand' /\ ReadInHand' /\ SnapshotIsReal' /\ PeakIsConsistent'
         /\ NothingObserved' /\ ExitBudget' /\ PeakIsKept' /\ RequestedStopIsSound'
<1> USE DEF recordVars, protectorVars, historyVars, HasRow
<1>1. EventInHand' /\ ReadInHand'
  BY DEF IInv, EventInHand, ReadInHand
<1>2. SnapshotIsReal'
  BY DEF IInv, SnapshotIsReal, SnapshotOf
<1>3. PeakIsConsistent' /\ NothingObserved' /\ PeakIsKept'
  BY DEF IInv, PeakIsConsistent, NothingObserved, PeakIsKept
<1>4. ExitBudget'
  BY DEF IInv, ExitBudget, ExitOnItsWay, ExitBegun
<1>5. RequestedStopIsSound'
  BY DEF IInv, RequestedStopIsSound
<1> QED BY <1>1, <1>2, <1>3, <1>4, <1>5

\* An entry fills once: nothing that the protector knows is about it.
LEMMA EntryFillsKeeps ==
  ASSUME IInv, NEW e \in Entries, EntryFills(e)
  PROVE  IInv'
<1> USE DEF EntryFills, recordVars, protectorVars, historyVars, HasRow
<1>1. /\ e \notin filled /\ e # NoEntry /\ rows[e] = NoRow
      /\ e \notin {owner, seen.holder, seen.owner, snapshot.entry, snapshot.of}
  BY ProtectorAssumption DEF IInv, KnownHasFilled
<1>2. TypeOK'
  BY DEF IInv, TypeOK, NoStop
<1>3. KnownHasFilled'
  BY DEF IInv, KnownHasFilled
<1>4. OtherOwnersAreGone'
  BY <1>1 DEF OtherOwnersAreGone
<1>5. StopsArePositive'
  BY DEF IInv, StopsArePositive, NoStop
<1>6. UnprotectedIsUnknown'
  BY <1>1 DEF UnprotectedIsUnknown
<1>7. ReadIsCurrent'
  BY <1>1 DEF ReadIsCurrent
<1>8. RowIsPure'
  BY <1>1 DEF IInv, RowIsPure
<1>9. ConfirmedStopIsNative'
  BY DEF ConfirmedStopIsNative
<1> QED BY <1>2, <1>3, <1>4, <1>5, <1>6, <1>7, <1>8, <1>9, ProtectorKept DEF IInv

LEMMA EntryProtectedKeeps ==
  ASSUME IInv, EntryProtected
  PROVE  IInv'
<1> USE DEF EntryProtected, entryVars, recordVars, protectorVars, historyVars, HasRow
<1>1. holder \in Entries /\ terms[holder].stop \in Nat \ {0} /\ ~HasRow(holder)
  BY PositionsAreReal DEF IInv, TypeOK, UnprotectedIsUnknown, Position
<1>2. TypeOK'
  BY <1>1 DEF IInv, TypeOK
<1>3. KnownHasFilled'
  BY DEF IInv, KnownHasFilled
<1>4. OtherOwnersAreGone'
  BY DEF IInv, OtherOwnersAreGone
<1>5. StopsArePositive'
  BY <1>1 DEF IInv, StopsArePositive
<1>6. UnprotectedIsUnknown'
  BY <1>1 DEF UnprotectedIsUnknown, NoStop
<1>7. ReadIsCurrent'
  <2>1. pc = "SYNC" /\ holder = seen.holder => seen.stop = NoStop
    BY DEF IInv, ReadIsCurrent
  <2>2. pc \in {"AUTHORIZE", "SENT"} => holder # seen.holder
    BY DEF IInv, ReadIsCurrent
  <2> QED BY <2>1, <2>2 DEF ReadIsCurrent
<1>8. RowIsPure'
  BY DEF IInv, RowIsPure
<1>9. ConfirmedStopIsNative'
  BY <1>1 DEF ConfirmedStopIsNative
<1> QED BY <1>2, <1>3, <1>4, <1>5, <1>6, <1>7, <1>8, <1>9, ProtectorKept DEF IInv

LEMMA EntryRecordedKeeps ==
  ASSUME IInv, EntryRecorded
  PROVE  IInv'
<1> USE DEF EntryRecorded, exchangeVars, recordVars, protectorVars, historyVars, HasRow
<1>1. TypeOK'
  BY DEF IInv, TypeOK
<1>2. KnownHasFilled'
  BY DEF IInv, KnownHasFilled
<1>3. OtherOwnersAreGone' /\ StopsArePositive' /\ UnprotectedIsUnknown'
  BY DEF IInv, OtherOwnersAreGone, StopsArePositive, UnprotectedIsUnknown
<1>4. ReadIsCurrent'
  BY DEF IInv, ReadIsCurrent
<1>5. RowIsPure' /\ ConfirmedStopIsNative'
  BY DEF IInv, RowIsPure, ConfirmedStopIsNative
<1> QED BY <1>1, <1>2, <1>3, <1>4, <1>5, ProtectorKept DEF IInv

LEMMA PositionClosesKeeps ==
  ASSUME IInv, PositionCloses
  PROVE  IInv'
<1> USE DEF PositionCloses, entryVars, recordVars, protectorVars, historyVars, HasRow
<1>1. TypeOK'
  BY DEF IInv, TypeOK, NoStop
<1>2. KnownHasFilled'
  BY DEF IInv, KnownHasFilled
<1>3. OtherOwnersAreGone'
  <2>1. snapshot.entry # snapshot.of => snapshot.entry # NoEntry
    BY ProtectorAssumption DEF IInv, SnapshotIsReal, NoSnapshot
  <2> QED BY <2>1 DEF OtherOwnersAreGone
<1>4. StopsArePositive'
  BY DEF IInv, StopsArePositive, NoStop
<1>5. UnprotectedIsUnknown' /\ ReadIsCurrent'
  BY DEF UnprotectedIsUnknown, ReadIsCurrent
<1>6. RowIsPure'
  BY ProtectorAssumption DEF IInv, RowIsPure
<1>7. ConfirmedStopIsNative'
  BY ProtectorAssumption DEF ConfirmedStopIsNative
<1> QED BY <1>1, <1>2, <1>3, <1>4, <1>5, <1>6, <1>7, ProtectorKept DEF IInv

(***************************************************************************)
(* Steps that only read, and restarts                                      *)
(***************************************************************************)

\* What a step without a write leaves alone.
LEMMA RecordsKept ==
  ASSUME IInv, UNCHANGED <<exchangeVars, entryVars, recordVars, historyVars>>
  PROVE  PeakIsConsistent' /\ NothingObserved' /\ PeakIsKept' /\ ConfirmedStopIsNative'
BY DEF exchangeVars, entryVars, recordVars, historyVars, HasRow, IInv, PeakIsConsistent,
       NothingObserved, PeakIsKept, ConfirmedStopIsNative

LEMMA SyncReadKeeps ==
  ASSUME IInv, SyncRead
  PROVE  IInv'
<1> USE DEF SyncRead, exchangeVars, entryVars, recordVars, historyVars, HasRow
<1>1. TypeOK'
  BY DEF IInv, TypeOK, ProtectorPc
<1>2. KnownHasFilled'
  BY DEF IInv, KnownHasFilled
<1>3. EventInHand' /\ ReadInHand'
  BY DEF IInv, EventInHand, ReadInHand, Working, Updating, Exiting
<1>4. SnapshotIsReal'
  BY DEF IInv, SnapshotIsReal, SnapshotOf
<1>5. OtherOwnersAreGone' /\ StopsArePositive' /\ UnprotectedIsUnknown' /\ ReadIsCurrent'
  BY DEF IInv, OtherOwnersAreGone, StopsArePositive, UnprotectedIsUnknown, ReadIsCurrent
<1>6. RowIsPure'
  BY DEF IInv, RowIsPure
<1>7. ExitBudget' /\ RequestedStopIsSound'
  BY DEF IInv, ExitBudget, ExitOnItsWay, ExitBegun, Exiting, RequestedStopIsSound
<1> QED BY <1>1, <1>2, <1>3, <1>4, <1>5, <1>6, <1>7, RecordsKept DEF IInv

LEMMA SyncFailsKeeps ==
  ASSUME IInv, SyncFails
  PROVE  IInv'
<1> USE DEF SyncFails, exchangeVars, entryVars, recordVars, historyVars, HasRow, NoRead
<1>1. TypeOK'
  BY DEF IInv, TypeOK, ProtectorPc, NoStop
<1>2. KnownHasFilled'
  BY DEF IInv, KnownHasFilled
<1>3. EventInHand' /\ ReadInHand'
  BY DEF IInv, EventInHand, ReadInHand, Working, Updating, Exiting
<1>4. SnapshotIsReal'
  BY DEF IInv, SnapshotIsReal, SnapshotOf
<1>5. OtherOwnersAreGone' /\ StopsArePositive' /\ UnprotectedIsUnknown' /\ ReadIsCurrent'
  BY DEF IInv, OtherOwnersAreGone, StopsArePositive, UnprotectedIsUnknown, ReadIsCurrent,
         NoStop
<1>6. RowIsPure'
  BY ProtectorAssumption DEF IInv, RowIsPure
<1>7. ExitBudget' /\ RequestedStopIsSound'
  BY DEF IInv, ExitBudget, ExitOnItsWay, ExitBegun, Exiting, RequestedStopIsSound
<1> QED BY <1>1, <1>2, <1>3, <1>4, <1>5, <1>6, <1>7, RecordsKept DEF IInv

\* The stop that is about to be requested tightens the one that was read.
LEMMA ReadForUpdateKeeps ==
  ASSUME IInv, ReadForUpdate
  PROVE  IInv'
<1> USE DEF ReadForUpdate, StopAcceptable, exchangeVars, entryVars, recordVars, historyVars,
            HasRow
<1>1. TypeOK'
  BY DEF IInv, TypeOK, ProtectorPc
<1>2. KnownHasFilled'
  BY DEF IInv, KnownHasFilled
<1>3. EventInHand' /\ ReadInHand'
  BY DEF IInv, EventInHand, ReadInHand, Working, Updating, Exiting
<1>4. SnapshotIsReal'
  BY DEF IInv, SnapshotIsReal, SnapshotOf
<1>5. OtherOwnersAreGone' /\ StopsArePositive' /\ UnprotectedIsUnknown' /\ ReadIsCurrent'
  BY DEF IInv, OtherOwnersAreGone, StopsArePositive, UnprotectedIsUnknown, ReadIsCurrent
<1>6. RowIsPure'
  BY DEF IInv, RowIsPure
<1>7. ExitBudget' /\ RequestedStopIsSound'
  BY DEF IInv, ExitBudget, ExitOnItsWay, ExitBegun, Exiting, RequestedStopIsSound
<1> QED BY <1>1, <1>2, <1>3, <1>4, <1>5, <1>6, <1>7, RecordsKept DEF IInv

LEMMA AuthorizeUpdateKeeps ==
  ASSUME IInv, AuthorizeUpdate
  PROVE  IInv'
<1> USE DEF AuthorizeUpdate, exchangeVars, entryVars, recordVars, historyVars, HasRow
<1>1. TypeOK'
  BY DEF IInv, TypeOK, ProtectorPc
<1>2. KnownHasFilled'
  BY DEF IInv, KnownHasFilled
<1>3. EventInHand' /\ ReadInHand'
  BY DEF IInv, EventInHand, ReadInHand, Working, Updating, Exiting
<1>4. SnapshotIsReal'
  BY DEF IInv, SnapshotIsReal, SnapshotOf
<1>5. OtherOwnersAreGone' /\ StopsArePositive' /\ UnprotectedIsUnknown' /\ ReadIsCurrent'
  BY DEF IInv, OtherOwnersAreGone, StopsArePositive, UnprotectedIsUnknown, ReadIsCurrent
<1>6. RowIsPure'
  BY DEF IInv, RowIsPure
<1>7. ExitBudget' /\ RequestedStopIsSound'
  BY DEF IInv, ExitBudget, ExitOnItsWay, ExitBegun, Exiting, RequestedStopIsSound
<1> QED BY <1>1, <1>2, <1>3, <1>4, <1>5, <1>6, <1>7, RecordsKept DEF IInv

LEMMA ReadForExitKeeps ==
  ASSUME IInv, ReadForExit
  PROVE  IInv'
<1> USE DEF ReadForExit, exchangeVars, entryVars, recordVars, historyVars, HasRow
<1>1. TypeOK'
  BY DEF IInv, TypeOK, ProtectorPc
<1>2. KnownHasFilled'
  BY DEF IInv, KnownHasFilled
<1>3. EventInHand' /\ ReadInHand'
  BY DEF IInv, EventInHand, ReadInHand, Working, Updating, Exiting
<1>4. SnapshotIsReal'
  BY DEF IInv, SnapshotIsReal, SnapshotOf
<1>5. OtherOwnersAreGone' /\ StopsArePositive' /\ UnprotectedIsUnknown' /\ ReadIsCurrent'
  BY DEF IInv, OtherOwnersAreGone, StopsArePositive, UnprotectedIsUnknown, ReadIsCurrent
<1>6. RowIsPure'
  BY DEF IInv, RowIsPure
<1>7. ExitBudget' /\ RequestedStopIsSound'
  BY DEF IInv, ExitBudget, ExitOnItsWay, ExitBegun, Exiting, RequestedStopIsSound
<1> QED BY <1>1, <1>2, <1>3, <1>4, <1>5, <1>6, <1>7, RecordsKept DEF IInv

\* A new process knows nothing; what it has to go by is in the records.
LEMMA RestartKeeps ==
  ASSUME IInv, Restart
  PROVE  IInv'
<1> USE DEF Restart, exchangeVars, entryVars, recordVars, historyVars, HasRow, NoRead,
            NoSnapshot
<1>1. TypeOK'
  BY DEF IInv, TypeOK, ProtectorPc, NoTerms, NoStop
<1>2. KnownHasFilled'
  BY DEF IInv, KnownHasFilled
<1>3. EventInHand' /\ ReadInHand' /\ SnapshotIsReal'
  BY DEF IInv, EventInHand, ReadInHand, SnapshotIsReal, Working, Updating, Exiting
<1>4. OtherOwnersAreGone' /\ StopsArePositive' /\ UnprotectedIsUnknown' /\ ReadIsCurrent'
  BY DEF IInv, OtherOwnersAreGone, StopsArePositive, UnprotectedIsUnknown, ReadIsCurrent,
         NoStop
<1>5. RowIsPure'
  BY ProtectorAssumption DEF IInv, RowIsPure
<1>6. ExitBudget' /\ RequestedStopIsSound'
  BY DEF IInv, ExitBudget, ExitOnItsWay, ExitBegun, Exiting, RequestedStopIsSound
<1> QED BY <1>1, <1>2, <1>3, <1>4, <1>5, <1>6, RecordsKept DEF IInv

(***************************************************************************)
(* The end of an event                                                     *)
(***************************************************************************)

\* Events change their status and nothing else, so that one begun stays begun.
LEMMA StatusWritten ==
  ASSUME TypeOK, NEW S, NEW s \in EventStatus,
         events' = {IF v \in S THEN [v EXCEPT !.status = s] ELSE v : v \in events}
  PROVE  /\ \A v \in events' : v \in [entry : Entries, action : Action, stop : Int,
                                      status : EventStatus]
         /\ \A e \in Entries : ExitBegun(e) => ExitBegun(e)'
<1> DEFINE w(v) == IF v \in S THEN [v EXCEPT !.status = s] ELSE v
<1>1. events' = {w(v) : v \in events}
  OBVIOUS
<1>2. ASSUME NEW v \in events
      PROVE  /\ w(v) \in [entry : Entries, action : Action, stop : Int, status : EventStatus]
             /\ w(v).entry = v.entry /\ w(v).action = v.action /\ w(v).stop = v.stop
  BY DEF TypeOK
<1> HIDE DEF w
<1>3. \A v \in events' : v \in [entry : Entries, action : Action, stop : Int,
                                status : EventStatus]
  BY <1>1, <1>2
<1>4. ASSUME NEW e \in Entries, ExitBegun(e)
      PROVE  ExitBegun(e)'
  <2>1. PICK v \in events : /\ v.entry = e /\ v.action = "EARLY_PROFIT_EXIT"
                            /\ v.stop = NoStop
    BY <1>4 DEF ExitBegun
  <2>2. w(v) \in events'
    BY <1>1
  <2> QED BY <1>2, <2>1, <2>2 DEF ExitBegun
<1> QED BY <1>3, <1>4

LEMMA EventsAfterFinish ==
  ASSUME TypeOK, NEW s \in EventStatus, SetStatus(s)
  PROVE  /\ \A v \in events' : v \in [entry : Entries, action : Action, stop : Int,
                                      status : EventStatus]
         /\ \A e \in Entries : ExitBegun(e) => ExitBegun(e)'
<1> DEFINE S == {v \in events : v.entry = current.entry /\ v.action = current.action
                                /\ v.stop = current.stop}
<1>1. events' = {IF v \in S THEN [v EXCEPT !.status = s] ELSE v : v \in events}
  BY DEF SetStatus
<1> HIDE DEF S
<1> QED BY <1>1, StatusWritten

\* What a row tells of the profit.
SameProfit(e) ==
    /\ HasRow(e)' <=> HasRow(e)
    /\ rows'[e].mfe = rows[e].mfe
    /\ rows'[e].peak = rows[e].peak
    /\ rows'[e].risk = rows[e].risk

LEMMA ARowIsARow ==
  ASSUME NEW r \in RowSet
  PROVE  r # NoRow
<1>1. r.stage \in Stage /\ NoRow.stage \notin Stage
  BY DEF RowSet, NoRow, Stage, Action, StopActions
<1> QED BY <1>1

\* The two fields of a row that an answer of the exchange may change.
LEMMA StopAndStageWritten ==
  ASSUME NEW c \in Entries, rows \in [Entries -> {NoRow} \cup RowSet], rows[c] \in RowSet,
         NEW a \in Stage, NEW k \in Int,
         rows' = [rows EXCEPT ![c].stage = a, ![c].stop = k]
                 \/ rows' = [rows EXCEPT ![c].stop = k, ![c].stage = a],
         NEW e \in Entries
  PROVE  /\ rows' \in [Entries -> {NoRow} \cup RowSet]
         /\ SameProfit(e)
         /\ rows'[e].stop = IF e = c THEN k ELSE rows[e].stop
<1> DEFINE r == [rows[c] EXCEPT !.stage = a]
           q == [r EXCEPT !.stop = k]
<1>1. r \in RowSet /\ r.mfe = rows[c].mfe /\ r.peak = rows[c].peak /\ r.risk = rows[c].risk
  BY DEF RowSet
<1>2. rows' = [rows EXCEPT ![c] = q]
  BY DEF RowSet
<1> HIDE DEF r
<1>3. /\ q \in RowSet /\ q.stop = k
      /\ q.mfe = r.mfe /\ q.peak = r.peak /\ q.risk = r.risk
  BY <1>1 DEF RowSet
<1> HIDE DEF q
<1>4. q # NoRow /\ rows[c] # NoRow
  BY <1>3, ARowIsARow
<1>5. rows' \in [Entries -> {NoRow} \cup RowSet]
  BY <1>2, <1>3
<1>6. rows'[e] = IF e = c THEN q ELSE rows[e]
  BY <1>2
<1> QED BY <1>1, <1>3, <1>4, <1>5, <1>6 DEF SameProfit, HasRow

\* A confirmation moves the stage and, if it is of a stop, the stop.
LEMMA RowsAfterFinish ==
  ASSUME IInv, pc \in Working, NEW s \in EventStatus, FinishEvent(s), NEW e \in Entries
  PROVE  /\ rows'[e] = NoRow \/ rows'[e] \in RowSet
         /\ SameProfit(e)
         /\ rows'[e].stop = IF s = "CONFIRMED" /\ e = current.entry /\ current.stop # NoStop
                            THEN current.stop ELSE rows[e].stop
<1> DEFINE c == current.entry
           a == current.action
           k == IF current.stop = NoStop THEN rows[c].stop ELSE current.stop
<1>1. c \in Entries /\ rows[c] \in RowSet /\ HasRow(c) /\ a \in Stage /\ current.stop \in Int
  <2>1. current \in Pending /\ HasRow(c)
    BY DEF IInv, EventInHand
  <2> QED BY <2>1 DEF IInv, TypeOK, HasRow, RowSet, Pending, Stage
<1>2. rows[e] = NoRow \/ rows[e] \in RowSet
  BY DEF IInv, TypeOK, RowSet
<1>3. CASE s # "CONFIRMED"
  BY <1>2, <1>3 DEF FinishEvent, SameProfit, HasRow
<1>4. CASE s = "CONFIRMED"
  <2>1. rows' = [rows EXCEPT ![c].stage = a,
                             ![c].stop = IF current.stop = NoStop THEN @ ELSE current.stop]
    BY <1>4 DEF FinishEvent
  <2>2. rows \in [Entries -> {NoRow} \cup RowSet] /\ k \in Int
    BY <1>1 DEF IInv, TypeOK, RowSet
  <2>3. rows' = [rows EXCEPT ![c].stage = a, ![c].stop = k]
    BY <1>1, <2>1, <2>2 DEF RowSet
  <2> HIDE DEF k, a
  <2>4. /\ rows' \in [Entries -> {NoRow} \cup RowSet]
        /\ SameProfit(e)
        /\ rows'[e].stop = IF e = c THEN k ELSE rows[e].stop
    BY <1>1, <2>2, <2>3, StopAndStageWritten
  <2> QED BY <1>4, <2>4 DEF k
<1> QED BY <1>3, <1>4

LEMMA TightensIsAnOrder ==
  ASSUME NEW t \in Position, NEW x \in Int, NEW y \in Int, NEW z \in Int
  PROVE  /\ ~Tightens(t, x, x)
         /\ ~Tightens(t, x, y) /\ ~Tightens(t, y, z) => ~Tightens(t, x, z)
         /\ Tightens(t, x, y) => ~Tightens(t, y, x)
BY DEF Tightens

\* An event ends while the exchange moves no stop away from a position it was asked for.
LEMMA FinishKeeps ==
  ASSUME IInv, pc \in Working, NEW s \in {"CONFIRMED", "UNKNOWN", "FAILED"},
         FinishEvent(s), UNCHANGED <<entryVars, holder, best>>,
         nativeStop' \in Nat, nativeStop' = NoStop => nativeStop = NoStop,
         exitLive' \subseteq Entries, stray \subseteq stray', stray' \subseteq Entries,
         s = "CONFIRMED" /\ current.stop # NoStop => nativeStop' = current.stop,
         holder # NoEntry /\ holder \notin stray' /\ nativeStop # NoStop
            => ~Tightens(terms[holder], nativeStop, nativeStop'),
         exitSent' \in [Entries -> Nat],
         \A e \in Entries : exitSent'[e] = IF ExitOnItsWay(e) /\ exitSent'[e] # exitSent[e]
                                           THEN 1 ELSE exitSent[e]
  PROVE  IInv'
<1> USE DEF entryVars
<1>1. s \in EventStatus
  BY DEF EventStatus
<1>2. \A e \in Entries :
         /\ rows'[e] = NoRow \/ rows'[e] \in RowSet
         /\ SameProfit(e)
         /\ rows'[e].stop = IF s = "CONFIRMED" /\ e = current.entry /\ current.stop # NoStop
                            THEN current.stop ELSE rows[e].stop
  BY <1>1, RowsAfterFinish
<1>3. /\ pc' = "IDLE" /\ current' = NoEvent /\ seen' = NoRead /\ snapshot' = snapshot
      /\ SetStatus(s)
  BY DEF FinishEvent
<1>4. \A e \in Entries : HasRow(e)' <=> HasRow(e)
  BY <1>2 DEF SameProfit
<1>5. current \in Pending /\ current.entry \in Entries /\ current.stop \in Int
  BY DEF IInv, EventInHand, Pending
<1>6. TypeOK'
  <2>1. rows' \in [Entries -> {NoRow} \cup RowSet]
    <3>1. DOMAIN rows' = Entries /\ rows' = [e \in DOMAIN rows' |-> rows'[e]]
      BY DEF IInv, TypeOK, FinishEvent
    <3> QED BY <1>2, <3>1
  <2>2. \A v \in events' : v \in [entry : Entries, action : Action, stop : Int,
                                  status : EventStatus]
    BY <1>1, <1>3, EventsAfterFinish DEF IInv
  <2>3. /\ terms' \in [Entries -> TermsChoices] /\ holder' \in Entries \cup {NoEntry}
        /\ filled' \subseteq Entries /\ owner' \in Entries \cup {NoEntry}
        /\ best' \in [Entries -> Nat]
    BY DEF IInv, TypeOK
  <2>4. /\ pc' \in ProtectorPc
        /\ snapshot'.entry \in Entries \cup {NoEntry}
        /\ snapshot'.terms.side \in {"Buy", "Sell", "None"}
        /\ snapshot'.of \in Entries \cup {NoEntry}
        /\ current' = NoEvent
    BY <1>3 DEF IInv, TypeOK, ProtectorPc
  <2>5. seen' \in [holder : Entries \cup {NoEntry}, stop : Int, owner : Entries \cup {NoEntry}]
    BY <1>3 DEF NoRead, NoStop
  <2> QED BY <2>1, <2>2, <2>3, <2>4, <2>5 DEF TypeOK, RowSet
<1>7. KnownHasFilled'
  BY <1>3, <1>4 DEF IInv, KnownHasFilled, NoRead
<1>8. EventInHand' /\ ReadInHand'
  BY <1>3 DEF EventInHand, ReadInHand, Working, Updating, Exiting, NoRead
<1>9. SnapshotIsReal'
  BY <1>3 DEF IInv, SnapshotIsReal, SnapshotOf
<1>10. OtherOwnersAreGone'
  BY <1>3 DEF IInv, OtherOwnersAreGone, NoRead
<1>11. StopsArePositive'
  <2>1. HasRow(current.entry) /\ (current.stop # NoStop => current.stop > 0)
    BY DEF IInv, EventInHand, Working
  <2> QED BY <1>2, <1>3, <1>4, <1>5, <2>1 DEF IInv, StopsArePositive, NoRead, NoStop
<1>12. UnprotectedIsUnknown' /\ ReadIsCurrent'
  BY <1>3, <1>4 DEF IInv, TypeOK, UnprotectedIsUnknown, ReadIsCurrent, NoRead
<1>13. PeakIsConsistent' /\ NothingObserved' /\ PeakIsKept'
  BY <1>2 DEF IInv, PeakIsConsistent, NothingObserved, PeakIsKept, SameProfit
<1>14. RowIsPure'
  BY <1>2, <1>3, ProtectorAssumption DEF IInv, RowIsPure, SameProfit, NoRead
<1>15. ExitBudget'
  <2>1. \A e \in Entries : ExitBegun(e) => ExitBegun(e)'
    BY <1>1, <1>3, EventsAfterFinish DEF IInv
  <2>2. \A e \in Entries : ~ExitOnItsWay(e)'
    BY <1>3 DEF ExitOnItsWay, Exiting
  <2> QED BY <2>1, <2>2 DEF IInv, ExitBudget
<1>16. ConfirmedStopIsNative'
  <2> SUFFICES ASSUME NEW e \in Entries, holder = e, HasRow(e), e \notin stray',
                      nativeStop' # NoStop
               PROVE  ~Tightens(terms[e], rows'[e].stop, nativeStop')
    BY <1>4 DEF ConfirmedStopIsNative
  <2>1. e # NoEntry /\ nativeStop # NoStop
    BY ProtectorAssumption DEF IInv, UnprotectedIsUnknown
  <2>2. /\ ~Tightens(terms[e], rows[e].stop, nativeStop)
        /\ ~Tightens(terms[e], nativeStop, nativeStop')
    BY <2>1 DEF IInv, ConfirmedStopIsNative
  <2>3. terms[e] \in Position /\ rows[e].stop \in Int /\ nativeStop \in Int
    BY PositionsAreReal DEF IInv, TypeOK, HasRow
  <2>4. ~Tightens(terms[e], rows[e].stop, nativeStop')
    BY <2>2, <2>3, TightensIsAnOrder
  <2>5. ~Tightens(terms[e], nativeStop', nativeStop')
    BY <2>3, TightensIsAnOrder
  <2> QED BY <1>2, <2>4, <2>5
<1>17. RequestedStopIsSound'
  BY <1>3 DEF RequestedStopIsSound
<1> QED BY <1>6, <1>7, <1>8, <1>9, <1>10, <1>11, <1>12, <1>13, <1>14, <1>15, <1>16, <1>17
        DEF IInv

\* An event ends and the exchange is left alone.
LEMMA FinishAloneKeeps ==
  ASSUME IInv, pc \in Working, NEW s \in {"CONFIRMED", "UNKNOWN", "FAILED"},
         FinishEvent(s), UNCHANGED <<exchangeVars, entryVars, historyVars>>,
         s = "CONFIRMED" /\ current.stop # NoStop => nativeStop = current.stop
  PROVE  IInv'
<1> USE DEF exchangeVars, entryVars, historyVars
<1>1. /\ nativeStop \in Nat /\ exitLive \subseteq Entries /\ stray \subseteq Entries
      /\ exitSent \in [Entries -> Nat] /\ nativeStop \in Int
  BY DEF IInv, TypeOK, StopsArePositive
<1>2. holder # NoEntry => ~Tightens(terms[holder], nativeStop, nativeStop)
  BY <1>1, PositionsAreReal, TightensIsAnOrder DEF IInv, TypeOK
<1>3. UNCHANGED <<entryVars, holder, best>> /\ UNCHANGED <<nativeStop, exitLive, stray, exitSent>>
  OBVIOUS
<1> QED BY <1>1, <1>2, <1>3, FinishKeeps

LEMMA FinishWatchKeeps ==
  ASSUME IInv, FinishWatch
  PROVE  IInv'
<1>1. pc \in Working /\ current.stop = NoStop
  BY DEF FinishWatch, Working, IInv, EventInHand
<1> QED BY <1>1, FinishAloneKeeps DEF FinishWatch

LEMMA ManagementFailsKeeps ==
  ASSUME IInv, ManagementFails
  PROVE  IInv'
<1>1. pc \in Working
  BY DEF ManagementFails, Working, Updating, Exiting
<1> QED BY <1>1, FinishAloneKeeps DEF ManagementFails

LEMMA VerifyStopKeeps ==
  ASSUME IInv, VerifyStop
  PROVE  IInv'
<1> DEFINE s == IF holder # NoEntry /\ nativeStop = current.stop
                THEN "CONFIRMED" ELSE "UNKNOWN"
<1>1. pc \in Working
  BY DEF VerifyStop, Working, Updating
<1>2. s \in {"CONFIRMED", "UNKNOWN"} /\ (s = "CONFIRMED" => nativeStop = current.stop)
  OBVIOUS
<1>3. FinishEvent(s) /\ UNCHANGED <<exchangeVars, entryVars, historyVars>>
  BY DEF VerifyStop
<1> HIDE DEF s
<1> QED BY <1>1, <1>2, <1>3, FinishAloneKeeps

LEMMA VerifyFailsKeeps ==
  ASSUME IInv, VerifyFails
  PROVE  IInv'
<1>1. pc \in Working
  BY DEF VerifyFails, Working, Updating
<1> QED BY <1>1, FinishAloneKeeps DEF VerifyFails

LEMMA AlreadyClosedKeeps ==
  ASSUME IInv, AlreadyClosed
  PROVE  IInv'
<1>1. pc \in Working /\ current.stop = NoStop
  BY DEF AlreadyClosed, Working, Exiting, IInv, EventInHand
<1> QED BY <1>1, FinishAloneKeeps DEF AlreadyClosed

\* A request that takes effect moves the stop of the position it was computed for
\* towards the market; another position's is noted as a stray.
LEMMA ApplyStopMoves ==
  ASSUME IInv, pc = "SENT", ApplyStop
  PROVE  /\ UNCHANGED <<holder, exitLive, exitSent, best>>
         /\ nativeStop' \in Nat /\ nativeStop' > 0 /\ nativeStop' = current.stop
         /\ stray \subseteq stray' /\ stray' \subseteq Entries
         /\ holder \notin stray' => ~Tightens(terms[holder], nativeStop, nativeStop')
<1>1. current.stop \in Int /\ current.stop > 0
  BY DEF IInv, EventInHand, Working, Updating, Pending
<1>2. holder \in Entries /\ nativeStop \in Int
  BY DEF ApplyStop, IInv, TypeOK
<1>3. holder \notin stray' => ~Tightens(terms[holder], nativeStop, nativeStop')
  <2> SUFFICES ASSUME holder \notin stray'
               PROVE  ~Tightens(terms[holder], nativeStop, nativeStop')
    OBVIOUS
  <2>1. holder = seen.holder
    BY DEF ApplyStop
  <2>2. Tightens(terms[holder], current.stop, nativeStop)
    BY <2>1 DEF ApplyStop, IInv, ReadIsCurrent
  <2> QED BY <1>1, <1>2, <2>2, PositionsAreReal, TightensIsAnOrder DEF ApplyStop, IInv
<1> QED BY <1>1, <1>2, <1>3 DEF ApplyStop, IInv, TypeOK

\* The request is not answered, and took effect or did not.
LEMMA LostAnswerKeeps ==
  ASSUME IInv, pc = "SENT", NEW s \in {"UNKNOWN", "FAILED"},
         ApplyStop \/ UNCHANGED <<exchangeVars, historyVars>>,
         FinishEvent(s), UNCHANGED entryVars
  PROVE  IInv'
<1>1. pc \in Working
  BY DEF Working, Updating
<1>2. CASE UNCHANGED <<exchangeVars, historyVars>>
  BY <1>1, <1>2, FinishAloneKeeps
<1>3. CASE ApplyStop
  <2>1. exitSent \in [Entries -> Nat] /\ exitLive \subseteq Entries
    BY DEF IInv, TypeOK
  <2> QED BY <1>1, <1>3, <2>1, ApplyStopMoves, FinishKeeps DEF NoStop
<1> QED BY <1>2, <1>3

LEMMA StopTimesOutKeeps ==
  ASSUME IInv, StopTimesOut
  PROVE  IInv'
BY LostAnswerKeeps DEF StopTimesOut

LEMMA StopErrorsKeeps ==
  ASSUME IInv, StopErrors
  PROVE  IInv'
BY LostAnswerKeeps DEF StopErrors

LEMMA StopAppliedKeeps ==
  ASSUME IInv, StopApplied
  PROVE  IInv'
<1> USE DEF StopApplied, entryVars, recordVars, HasRow
<1>1. /\ UNCHANGED <<holder, exitLive, exitSent, best>>
      /\ nativeStop' \in Nat /\ nativeStop' > 0 /\ nativeStop' = current.stop
      /\ stray \subseteq stray' /\ stray' \subseteq Entries
      /\ holder \notin stray' => ~Tightens(terms[holder], nativeStop, nativeStop')
  BY ApplyStopMoves
<1>2. TypeOK'
  BY <1>1 DEF IInv, TypeOK, ProtectorPc
<1>3. KnownHasFilled'
  BY <1>1 DEF IInv, KnownHasFilled
<1>4. EventInHand' /\ ReadInHand'
  BY DEF IInv, EventInHand, ReadInHand, Working, Updating, Exiting
<1>5. SnapshotIsReal' /\ OtherOwnersAreGone'
  BY <1>1 DEF IInv, SnapshotIsReal, SnapshotOf, OtherOwnersAreGone
<1>6. StopsArePositive' /\ UnprotectedIsUnknown' /\ ReadIsCurrent'
  BY <1>1 DEF IInv, StopsArePositive, UnprotectedIsUnknown, ReadIsCurrent, NoStop
<1>7. PeakIsConsistent' /\ NothingObserved' /\ PeakIsKept' /\ RowIsPure'
  BY <1>1 DEF IInv, PeakIsConsistent, NothingObserved, PeakIsKept, RowIsPure
<1>8. ExitBudget' /\ RequestedStopIsSound'
  BY <1>1 DEF IInv, ExitBudget, ExitOnItsWay, ExitBegun, Exiting, RequestedStopIsSound
<1>9. ConfirmedStopIsNative'
  <2> SUFFICES ASSUME NEW e \in Entries, holder = e, HasRow(e), e \notin stray'
               PROVE  ~Tightens(terms[e], rows[e].stop, nativeStop')
    BY <1>1 DEF ConfirmedStopIsNative
  <2>1. e # NoEntry /\ nativeStop # NoStop
    BY ProtectorAssumption DEF IInv, UnprotectedIsUnknown
  <2>2. /\ ~Tightens(terms[e], rows[e].stop, nativeStop)
        /\ ~Tightens(terms[e], nativeStop, nativeStop')
    BY <1>1, <2>1 DEF IInv, ConfirmedStopIsNative
  <2>3. terms[e] \in Position /\ rows[e].stop \in Int /\ nativeStop \in Int
    BY PositionsAreReal DEF IInv, TypeOK
  <2> QED BY <1>1, <2>2, <2>3, TightensIsAnOrder
<1> QED BY <1>2, <1>3, <1>4, <1>5, <1>6, <1>7, <1>8, <1>9 DEF IInv

\* The close request goes out, and with it the entry's only chance.
LEMMA SendExitKeeps ==
  ASSUME IInv, SendExit, exitLive' \subseteq Entries,
         NEW s \in {"CONFIRMED", "UNKNOWN", "FAILED"}, FinishEvent(s)
  PROVE  IInv'
<1>1. pc \in Working /\ pc \in Exiting
  BY DEF SendExit, Working, Exiting
<1>2. current.stop = NoStop /\ current.entry \in Entries /\ ExitOnItsWay(current.entry)
  BY <1>1 DEF IInv, EventInHand, Pending, ExitOnItsWay
<1>3. /\ nativeStop \in Nat /\ nativeStop \in Int /\ stray \subseteq Entries
      /\ exitSent \in [Entries -> Nat] /\ exitSent[current.entry] = 0
  BY <1>2 DEF IInv, TypeOK, StopsArePositive, ExitBudget
<1>4. holder # NoEntry => ~Tightens(terms[holder], nativeStop, nativeStop)
  BY <1>3, PositionsAreReal, TightensIsAnOrder DEF IInv, TypeOK
<1>5. /\ exitSent' \in [Entries -> Nat]
      /\ \A e \in Entries : exitSent'[e] = IF ExitOnItsWay(e) /\ exitSent'[e] # exitSent[e]
                                           THEN 1 ELSE exitSent[e]
  BY <1>2, <1>3 DEF SendExit
<1>6. UNCHANGED <<entryVars, holder, best>> /\ UNCHANGED <<nativeStop, stray>>
  BY DEF SendExit
<1> QED BY <1>1, <1>2, <1>3, <1>4, <1>5, <1>6, FinishKeeps

LEMMA ExitAcceptedKeeps ==
  ASSUME IInv, ExitAccepted
  PROVE  IInv'
<1>1. exitLive' \subseteq Entries
  <2>1. pc \in Working
    BY DEF ExitAccepted, SendExit, Working, Exiting
  <2>2. current.entry \in Entries
    BY <2>1 DEF IInv, EventInHand, Pending
  <2> QED BY <2>2 DEF ExitAccepted, IInv, TypeOK
<1> QED BY <1>1, SendExitKeeps DEF ExitAccepted

LEMMA ExitUnansweredKeeps ==
  ASSUME IInv, ExitUnanswered
  PROVE  IInv'
<1>1. exitLive' \subseteq Entries
  <2>1. pc \in Working
    BY DEF ExitUnanswered, SendExit, Working, Exiting
  <2>2. current.entry \in Entries
    BY <2>1 DEF IInv, EventInHand, Pending
  <2> QED BY <2>2 DEF ExitUnanswered, IInv, TypeOK
<1> QED BY <1>1, SendExitKeeps DEF ExitUnanswered

(***************************************************************************)
(* The end of a sync                                                       *)
(***************************************************************************)

\* A row of an earlier position is closed; what it tells stays.
LEMMA RowClosed ==
  ASSUME NEW r \in RowSet
  PROVE  LET q == [r EXCEPT !.active = FALSE]
         IN  /\ q \in RowSet /\ q.mfe = r.mfe /\ q.peak = r.peak /\ q.risk = r.risk
             /\ q.stop = r.stop
<1> DEFINE q == [r EXCEPT !.active = FALSE]
<1>1. q.mfe = r.mfe /\ q.peak = r.peak /\ q.risk = r.risk /\ q.stop = r.stop
  BY Zenon DEF RowSet
<1>2. q \in RowSet
  BY Zenon DEF RowSet
<1> QED BY <1>1, <1>2

LEMMA RowsAfterNothing ==
  ASSUME TypeOK, MarkAbsentClosed
  PROVE  /\ rows' \in [Entries -> {NoRow} \cup RowSet]
         /\ \A e \in Entries : SameProfit(e) /\ rows'[e].stop = rows[e].stop
<1>1. rows \in [Entries -> {NoRow} \cup RowSet]
  BY DEF TypeOK, RowSet
<1> DEFINE w(e) == IF rows[e].active THEN [rows[e] EXCEPT !.active = FALSE] ELSE rows[e]
<1>2. ASSUME NEW e \in Entries
      PROVE  /\ w(e) \in {NoRow} \cup RowSet
             /\ w(e) # NoRow <=> rows[e] # NoRow
             /\ w(e).mfe = rows[e].mfe /\ w(e).peak = rows[e].peak
             /\ w(e).risk = rows[e].risk /\ w(e).stop = rows[e].stop
  <2>1. CASE rows[e] = NoRow
    <3>1. ~NoRow.active
      BY DEF NoRow
    <3> QED BY <2>1, <3>1
  <2>2. CASE rows[e] \in RowSet
    <3> DEFINE q == [rows[e] EXCEPT !.active = FALSE]
    <3>1. /\ q \in RowSet /\ q.mfe = rows[e].mfe /\ q.peak = rows[e].peak
          /\ q.risk = rows[e].risk /\ q.stop = rows[e].stop
      BY <2>2, RowClosed
    <3>2. q # NoRow /\ rows[e] # NoRow
      BY <2>2, <3>1, ARowIsARow
    <3>3. w(e) = q \/ w(e) = rows[e]
      OBVIOUS
    <3> HIDE DEF w, q
    <3> QED BY <2>2, <3>1, <3>2, <3>3
  <2> QED BY <1>1, <2>1, <2>2
<1>3. rows' = [e \in Entries |-> w(e)]
  BY DEF MarkAbsentClosed
<1> HIDE DEF w
<1> QED BY <1>2, <1>3 DEF SameProfit, HasRow

LEMMA SyncFindsNothingKeeps ==
  ASSUME IInv, SyncFindsNothing
  PROVE  IInv'
<1> USE DEF SyncFindsNothing, exchangeVars, entryVars, historyVars, NoRead, NoSnapshot
<1>1. /\ rows' \in [Entries -> {NoRow} \cup RowSet]
      /\ \A e \in Entries : SameProfit(e) /\ rows'[e].stop = rows[e].stop
  BY RowsAfterNothing DEF IInv
<1>2. \A e \in Entries : HasRow(e)' <=> HasRow(e)
  BY <1>1 DEF SameProfit
<1>3. /\ \A v \in events' : v \in [entry : Entries, action : Action, stop : Int,
                                   status : EventStatus]
      /\ \A e \in Entries : ExitBegun(e) => ExitBegun(e)'
  <2> DEFINE S == {v \in events : /\ rows[v.entry].active
                                  /\ v.action = "EARLY_PROFIT_EXIT"
                                  /\ v.status \in Resolvable}
  <2>1. events' = {IF v \in S THEN [v EXCEPT !.status = "CONFIRMED"] ELSE v : v \in events}
    BY DEF MarkAbsentClosed
  <2>2. "CONFIRMED" \in EventStatus
    BY DEF EventStatus
  <2> HIDE DEF S
  <2> QED BY <2>1, <2>2, StatusWritten DEF IInv
<1>4. TypeOK'
  BY <1>1, <1>3 DEF IInv, TypeOK, RowSet, ProtectorPc, NoTerms, NoStop
<1>5. KnownHasFilled'
  BY <1>2 DEF IInv, KnownHasFilled
<1>6. EventInHand' /\ ReadInHand' /\ SnapshotIsReal'
  BY DEF IInv, EventInHand, ReadInHand, SnapshotIsReal, Working, Updating, Exiting
<1>7. OtherOwnersAreGone'
  BY DEF OtherOwnersAreGone
<1>8. StopsArePositive' /\ UnprotectedIsUnknown'
  BY <1>1, <1>2 DEF IInv, TypeOK, StopsArePositive, UnprotectedIsUnknown, NoStop
<1>9. ReadIsCurrent'
  BY DEF ReadIsCurrent
<1>10. PeakIsConsistent' /\ NothingObserved' /\ PeakIsKept'
  BY <1>1 DEF IInv, PeakIsConsistent, NothingObserved, PeakIsKept, SameProfit
<1>11. RowIsPure'
  BY <1>1, ProtectorAssumption DEF IInv, RowIsPure, SameProfit
<1>12. ExitBudget'
  BY <1>3 DEF IInv, ExitBudget, ExitOnItsWay, Exiting
<1>13. ConfirmedStopIsNative'
  BY <1>1, <1>2 DEF IInv, ConfirmedStopIsNative
<1>14. RequestedStopIsSound'
  BY DEF RequestedStopIsSound
<1> QED BY <1>4, <1>5, <1>6, <1>7, <1>8, <1>9, <1>10, <1>11, <1>12, <1>13, <1>14 DEF IInv

\* The row of the owner after a sync follows the live stop, tightening only; a first row
\* starts from it.  The other rows tell what they did.
LEMMA RowsAfterMatch ==
  ASSUME IInv, SyncMatches, NEW e \in Entries
  PROVE  LET o == seen.owner
             t == SnapshotOf(seen.holder, o)
         IN  /\ rows' \in [Entries -> {NoRow} \cup RowSet]
             /\ e # o \/ HasRow(e) => SameProfit(e)
             /\ e # o => rows'[e].stop = rows[e].stop
             /\ e = o /\ HasRow(e) => rows'[e].stop = Tighter(t, seen.stop, rows[e].stop)
             /\ e = o /\ ~HasRow(e) => rows'[e] = NewRow(seen.stop)
<1> DEFINE o == seen.owner
           t == SnapshotOf(seen.holder, o)
<1>1. /\ o \in Entries /\ seen.holder \in Entries /\ seen.stop \in Int
      /\ rows \in [Entries -> {NoRow} \cup RowSet]
  BY DEF SyncMatches, IInv, TypeOK, RowSet
<1>2. CASE HasRow(o)
  <2>1. ReconcileNativeStop(o, t, seen.stop)
    BY <1>2 DEF SyncMatches
  <2> DEFINE answered == {v \in events : /\ v.entry = o
                                         /\ v.stop = seen.stop
                                         /\ v.status \in Resolvable}
  <2>2. PICK s \in IF answered = {} THEN {rows[o].stage} ELSE {v.action : v \in answered} :
           rows' = [rows EXCEPT ![o].stop = Tighter(t, seen.stop, @), ![o].stage = s]
    BY <2>1 DEF ReconcileNativeStop
  <2>3. rows[o] \in RowSet
    BY <1>1, <1>2 DEF HasRow
  <2>4. s \in Stage
    BY <2>2, <2>3 DEF IInv, TypeOK, RowSet, Stage
  <2> DEFINE k == Tighter(t, seen.stop, rows[o].stop)
  <2>5. k \in Int
    BY <1>1, <2>3 DEF Tighter, RowSet
  <2> HIDE DEF t, answered
  <2>6. rows' = [rows EXCEPT ![o].stop = k, ![o].stage = s]
    BY <1>1, <2>2
  <2> HIDE DEF k, o
  <2>7. /\ rows' \in [Entries -> {NoRow} \cup RowSet]
        /\ SameProfit(e)
        /\ rows'[e].stop = IF e = o THEN k ELSE rows[e].stop
    BY <1>1, <2>3, <2>4, <2>5, <2>6, StopAndStageWritten
  <2> QED BY <1>2, <2>7 DEF k, o, t
<1>3. CASE ~HasRow(o)
  <2> DEFINE w(f) == IF f = o THEN NewRow(seen.stop)
                     ELSE IF rows[f].active THEN [rows[f] EXCEPT !.active = FALSE]
                     ELSE rows[f]
  <2>1. rows' = [f \in Entries |-> w(f)]
    BY <1>3 DEF SyncMatches, InsertRow
  <2>2. NewRow(seen.stop) \in RowSet
    BY <1>1 DEF NewRow, RowSet, Stage
  <2>3. ASSUME NEW f \in Entries, f # o
        PROVE  /\ w(f) \in {NoRow} \cup RowSet
               /\ w(f) # NoRow <=> rows[f] # NoRow
               /\ w(f).mfe = rows[f].mfe /\ w(f).peak = rows[f].peak
               /\ w(f).risk = rows[f].risk /\ w(f).stop = rows[f].stop
    <3>1. CASE rows[f] = NoRow
      <4>1. ~NoRow.active
        BY DEF NoRow
      <4> QED BY <2>3, <3>1, <4>1
    <3>2. CASE rows[f] \in RowSet
      <4> DEFINE q == [rows[f] EXCEPT !.active = FALSE]
      <4>1. /\ q \in RowSet /\ q.mfe = rows[f].mfe /\ q.peak = rows[f].peak
            /\ q.risk = rows[f].risk /\ q.stop = rows[f].stop
        BY <3>2, RowClosed
      <4>2. q # NoRow /\ rows[f] # NoRow
        BY <3>2, <4>1, ARowIsARow
      <4>3. w(f) = q \/ w(f) = rows[f]
        BY <2>3
      <4> HIDE DEF w, q
      <4> QED BY <3>2, <4>1, <4>2, <4>3
    <3> QED BY <1>1, <3>1, <3>2
  <2>4. w(o) = NewRow(seen.stop)
    OBVIOUS
  <2> HIDE DEF w
  <2>5. rows' \in [Entries -> {NoRow} \cup RowSet]
    BY <2>1, <2>2, <2>3, <2>4
  <2>6. e # o => SameProfit(e) /\ rows'[e].stop = rows[e].stop
    BY <2>1, <2>3 DEF SameProfit, HasRow
  <2> QED BY <1>1, <1>3, <2>1, <2>4, <2>5, <2>6
<1> QED BY <1>2, <1>3

LEMMA EventsAfterMatch ==
  ASSUME IInv, SyncMatches
  PROVE  /\ \A v \in events' : v \in [entry : Entries, action : Action, stop : Int,
                                      status : EventStatus]
         /\ \A e \in Entries : ExitBegun(e) => ExitBegun(e)'
<1> DEFINE o == seen.owner
<1>1. CASE HasRow(o)
  <2> DEFINE S == {v \in events : /\ v.entry = o
                                  /\ v.stop = seen.stop
                                  /\ v.status \in Resolvable}
  <2>1. events' = {IF v \in S THEN [v EXCEPT !.status = "CONFIRMED"] ELSE v : v \in events}
    BY <1>1 DEF SyncMatches, ReconcileNativeStop
  <2>2. "CONFIRMED" \in EventStatus
    BY DEF EventStatus
  <2> HIDE DEF S
  <2> QED BY <2>1, <2>2, StatusWritten DEF IInv
<1>2. CASE ~HasRow(o)
  <2> DEFINE S == {v \in events : v.entry # o /\ rows[v.entry].active
                                  /\ v.status \in Resolvable}
  <2>1. events' = {IF v \in S THEN [v EXCEPT !.status = "SUPERSEDED"] ELSE v : v \in events}
    BY <1>2 DEF SyncMatches, InsertRow
  <2>2. "SUPERSEDED" \in EventStatus
    BY DEF EventStatus
  <2> HIDE DEF S
  <2> QED BY <2>1, <2>2, StatusWritten DEF IInv
<1> QED BY <1>1, <1>2

LEMMA SyncMatchesKeeps ==
  ASSUME IInv, SyncMatches
  PROVE  IInv'
<1> DEFINE h == seen.holder
           o == seen.owner
           t == SnapshotOf(h, o)
<1> USE DEF exchangeVars, entryVars, historyVars
<1>1. /\ pc = "SYNC" /\ pc' = "IDLE" /\ seen' = NoRead /\ current' = current
      /\ current = NoEvent
      /\ h \in Entries /\ o \in Entries /\ h # NoEntry /\ o # NoEntry
      /\ seen.stop \in Int /\ seen.stop > 0
      /\ snapshot' = [entry |-> o, terms |-> t, of |-> h]
      /\ h \in filled /\ o \in filled
  BY ProtectorAssumption DEF SyncMatches, IInv, TypeOK, EventInHand, StopsArePositive,
                             KnownHasFilled, NoStop
<1>2. UNCHANGED <<terms, holder, nativeStop, filled, owner, exitLive, exitSent, best, stray>>
  BY DEF SyncMatches
<1>3. \A e \in Entries :
         /\ e # o \/ HasRow(e) => SameProfit(e)
         /\ e # o => rows'[e].stop = rows[e].stop
         /\ e = o /\ HasRow(e) => rows'[e].stop = Tighter(t, seen.stop, rows[e].stop)
         /\ e = o /\ ~HasRow(e) => rows'[e] = NewRow(seen.stop)
  BY RowsAfterMatch
<1>4. rows' \in [Entries -> {NoRow} \cup RowSet]
  BY <1>1, RowsAfterMatch
<1>5. /\ \A v \in events' : v \in [entry : Entries, action : Action, stop : Int,
                                   status : EventStatus]
      /\ \A e \in Entries : ExitBegun(e) => ExitBegun(e)'
  BY EventsAfterMatch
<1>6. t.side \in {"Buy", "Sell"}
  BY <1>1, PositionsAreReal DEF IInv, SnapshotOf, Position
<1>7. \A e \in Entries : rows[e] \in {NoRow} \cup RowSet
  BY DEF IInv, TypeOK, RowSet
<1>8. /\ NewRow(seen.stop).stop = seen.stop /\ NewRow(seen.stop).mfe = 0
      /\ NewRow(seen.stop).peak = 0 /\ NewRow(seen.stop).risk = 1
  BY DEF NewRow
<1>9. TypeOK'
  BY <1>1, <1>2, <1>4, <1>5, <1>6 DEF IInv, TypeOK, RowSet, ProtectorPc, NoRead, NoStop
<1>10. KnownHasFilled'
  <2>1. \A e \in Entries : HasRow(e)' => e = o \/ HasRow(e)
    BY <1>3 DEF SameProfit
  <2> QED BY <1>1, <1>2, <2>1 DEF IInv, KnownHasFilled, NoRead
<1>11. EventInHand' /\ ReadInHand'
  BY <1>1 DEF EventInHand, ReadInHand, Working, Updating, Exiting, NoRead
<1>12. SnapshotIsReal'
  BY <1>1, <1>2 DEF SnapshotIsReal, SnapshotOf
<1>13. OtherOwnersAreGone'
  BY <1>1, <1>2 DEF IInv, OtherOwnersAreGone, NoRead
<1>14. StopsArePositive'
  <2> SUFFICES ASSUME NEW e \in Entries, HasRow(e)'
               PROVE  rows'[e].stop > 0
    BY <1>1, <1>2 DEF IInv, StopsArePositive, NoRead, NoStop
  <2>1. HasRow(e) => rows[e].stop > 0
    BY DEF IInv, StopsArePositive
  <2>2. CASE e # o
    BY <1>3, <2>1, <2>2 DEF SameProfit
  <2>3. CASE e = o /\ HasRow(e)
    <3>1. rows'[e].stop = seen.stop \/ rows'[e].stop = rows[e].stop
      BY <1>3, <2>3 DEF Tighter
    <3> QED BY <1>1, <2>1, <2>3, <3>1
  <2>4. CASE e = o /\ ~HasRow(e)
    BY <1>1, <1>3, <1>8, <2>4
  <2> QED BY <2>2, <2>3, <2>4
<1>15. UnprotectedIsUnknown'
  BY <1>1, <1>2, <1>3 DEF IInv, TypeOK, UnprotectedIsUnknown, SameProfit, NoRead
<1>16. ReadIsCurrent'
  BY <1>1 DEF ReadIsCurrent
<1>17. PeakIsConsistent' /\ NothingObserved' /\ PeakIsKept'
  <2> SUFFICES ASSUME NEW e \in Entries
               PROVE  /\ HasRow(e)' => /\ rows'[e].mfe = rows'[e].peak
                                       /\ rows'[e].peak = 0 => rows'[e].risk = 1
                      /\ ~HasRow(e)' => best[e] = 0
                      /\ HasRow(e)' => rows'[e].mfe >= best[e]
    BY <1>2 DEF PeakIsConsistent, NothingObserved, PeakIsKept
  <2>1. CASE e # o \/ HasRow(e)
    BY <1>3, <2>1 DEF IInv, PeakIsConsistent, NothingObserved, PeakIsKept, SameProfit
  <2>2. CASE e = o /\ ~HasRow(e)
    <3>1. best[e] = 0
      BY <2>2 DEF IInv, NothingObserved
    <3> QED BY <1>3, <1>8, <2>2, <3>1
  <2> QED BY <2>1, <2>2
<1>18. RowIsPure'
  <2> SUFFICES ASSUME NEW e \in Entries, HasRow(e)', holder = e \/ h = e
               PROVE  rows'[e].peak = 0 \/ rows'[e].risk = InitialRisk(terms[e])
    BY <1>1, <1>2, ProtectorAssumption DEF RowIsPure, NoRead
  <2>1. CASE e # o \/ HasRow(e)
    <3>1. SameProfit(e)
      BY <1>3, <2>1
    <3>2. HasRow(e) => rows[e].peak = 0 \/ rows[e].risk = InitialRisk(terms[e])
      BY DEF IInv, RowIsPure
    <3> QED BY <3>1, <3>2 DEF SameProfit
  <2>2. CASE e = o /\ ~HasRow(e)
    BY <1>3, <1>8, <2>2
  <2> QED BY <2>1, <2>2
<1>19. ExitBudget'
  BY <1>1, <1>2, <1>5 DEF IInv, ExitBudget, ExitOnItsWay, Exiting
<1>20. ConfirmedStopIsNative'
  <2> SUFFICES ASSUME NEW e \in Entries, holder = e, HasRow(e)', e \notin stray,
                      nativeStop # NoStop
               PROVE  ~Tightens(terms[e], rows'[e].stop, nativeStop)
    BY <1>2 DEF ConfirmedStopIsNative
  <2>1. e # NoEntry
    BY ProtectorAssumption
  <2>2. HasRow(e) => ~Tightens(terms[e], rows[e].stop, nativeStop)
    BY DEF IInv, ConfirmedStopIsNative
  <2>3. CASE e # o
    BY <1>3, <2>2, <2>3 DEF SameProfit
  <2>4. CASE e = o
    <3>1. h = e
      BY <2>1, <2>4 DEF IInv, OtherOwnersAreGone
    <3>2. nativeStop = seen.stop
      BY <1>1, <2>1, <3>1 DEF IInv, ReadIsCurrent, NoStop
    <3>3. terms[e] \in Position
      BY PositionsAreReal DEF IInv
    <3>4. ~Tightens(terms[e], nativeStop, nativeStop)
      BY <1>1, <3>2, <3>3, TightensIsAnOrder
    <3>5. rows'[e].stop = nativeStop \/ (HasRow(e) /\ rows'[e].stop = rows[e].stop)
      BY <1>3, <1>8, <2>4, <3>2 DEF Tighter
    <3> QED BY <2>2, <3>4, <3>5
  <2> QED BY <2>3, <2>4
<1>21. RequestedStopIsSound'
  BY <1>1 DEF RequestedStopIsSound
<1> QED BY <1>9, <1>10, <1>11, <1>12, <1>13, <1>14, <1>15, <1>16, <1>17, <1>18, <1>19,
           <1>20, <1>21 DEF IInv

(***************************************************************************)
(* A ticker                                                                *)
(***************************************************************************)

LEMMA SnapshotIsAPosition ==
  ASSUME IInv, NEW h \in Entries, NEW e \in Entries
  PROVE  SnapshotOf(h, e) \in Position
<1>1. terms[h] \in Position /\ terms[e] \in Position
  BY PositionsAreReal DEF IInv
<1> DEFINE r == [terms[h] EXCEPT !.stop = terms[e].stop]
           q == [r EXCEPT !.fee = terms[e].fee]
<1>2. terms[e].stop \in Nat \ {0} /\ terms[e].fee \in Nat
  BY <1>1 DEF Position
<1>3. SnapshotOf(h, e) = q
  BY <1>1 DEF SnapshotOf, Position
<1>4. r \in Position
  BY <1>1, <1>2 DEF Position
<1> HIDE DEF r
<1>5. q \in Position
  BY <1>2, <1>4 DEF Position
<1> QED BY <1>3, <1>5

LEMMA OwnSnapshot ==
  ASSUME IInv, NEW e \in Entries
  PROVE  SnapshotOf(e, e) = terms[e]
<1>1. terms[e] \in Position
  BY PositionsAreReal DEF IInv
<1> DEFINE x == terms[e]
<1> HIDE DEF x
<1>2. x \in Position => [x EXCEPT !.stop = x.stop, !.fee = x.fee] = x
  BY DEF Position
<1> QED BY <1>1, <1>2 DEF SnapshotOf, x

\* observe writes the three figures of the peak together, or nothing.
LEMMA RowsAfterObserve ==
  ASSUME IInv, NEW e \in Entries, HasRow(e), NEW profit \in Int, NEW risk \in Nat,
         Observe(e, profit, risk), NEW peak, peak = Larger(rows[e].mfe, profit)
  PROVE  /\ rows' \in [Entries -> {NoRow} \cup RowSet]
         /\ \A f \in Entries : f # e => rows'[f] = rows[f]
         /\ rows'[e] # NoRow /\ rows'[e].stop = rows[e].stop
         /\ peak \in Nat
         /\ \/ /\ rows' = rows
               /\ peak * rows[e].risk <= rows[e].peak * risk
            \/ /\ rows'[e].mfe = peak /\ rows'[e].peak = peak /\ rows'[e].risk = risk
               /\ peak * rows[e].risk > rows[e].peak * risk
<1> DEFINE ratio == peak * rows[e].risk
           stored == rows[e].peak * risk
<1>1. rows \in [Entries -> {NoRow} \cup RowSet] /\ rows[e] \in RowSet
  BY DEF IInv, TypeOK, HasRow, RowSet
<1>2. /\ rows[e].mfe \in Nat /\ rows[e].peak \in Nat /\ rows[e].risk \in Nat
      /\ rows[e].stop \in Int
  BY <1>1 DEF RowSet
<1>3. peak \in Nat
  BY <1>2 DEF Larger
<1>4. ratio \in Int /\ stored \in Int
  BY <1>2, <1>3
<1>5. rows' = IF ratio > stored
              THEN [rows EXCEPT ![e].mfe = peak, ![e].peak = peak, ![e].risk = risk]
              ELSE rows
  BY DEF Observe
<1> HIDE DEF ratio, stored
<1>6. CASE ratio > stored
  <2> DEFINE a == [rows[e] EXCEPT !.mfe = peak]
             b == [a EXCEPT !.peak = peak]
             c == [b EXCEPT !.risk = risk]
  <2>1. rows' = [rows EXCEPT ![e] = c]
    BY <1>1, <1>5, <1>6 DEF RowSet
  <2>2. a \in RowSet /\ a.stop = rows[e].stop /\ a.mfe = peak
    BY <1>1, <1>3 DEF RowSet
  <2> HIDE DEF a
  <2>3. b \in RowSet /\ b.stop = a.stop /\ b.mfe = a.mfe /\ b.peak = peak
    BY <2>2, <1>3 DEF RowSet
  <2> HIDE DEF b
  <2>4. c \in RowSet /\ c.stop = b.stop /\ c.mfe = b.mfe /\ c.peak = b.peak /\ c.risk = risk
    BY <2>3 DEF RowSet
  <2> HIDE DEF c
  <2>5. rows'[e] = c /\ c # NoRow /\ (\A f \in Entries : f # e => rows'[f] = rows[f])
        /\ rows' \in [Entries -> {NoRow} \cup RowSet]
    BY <1>1, <2>1, <2>4, ARowIsARow
  <2> QED BY <1>3, <1>6, <2>2, <2>3, <2>4, <2>5 DEF HasRow, ratio, stored
<1>7. CASE ~(ratio > stored)
  <2>1. rows' = rows /\ ratio <= stored
    BY <1>4, <1>5, <1>7
  <2> QED BY <1>1, <1>3, <2>1 DEF HasRow, ratio, stored
<1> QED BY <1>6, <1>7

\* Fed by its own position alone, a row has the highest profit that was shown.
LEMMA OwnPeakIsKept ==
  ASSUME NEW peak \in Nat, NEW stored \in Nat, NEW risk \in Nat, NEW rowRisk \in Nat,
         risk > 0, stored = 0 => rowRisk = 1, stored = 0 \/ rowRisk = risk,
         peak * rowRisk <= stored * risk
  PROVE  peak <= stored
<1>1. CASE stored = 0
  BY <1>1
<1>2. CASE stored # 0
  <2> SUFFICES ASSUME peak > stored PROVE FALSE
    OBVIOUS
  <2>1. (peak - stored) * risk > 0
    BY ProductPositive
  <2>2. (peak - stored) * risk = peak * risk - stored * risk
    OBVIOUS
  <2>3. peak * risk <= stored * risk
    BY <1>2
  <2> QED BY <2>1, <2>2, <2>3
<1> QED BY <1>1, <1>2

\* What a decision asks for is sound for the row it was computed from.
LEMMA PromiseIsDesired ==
  ASSUME NEW t \in Position, NEW v, NEW price \in Int, v.price = price,
         NEW peak \in Int, NEW m \in Int, m <= peak
  PROVE  Promise(v, t, m) <= Desired(v.action, t, NetPnl(t, price), peak)
<1>1. NetPnl(t, price) \in Int /\ InitialRisk(t) \in Nat
  BY Amounts
<1> DEFINE n == NetPnl(t, price)
           r == InitialRisk(t)
<1>2. Promise(v, t, m) = CASE v.action = "BREAK_EVEN"         -> 0
                           [] v.action = "MFE_PROFIT_PROTECT" -> Smaller(15 * n, 10 * m)
                           [] OTHER                           -> 6 * r
  BY DEF Promise
<1>3. Desired(v.action, t, n, peak)
         = CASE v.action = "BREAK_EVEN"         -> 0
             [] v.action = "MFE_PROFIT_PROTECT" -> Smaller(15 * n, 10 * peak)
             [] OTHER                           -> 6 * r
  BY DEF Desired
<1>4. n \in Int /\ r \in Nat
  BY <1>1
<1> HIDE DEF n, r
<1>5. Smaller(15 * n, 10 * m) <= Smaller(15 * n, 10 * peak)
  BY <1>4 DEF Smaller
<1>6. CASE v.action = "BREAK_EVEN"
  BY <1>2, <1>3, <1>6 DEF n
<1>7. CASE v.action = "MFE_PROFIT_PROTECT"
  BY <1>2, <1>3, <1>5, <1>7 DEF n
<1>8. CASE v.action \notin {"BREAK_EVEN", "MFE_PROFIT_PROTECT"}
  <2>1. Promise(v, t, m) = 6 * r /\ Desired(v.action, t, n, peak) = 6 * r
    BY <1>2, <1>3, <1>8
  <2> QED BY <1>4, <2>1 DEF n
<1> QED BY <1>6, <1>7, <1>8

\* What a ticker begins: nothing, or an event that the entry has not had, of a kind that
\* the next step works on.
LEMMA TickerBegins ==
  ASSUME IInv, NEW price \in Prices, NEW atr \in Atrs, NEW reversal \in BOOLEAN,
         OnTicker(price, atr, reversal)
  PROVE  LET e == snapshot.entry
             t == snapshot.terms
         IN  \/ UNCHANGED <<events, pc, current>>
             \/ /\ current' \in Pending /\ current'.entry = e /\ current'.price = price
                /\ events' = events \cup {[entry |-> e, action |-> current'.action,
                                           stop |-> current'.stop, status |-> "PENDING"]}
                /\ ~AlreadyBegun(e, current')
                /\ \/ /\ pc' = "WATCH" /\ current'.stop = NoStop
                   \/ /\ pc' = "EXIT" /\ current'.stop = NoStop
                      /\ current'.action = "EARLY_PROFIT_EXIT"
                   \/ /\ pc' = "UPDATE" /\ current'.action \in StopActions
                      /\ SoundStop(t, price, rows[e].stop, current'.action, current'.stop,
                                   Larger(rows[e].mfe, NetPnl(t, price)))
<1> DEFINE e == snapshot.entry
           t == snapshot.terms
           d == Evaluate(t, price, rows[e].stop, rows[e].mfe, rows[e].stage, atr, reversal)
<1>1. /\ e \in Entries /\ snapshot.of \in Entries /\ t = SnapshotOf(snapshot.of, e)
      /\ HasRow(e)
  BY DEF OnTicker, IInv, SnapshotIsReal, NoSnapshot
<1>2. t \in Position
  BY <1>1, SnapshotIsAPosition
<1>3. price \in Nat \ {0} /\ atr \in Nat
  BY ProtectorAssumption
<1>4. rows[e].stop \in Nat \ {0} /\ rows[e].mfe \in Nat
  <2>1. rows[e] \in RowSet
    BY <1>1 DEF IInv, TypeOK, RowSet, HasRow
  <2>2. rows[e].stop \in Int /\ rows[e].mfe \in Nat
    BY <2>1 DEF RowSet
  <2>3. rows[e].stop > 0
    BY <1>1 DEF IInv, StopsArePositive
  <2> QED BY <2>2, <2>3
<1>5. \/ d = [action |-> "EARLY_PROFIT_EXIT", stop |-> NoStop]
      \/ d = [action |-> "PROFIT_WATCH", stop |-> NoStop]
      \/ d = NoDecision
      \/ /\ d.action \in StopActions
         /\ SoundStop(t, price, rows[e].stop, d.action, d.stop,
                      Larger(rows[e].mfe, NetPnl(t, price)))
  BY <1>2, <1>3, <1>4, DecisionIsSound
<1>6. \/ UNCHANGED <<events, pc, current>>
      \/ /\ d.action # "NONE" /\ ~AlreadyBegun(e, d)
         /\ events' = events \cup {[entry |-> e, action |-> d.action, stop |-> d.stop,
                                    status |-> "PENDING"]}
         /\ pc' = FirstStep[d.action]
         /\ current' = [entry |-> e, action |-> d.action, stop |-> d.stop,
                        price |-> price]
  BY DEF OnTicker
<1> HIDE DEF d, e, t
<1>7. SUFFICES ASSUME /\ d.action # "NONE" /\ ~AlreadyBegun(e, d)
                      /\ events' = events \cup {[entry |-> e, action |-> d.action,
                                                 stop |-> d.stop, status |-> "PENDING"]}
                      /\ pc' = FirstStep[d.action]
                      /\ current' = [entry |-> e, action |-> d.action, stop |-> d.stop,
                                     price |-> price]
               PROVE  /\ current' \in Pending /\ current'.entry = e /\ current'.price = price
                      /\ events' = events \cup {[entry |-> e, action |-> current'.action,
                                                 stop |-> current'.stop, status |-> "PENDING"]}
                      /\ ~AlreadyBegun(e, current')
                      /\ \/ /\ pc' = "WATCH" /\ current'.stop = NoStop
                         \/ /\ pc' = "EXIT" /\ current'.stop = NoStop
                            /\ current'.action = "EARLY_PROFIT_EXIT"
                         \/ /\ pc' = "UPDATE" /\ current'.action \in StopActions
                            /\ SoundStop(t, price, rows[e].stop, current'.action,
                                         current'.stop, Larger(rows[e].mfe, NetPnl(t, price)))
  BY <1>6 DEF e, t
<1>8. /\ current'.entry = e /\ current'.price = price /\ current'.action = d.action
      /\ current'.stop = d.stop
  BY <1>7
<1>9. ~AlreadyBegun(e, current')
  BY <1>7, <1>8 DEF AlreadyBegun
<1>10. d.action \in Action /\ d.stop \in Int
  BY <1>5, <1>7 DEF Action, NoDecision, SoundStop, NoStop
<1>11. current' \in Pending
  BY <1>1, <1>7, <1>10 DEF Pending, e
<1>12. /\ FirstStep["PROFIT_WATCH"] = "WATCH" /\ FirstStep["EARLY_PROFIT_EXIT"] = "EXIT"
       /\ \A a \in StopActions : FirstStep[a] = "UPDATE"
  BY DEF FirstStep, Action, StopActions
<1>13. CASE d = [action |-> "EARLY_PROFIT_EXIT", stop |-> NoStop]
  BY <1>7, <1>8, <1>9, <1>11, <1>12, <1>13
<1>14. CASE d = [action |-> "PROFIT_WATCH", stop |-> NoStop]
  BY <1>7, <1>8, <1>9, <1>11, <1>12, <1>14
<1>15. ASSUME d.action \in StopActions,
              SoundStop(t, price, rows[e].stop, d.action, d.stop,
                        Larger(rows[e].mfe, NetPnl(t, price)))
       PROVE  /\ pc' = "UPDATE" /\ current'.action \in StopActions
              /\ SoundStop(t, price, rows[e].stop, current'.action, current'.stop,
                           Larger(rows[e].mfe, NetPnl(t, price)))
  BY <1>7, <1>8, <1>12, <1>15
<1> QED BY <1>5, <1>7, <1>8, <1>9, <1>11, <1>13, <1>14, <1>15 DEF NoDecision

LEMMA OnTickerKeeps ==
  ASSUME IInv, NEW price \in Prices, NEW atr \in Atrs, NEW reversal \in BOOLEAN,
         OnTicker(price, atr, reversal)
  PROVE  IInv'
<1> DEFINE e == snapshot.entry
           t == snapshot.terms
           profit == NetPnl(t, price)
           risk == InitialRisk(t)
           peak == Larger(rows[e].mfe, profit)
<1> USE DEF exchangeVars, entryVars
<1>1. /\ e \in Entries /\ snapshot.of \in Entries /\ t = SnapshotOf(snapshot.of, e)
      /\ HasRow(e) /\ e # NoEntry /\ e \in filled
  BY ProtectorAssumption DEF OnTicker, IInv, SnapshotIsReal, NoSnapshot, KnownHasFilled
<1>2. t \in Position /\ price \in Int
  BY <1>1, SnapshotIsAPosition, ProtectorAssumption
<1>3. profit \in Int /\ risk \in Nat
  BY <1>2, Amounts
<1>4. /\ pc = "IDLE" /\ seen = NoRead /\ current = NoEvent
      /\ UNCHANGED <<snapshot, seen, exitSent, stray, exchangeVars, entryVars>>
      /\ Observe(e, profit, risk)
      /\ best' = IF snapshot.of = e THEN [best EXCEPT ![e] = Larger(@, profit)] ELSE best
  BY DEF OnTicker, IInv, ReadInHand, EventInHand
<1>5. rows[e] \in RowSet /\ \A f \in Entries : rows[f] \in {NoRow} \cup RowSet
  BY <1>1 DEF IInv, TypeOK, RowSet, HasRow
<1>6. /\ rows' \in [Entries -> {NoRow} \cup RowSet]
      /\ \A f \in Entries : f # e => rows'[f] = rows[f]
      /\ rows'[e] # NoRow /\ rows'[e].stop = rows[e].stop
      /\ peak \in Nat
      /\ \/ /\ rows' = rows
            /\ peak * rows[e].risk <= rows[e].peak * risk
         \/ /\ rows'[e].mfe = peak /\ rows'[e].peak = peak /\ rows'[e].risk = risk
            /\ peak * rows[e].risk > rows[e].peak * risk
  <2>1. peak = Larger(rows[e].mfe, profit)
    OBVIOUS
  <2> HIDE DEF e, profit, risk, peak
  <2> QED BY <1>1, <1>3, <1>4, <2>1, RowsAfterObserve
<1>7. \A f \in Entries : HasRow(f)' <=> HasRow(f)
  BY <1>1, <1>6 DEF HasRow
<1>8. /\ rows[e].mfe \in Nat /\ rows[e].peak \in Nat /\ rows[e].risk \in Nat
      /\ rows[e].mfe = rows[e].peak /\ rows[e].mfe >= best[e] /\ best[e] \in Nat
      /\ rows[e].peak = 0 => rows[e].risk = 1
  BY <1>1, <1>5 DEF RowSet, IInv, TypeOK, PeakIsConsistent, PeakIsKept
<1>9. peak >= profit /\ peak >= rows[e].mfe /\ (peak = profit \/ peak = rows[e].mfe)
  <2> HIDE DEF profit
  <2> QED BY <1>3, <1>8 DEF Larger
<1> DEFINE Nothing == UNCHANGED <<events, pc, current>>
           Begins == /\ current' \in Pending /\ current'.entry = e /\ current'.price = price
                     /\ events' = events \cup {[entry |-> e, action |-> current'.action,
                                                stop |-> current'.stop, status |-> "PENDING"]}
                     /\ ~AlreadyBegun(e, current')
                     /\ \/ /\ pc' = "WATCH" /\ current'.stop = NoStop
                        \/ /\ pc' = "EXIT" /\ current'.stop = NoStop
                           /\ current'.action = "EARLY_PROFIT_EXIT"
                        \/ /\ pc' = "UPDATE" /\ current'.action \in StopActions
                           /\ SoundStop(t, price, rows[e].stop, current'.action,
                                        current'.stop, peak)
<1>10. Nothing \/ Begins
  BY TickerBegins
<1> HIDE DEF e, t, profit, risk, peak
<1>11. TypeOK'
  <2>1. best' \in [Entries -> Nat]
    <3>1. Larger(best[e], profit) \in Nat
      BY <1>3, <1>8 DEF Larger
    <3> QED BY <1>1, <1>4, <3>1 DEF IInv, TypeOK
  <2>2. /\ terms' \in [Entries -> TermsChoices] /\ holder' \in Entries \cup {NoEntry}
        /\ nativeStop' \in Int
        /\ filled' \subseteq Entries /\ owner' \in Entries \cup {NoEntry}
        /\ snapshot'.entry \in Entries \cup {NoEntry}
        /\ snapshot'.terms.side \in {"Buy", "Sell", "None"}
        /\ snapshot'.of \in Entries \cup {NoEntry}
        /\ seen' \in [holder : Entries \cup {NoEntry}, stop : Int,
                      owner : Entries \cup {NoEntry}]
        /\ exitLive' \subseteq Entries /\ exitSent' \in [Entries -> Nat]
        /\ stray' \subseteq Entries
    BY <1>4 DEF IInv, TypeOK
  <2>3. \A v \in events' : v \in [entry : Entries, action : Action, stop : Int,
                                  status : EventStatus]
    <3>1. \A v \in events : v \in [entry : Entries, action : Action, stop : Int,
                                   status : EventStatus]
      BY DEF IInv, TypeOK
    <3>2. CASE Nothing
      BY <3>1, <3>2
    <3>3. CASE Begins
      <4>1. current'.action \in Action /\ current'.stop \in Int /\ "PENDING" \in EventStatus
        BY <3>3 DEF Pending, EventStatus
      <4> QED BY <1>1, <3>1, <3>3, <4>1
    <3> QED BY <1>10, <3>2, <3>3
  <2>4. pc' \in ProtectorPc /\ (current' = NoEvent \/ current' \in Pending)
    BY <1>4, <1>10 DEF ProtectorPc
  <2> QED BY <1>6, <2>1, <2>2, <2>3, <2>4 DEF TypeOK, RowSet, Pending
<1>12. KnownHasFilled'
  BY <1>4, <1>7 DEF IInv, KnownHasFilled
<1>13. EventInHand'
  <2>1. CASE Nothing
    BY <1>4, <2>1 DEF EventInHand, Working, Updating, Exiting
  <2>2. CASE Begins
    <3>1. pc' = "UPDATE" => current'.stop > 0
      BY <2>2 DEF SoundStop
    <3>2. current' \in Pending /\ HasRow(current.entry)'
      BY <1>6, <2>2 DEF HasRow
    <3>3. CASE pc' = "WATCH"
      BY <2>2, <3>2, <3>3 DEF EventInHand, Working, Updating, Exiting
    <3>4. CASE pc' = "EXIT"
      BY <2>2, <3>2, <3>4 DEF EventInHand, Working, Updating, Exiting
    <3>5. CASE pc' = "UPDATE"
      BY <2>2, <3>1, <3>2, <3>5 DEF EventInHand, Working, Updating, Exiting
    <3> QED BY <2>2, <3>3, <3>4, <3>5
  <2> QED BY <1>10, <2>1, <2>2
<1>14. ReadInHand'
  BY <1>4, <1>10 DEF ReadInHand, NoRead
<1>15. SnapshotIsReal' /\ OtherOwnersAreGone'
  BY <1>4 DEF IInv, SnapshotIsReal, SnapshotOf, OtherOwnersAreGone
<1>16. StopsArePositive' /\ UnprotectedIsUnknown'
  <2>1. \A f \in Entries : rows'[f].stop = rows[f].stop
    BY <1>6
  <2> QED BY <1>4, <1>7, <2>1 DEF IInv, TypeOK, StopsArePositive, UnprotectedIsUnknown
<1>17. ReadIsCurrent'
  BY <1>4, <1>10 DEF ReadIsCurrent, NoRead
<1>18. PeakIsConsistent'
  <2>1. CASE rows' = rows
    BY <2>1 DEF IInv, PeakIsConsistent, HasRow
  <2>2. ASSUME rows'[e].mfe = peak, rows'[e].peak = peak, rows'[e].risk = risk,
               peak * rows[e].risk > rows[e].peak * risk
        PROVE  PeakIsConsistent'
    <3>1. peak # 0
      <4> SUFFICES ASSUME peak = 0 PROVE FALSE
        OBVIOUS
      <4>1. rows[e].peak * risk >= 0 /\ rows[e].peak * risk \in Int
        BY <1>3, <1>8, ProductPositive
      <4> QED BY <1>8, <2>2, <4>1
    <3> QED BY <1>1, <1>6, <1>7, <2>2, <3>1 DEF IInv, PeakIsConsistent
  <2> QED BY <1>6, <2>1, <2>2
<1>19. RowIsPure'
  <2> SUFFICES ASSUME NEW f \in Entries, HasRow(f), holder = f \/ snapshot.of = f
               PROVE  rows'[f].peak = 0 \/ rows'[f].risk = InitialRisk(terms[f])
    BY <1>4, <1>7, ProtectorAssumption DEF RowIsPure, NoRead
  <2>1. rows[f].peak = 0 \/ rows[f].risk = InitialRisk(terms[f])
    BY DEF IInv, RowIsPure
  <2>2. CASE f # e
    BY <1>6, <2>1, <2>2
  <2>3. CASE f = e
    <3>1. snapshot.of = e
      BY <2>3 DEF IInv, OtherOwnersAreGone, e
    <3>2. risk = InitialRisk(terms[e])
      BY <1>1, <3>1, OwnSnapshot DEF risk
    <3> QED BY <1>6, <2>1, <2>3, <3>2
  <2> QED BY <2>2, <2>3
<1>20. NothingObserved'
  BY <1>1, <1>4, <1>7 DEF IInv, TypeOK, NothingObserved
<1>21. ExitBudget'
  <2> SUFFICES ASSUME NEW f \in Entries
               PROVE  /\ ExitOnItsWay(f)' => exitSent[f] = 0
                      /\ ExitOnItsWay(f)' \/ exitSent[f] = 1 => ExitBegun(f)'
    BY <1>4 DEF IInv, ExitBudget
  <2>1. exitSent[f] \in {0, 1} /\ (exitSent[f] = 1 => ExitBegun(f))
    BY DEF IInv, ExitBudget
  <2>2. CASE Nothing
    BY <1>4, <2>1, <2>2 DEF ExitOnItsWay, Exiting, ExitBegun
  <2>3. CASE Begins
    <3>1. ExitBegun(f) => ExitBegun(f)'
      BY <2>3 DEF ExitBegun
    <3>2. ExitOnItsWay(f)' => /\ f = e /\ current'.action = "EARLY_PROFIT_EXIT"
                              /\ current'.stop = NoStop
      BY <2>3 DEF ExitOnItsWay, Exiting
    <3>3. ExitOnItsWay(f)' => ~ExitBegun(f)
      BY <2>3, <3>2 DEF ExitBegun, AlreadyBegun
    <3>4. ExitOnItsWay(f)' => ExitBegun(f)'
      <4> DEFINE v == [entry |-> e, action |-> current'.action, stop |-> current'.stop,
                       status |-> "PENDING"]
      <4>1. v \in events' /\ v.entry = e /\ v.action = current'.action
            /\ v.stop = current'.stop
        BY <2>3
      <4> HIDE DEF v
      <4> QED BY <3>2, <4>1 DEF ExitBegun
    <3> QED BY <2>1, <3>1, <3>3, <3>4
  <2> QED BY <1>10, <2>2, <2>3
<1>22. PeakIsKept'
  <2> SUFFICES ASSUME NEW f \in Entries, HasRow(f)
               PROVE  rows'[f].mfe >= best'[f]
    BY <1>7 DEF PeakIsKept
  <2>1. CASE f # e
    <3>1. best'[f] = best[f]
      BY <1>4, <2>1 DEF IInv, TypeOK
    <3> QED BY <1>6, <2>1, <3>1 DEF IInv, PeakIsKept
  <2>2. CASE f = e /\ snapshot.of # e
    <3>1. rows'[e].mfe >= rows[e].mfe
      BY <1>6, <1>8, <1>9
    <3> QED BY <1>4, <1>6, <1>8, <2>2, <3>1
  <2>3. CASE f = e /\ snapshot.of = e
    <3>1. rows'[e].mfe >= peak
      <4>1. CASE rows' = rows /\ peak * rows[e].risk <= rows[e].peak * risk
        <5>1. risk = InitialRisk(terms[e]) /\ risk > 0
          BY <1>1, <2>3, OwnSnapshot, PositionsAreReal DEF IInv, risk
        <5>2. rows[e].peak = 0 \/ rows[e].risk = risk
          BY <1>1, <2>3, <5>1 DEF IInv, RowIsPure
        <5>3. peak <= rows[e].peak
          BY <1>3, <1>6, <1>8, <4>1, <5>1, <5>2, OwnPeakIsKept
        <5> QED BY <1>8, <4>1, <5>3
      <4>2. CASE rows'[e].mfe = peak
        BY <1>6, <4>2
      <4> QED BY <1>6, <4>1, <4>2
    <3>2. best'[e] = Larger(best[e], profit)
      BY <1>1, <1>4, <2>3 DEF IInv, TypeOK
    <3>3. peak >= best'[e]
      BY <1>3, <1>6, <1>8, <1>9, <3>2 DEF Larger
    <3>4. rows'[e].mfe \in Int /\ best'[e] \in Int
      <4>1. best'[e] \in Int
        BY <1>3, <1>8, <3>2 DEF Larger
      <4>2. rows'[e].mfe \in Int
        BY <1>6, <1>8
      <4> QED BY <4>1, <4>2
    <3> QED BY <1>6, <2>3, <3>1, <3>3, <3>4
  <2> QED BY <2>1, <2>2, <2>3
<1>23. ConfirmedStopIsNative'
  <2>1. \A f \in Entries : rows'[f].stop = rows[f].stop
    BY <1>6
  <2> QED BY <1>4, <1>7, <2>1 DEF IInv, ConfirmedStopIsNative
<1>24. RequestedStopIsSound'
  <2> SUFFICES ASSUME pc' = "UPDATE"
               PROVE  /\ Tightens(t, current'.stop, rows'[current'.entry].stop)
                      /\ Tightens(t, current'.price, current'.stop)
                      /\ \/ current'.stop = current'.price - Direction(t)
                         \/ 20 * NetPnl(t, NextTick(t, current'.stop))
                               >= Promise(current', t, rows'[current'.entry].mfe)
    <3>1. snapshot'.terms = t
      BY <1>4 DEF t
    <3> QED BY <3>1 DEF RequestedStopIsSound, Promise
  <2> DEFINE v == current'
  <2>1. /\ v.entry = e /\ v.price = price /\ v.stop \in Int
        /\ SoundStop(t, price, rows[e].stop, v.action, v.stop, peak)
    BY <1>4, <1>10 DEF Pending
  <2>2. rows'[e].mfe \in Int /\ rows'[e].mfe <= peak
    BY <1>6, <1>8, <1>9
  <2> HIDE DEF v
  <2>3. Promise(v, t, rows'[e].mfe) <= Desired(v.action, t, NetPnl(t, price), peak)
    BY <1>2, <1>6, <2>1, <2>2, PromiseIsDesired
  <2>4. /\ NextTick(t, v.stop) \in Int
        /\ NetPnl(t, NextTick(t, v.stop)) \in Int
    <3>1. NextTick(t, v.stop) \in Int
      BY <2>1 DEF NextTick, Direction
    <3> QED BY <1>2, <3>1, Amounts
  <2>5. /\ Promise(v, t, rows'[e].mfe) \in Int
        /\ Desired(v.action, t, NetPnl(t, price), peak) \in Int
    <3>1. NetPnl(t, price) \in Int /\ InitialRisk(t) \in Nat /\ NetPnl(t, v.price) \in Int
      BY <1>2, <2>1, Amounts
    <3> QED BY <1>6, <2>2, <3>1 DEF Promise, Desired, Smaller
  <2> QED BY <1>6, <2>1, <2>3, <2>4, <2>5 DEF SoundStop, v
<1> QED BY <1>11, <1>12, <1>13, <1>14, <1>15, <1>16, <1>17, <1>18, <1>19, <1>20, <1>21,
           <1>22, <1>23, <1>24 DEF IInv

(***************************************************************************)
(* The theorems                                                            *)
(***************************************************************************)

LEMMA StepKeeps ==
  ASSUME IInv, [Next]_vars
  PROVE  IInv'
<1>1. CASE UNCHANGED vars
  BY <1>1, ProtectorKept DEF vars, exchangeVars, entryVars, recordVars, protectorVars,
     historyVars, HasRow, IInv, TypeOK, KnownHasFilled, OtherOwnersAreGone, StopsArePositive,
     UnprotectedIsUnknown, ReadIsCurrent, RowIsPure, ConfirmedStopIsNative
<1>2. CASE Environment
  BY <1>2, EntryFillsKeeps, EntryProtectedKeeps, EntryRecordedKeeps, PositionClosesKeeps
     DEF Environment
<1>3. CASE Sync
  BY <1>3, SyncReadKeeps, SyncMatchesKeeps, SyncFindsNothingKeeps, SyncFailsKeeps DEF Sync
<1>4. CASE Tick
  BY <1>4, OnTickerKeeps DEF Tick
<1>5. CASE Update
  BY <1>5, ReadForUpdateKeeps, AuthorizeUpdateKeeps, ManagementFailsKeeps, StopAppliedKeeps,
     StopTimesOutKeeps, StopErrorsKeeps, VerifyStopKeeps, VerifyFailsKeeps DEF Update
<1>6. CASE Exit
  BY <1>6, ReadForExitKeeps, AlreadyClosedKeeps, ExitAcceptedKeeps, ExitUnansweredKeeps
     DEF Exit
<1> QED BY <1>1, <1>2, <1>3, <1>4, <1>5, <1>6, FinishWatchKeeps, RestartKeeps DEF Next

\* The invariant holds in every reachable state.
THEOREM Invariant == Spec => []IInv
BY InitialStates, StepKeeps, PTL DEF Spec

\* The protector's state always has its type.
THEOREM TypeCorrect == Spec => []TypeOK
BY Invariant, PTL DEF IInv

\* Whatever happens to the slot, the row of an entry has the highest net profit that the
\* entry's own position was seen with: other positions that sync takes for it can only be
\* seen when it is gone.
THEOREM PeakKept == Spec => []PeakIsKept
BY Invariant, PTL DEF IInv

\* A close request is on its way or sent once per entry, because its event outlives
\* every outcome and every restart.
THEOREM ExitOnce == Spec => []ExitSentOnce
<1>1. IInv => ExitSentOnce
  BY DEF IInv, ExitBudget, ExitSentOnce
<1> QED BY <1>1, Invariant, PTL

\* The stop that the records claim for an open position is one that the exchange has, or
\* has a tighter one of.
THEOREM ConfirmedNative == Spec => []ConfirmedStopIsNative
BY Invariant, PTL DEF IInv

\* For every position, price and cost rate, a decision asks for a stop that tightens the
\* confirmed one, is behind the market and gives away at most a tick of its promise.
THEOREM RequestSound == Spec => []RequestedStopIsSound
BY Invariant, PTL DEF IInv

\* One step moves the stop of an open position towards the market or not at all.
LEMMA StopMovesForward ==
  ASSUME IInv, Next, holder # NoEntry, holder' = holder, nativeStop # NoStop,
         holder \notin stray'
  PROVE  ~Tightens(terms[holder], nativeStop, nativeStop')
<1>1. ~Tightens(terms[holder], nativeStop, nativeStop)
  BY PositionsAreReal, TightensIsAnOrder DEF IInv, TypeOK
<1>2. CASE UNCHANGED nativeStop
  BY <1>1, <1>2
<1>3. CASE pc = "SENT" /\ ApplyStop
  BY <1>3, ApplyStopMoves
<1>4. CASE Environment
  BY <1>2, <1>4 DEF Environment, EntryFills, EntryProtected, EntryRecorded, PositionCloses,
                    exchangeVars
<1>5. CASE Sync \/ Tick
  BY <1>2, <1>5 DEF Sync, SyncRead, SyncMatches, SyncFindsNothing, SyncFails, Tick, OnTicker,
                    exchangeVars
<1>6. CASE Update
  BY <1>2, <1>3, <1>6 DEF Update, ReadForUpdate, AuthorizeUpdate, ManagementFails,
                          StopApplied, StopTimesOut, StopErrors, VerifyStop, VerifyFails,
                          exchangeVars
<1>7. CASE FinishWatch \/ Exit \/ Restart
  BY <1>2, <1>7 DEF FinishWatch, Exit, ReadForExit, AlreadyClosed, ExitAccepted,
                    ExitUnanswered, SendExit, Restart, exchangeVars
<1> QED BY <1>4, <1>5, <1>6, <1>7 DEF Next

\* No request moves a live position's stop away from its profit, unless the position
\* replaced the one that was read.
THEOREM StopTightens == Spec => StopOnlyTightens
<1>1. IInv /\ [Next]_vars
         => [holder # NoEntry /\ holder' = holder /\ nativeStop # NoStop /\ holder \notin stray'
               => ~Tightens(terms[holder], nativeStop, nativeStop')]_vars
  BY StopMovesForward
<1> QED BY <1>1, Invariant, PTL DEF Spec, StopOnlyTightens
=============================================================================
