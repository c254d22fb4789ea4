--------------------------- MODULE SimulationProofs ---------------------------
(***************************************************************************)
(* Theorems about the two programs that trade on closed candles without an *)
(* exchange: the shadow collector and the backtest.                        *)
(*                                                                         *)
(* The shadow collector, for any number of overlapping instances, markets  *)
(* and faults, and any length of candle, grace, lease and run.  No step    *)
(* checks the lease before it writes, so no theorem rests on it.  What     *)
(* carries them is what an instance has read before it writes              *)
(* (InstanceKnown): the candle it is about to save follows saved ones,     *)
(* what is left of an answer follows accounted candles, and the one it     *)
(* decides was stored live, by itself, within the grace.                   *)
(* Rows that other instances write in between can only add to that.        *)
(*                                                                         *)
(* The backtest, for any candles, strategy, costs and risk profile.  The   *)
(* balance, the day's result and the last loss are rebuilt from the log    *)
(* (EngineInv), and every price the open trade can be closed at stays      *)
(* within the risk it was sized for.                                       *)
(***************************************************************************)
EXTENDS ShadowCollector, Backtest, SumTheorems

(***************************************************************************)
(* The inductive invariant                                                 *)
(***************************************************************************)

ProcRow == [pc : States, age : 0 .. MaxAge, todo : SUBSET Markets,
            errs : 0 .. Cardinality(Markets), quote : 0 .. End,
            answer : SUBSET Candles]

\* An instance with a market in hand, or with markets left to recover.
Handling   == {"MARKET", "CLOSE", "CANDLES", "SAVE", "RECORD"}
AtRecovery == {"RECOVER0", "RECOVER"}
\* A child that has yet to count its first error.
StartingUp == {"DOWN", "STANDBY", "RUNTIME", "REPAIR"}

\* A quote taken after the close of candle h and within the grace.
Prospective(quote, h) == quote - (h + 1) * Hour \in 0 .. Grace

\* A candle that is stored, or that an answer left out before a later one.
Accounted(m, g) == candle[<<m, g>>] # "NONE" \/ <<m, g>> \in omitted

\* What an instance has read stays true until it writes.
InstanceKnown(i) ==
    /\ proc[i].quote <= now
    /\ proc[i].errs + Cardinality(proc[i].todo) <= Cardinality(Markets)
    /\ proc[i].pc \in Handling \cup AtRecovery => proc[i].todo # {}
    /\ proc[i].pc \in StartingUp => proc[i].errs = 0
    /\ proc[i].pc \in {"SAVE", "RECORD"} =>
          Row(i) \in Rows /\ Prospective(proc[i].quote, Row(i)[2])
    /\ proc[i].pc = "SAVE" =>
          \A g \in 0 .. Row(i)[2] - 1 : Accounted(InHand(i), g)
    /\ proc[i].pc \notin AtRecovery => proc[i].answer = {}
    /\ \A h \in proc[i].answer : \A g \in 0 .. h - 1 :
          Accounted(InHand(i), g) \/ g \in proc[i].answer
    /\ proc[i].pc = "RECORD" => candle[Row(i)] = "LIVE"

CollectorInv ==
    /\ TypeOK
    /\ \A i \in Instances : InstanceKnown(i)
    /\ NoGaps
    /\ TradeIsProspective

(***************************************************************************)
(* The operators of the model                                              *)
(***************************************************************************)

\* last_candle_open: the newest stored candle of a market, or none.
LEMMA LastOpenIsNewest ==
  ASSUME NEW m \in Markets
  PROVE  /\ LastOpen(m) \in -1 .. Hours - 1
         /\ LastOpen(m) # -1 => LastOpen(m) \in Saved(m)
         /\ \A h \in Saved(m) : h <= LastOpen(m)
<1> DEFINE S == Saved(m)
           U == {u \in Nat : \A h \in S : h < u}
<1>1. S \subseteq 0 .. Hours - 1 /\ Hours \in Nat
  BY ClockAssumption DEF Saved, Candles
<1> HIDE DEF S
<1>2. Hours \in U
  BY <1>1
<1>3. PICK u \in U : \A v \in U : u <= v
  <2> HIDE DEF U
  <2>1. U \subseteq Nat BY DEF U
  <2> QED BY <1>2, <2>1, LeastNat
<1>4. \E x \in S \cup {-1} : \A y \in S \cup {-1} : x >= y
  <2>1. CASE u = 0
    BY <1>1, <1>3, <2>1
  <2>2. CASE u # 0
    <3>1. u - 1 \in Nat /\ u - 1 \notin U
      BY <1>3, <2>2
    <3>2. PICK h \in S : ~(h < u - 1)
      BY <3>1
    <3> QED BY <1>1, <1>3, <3>2
  <2> QED BY <2>1, <2>2
<1>5. LastOpen(m) = CHOOSE x \in S \cup {-1} : \A y \in S \cup {-1} : x >= y
  BY DEF LastOpen, Max, S
<1>6. /\ LastOpen(m) \in S \cup {-1}
      /\ \A y \in S : y <= LastOpen(m)
  <2> DEFINE x == LastOpen(m)
  <2>1. x \in S \cup {-1} /\ \A y \in S \cup {-1} : x >= y
    <3> HIDE DEF x
    <3> QED BY <1>4, <1>5 DEF x
  <2> HIDE DEF x
  <2>2. x \in S \cup {-1} /\ \A y \in S : y <= x
    BY <2>1, <1>1
  <2> QED BY <2>2 DEF x
<1> QED BY <1>1, <1>6, ClockAssumption DEF S

\* The smaller and the larger of two numbers.
LEMMA MinOfTwo ==
  ASSUME NEW a \in Int, NEW b \in Int
  PROVE  Min({a, b}) = IF a <= b THEN a ELSE b
BY DEF Min

LEMMA MaxOfTwo ==
  ASSUME NEW a \in Int, NEW b \in Int
  PROVE  Max({a, b}) = IF a >= b THEN a ELSE b
BY DEF Max

LEMMA EndIsNat == End \in Nat /\ End = Hours * Hour + Hour - 1
<1>1. Hours * Hour \in Nat
  BY ClockAssumption
<1>2. (Hours + 1) * Hour = Hours * Hour + Hour
  BY ClockAssumption
<1> QED BY <1>1, <1>2, ClockAssumption DEF End

\* The hour of an instant.
LEMMA HourOf ==
  ASSUME NEW q \in 0 .. End
  PROVE  /\ q \div Hour \in 0 .. Hours
         /\ (q \div Hour) * Hour <= q
<1> DEFINE n == q \div Hour
<1>1. n \in Nat /\ q = Hour * n + (q % Hour) /\ q % Hour \in 0 .. Hour - 1
  BY ClockAssumption, EndIsNat
<1> HIDE DEF n
<1>2. n * Hour = Hour * n /\ Hour * n \in Nat
  BY <1>1, ClockAssumption
<1>3. n <= Hours
  <2> SUFFICES ASSUME n >= Hours + 1 PROVE FALSE
    BY <1>1, ClockAssumption
  <2>1. Hour * n >= Hour * (Hours + 1)
    BY <1>1, ClockAssumption
  <2>2. Hour * (Hours + 1) = Hours * Hour + Hour /\ Hours * Hour \in Nat
    BY ClockAssumption
  <2> QED BY <2>1, <2>2, <1>1, <1>2, EndIsNat, ClockAssumption
<1> QED BY <1>1, <1>2, <1>3, ClockAssumption DEF n

\* The market in hand is one of those left.
LEMMA InHandIsLeft ==
  ASSUME NEW i, proc[i].todo # {}
  PROVE  InHand(i) \in proc[i].todo
BY DEF InHand

\* Only recovery holds an answer.
LEMMA NothingHeld ==
  ASSUME CollectorInv, NEW i \in Instances, proc[i].pc \notin AtRecovery
  PROVE  proc[i].answer = {}
BY DEF CollectorInv, InstanceKnown

LEMMA SubsetCounted ==
  ASSUME NEW T \in SUBSET Markets
  PROVE  IsFiniteSet(T) /\ Cardinality(T) \in 0 .. Cardinality(Markets)
<1>1. IsFiniteSet(T) /\ Cardinality(T) <= Cardinality(Markets)
  BY MarketAssumption, FS_Subset
<1> QED BY <1>1, MarketAssumption, FS_CardinalityType

(***************************************************************************)
(* Steps of one instance                                                   *)
(***************************************************************************)

\* A row that was written is never rewritten, and what was left out stays known.
CandlesKept == /\ \A r \in Rows : candle[r] # "NONE" => candle'[r] = candle[r]
               /\ omitted \subseteq omitted'


\* The step of instance i leaves every other one where it was.
OthersStay(i) == \A j \in Instances \ {i} : proc'[j] = proc[j]

\* A step that leaves what instance j looks at, or only adds candles to it.
LEMMA StillKnown ==
  ASSUME TypeOK, NEW j \in Instances, InstanceKnown(j), CandlesKept,
         now' \in Int, now' >= now,
         proc'[j].pc = proc[j].pc, proc'[j].todo = proc[j].todo,
         proc'[j].errs = proc[j].errs, proc'[j].quote = proc[j].quote,
         proc'[j].answer = proc[j].answer
  PROVE  InstanceKnown(j)'
<1>1. proc[j] \in ProcRow /\ now \in Int /\ proc[j].quote \in Int
  BY EndIsNat DEF TypeOK, ProcRow
<1>2. InHand(j)' = InHand(j) /\ Row(j)' = Row(j)
  BY DEF InHand, Row
<1>3. ASSUME proc[j].pc = "SAVE", NEW g \in 0 .. Row(j)[2] - 1
      PROVE  Accounted(InHand(j), g)'
  <2>1. Accounted(InHand(j), g)
    BY <1>3 DEF InstanceKnown
  <2>2. InHand(j) \in Markets /\ Row(j)[2] \in Candles
    BY <1>3 DEF InstanceKnown, Rows, Row
  <2>3. <<InHand(j), g>> \in Rows
    BY <2>2, ClockAssumption DEF Rows, Candles
  <2> QED BY <1>2, <2>1, <2>3 DEF CandlesKept, Accounted
<1>4. ASSUME proc[j].pc = "RECORD"
      PROVE  candle'[Row(j)] = "LIVE"
  BY <1>4 DEF InstanceKnown, CandlesKept
<1>5. ASSUME NEW h \in proc[j].answer, NEW g \in 0 .. h - 1
      PROVE  Accounted(InHand(j), g)' \/ g \in proc[j].answer
  <2>1. Accounted(InHand(j), g) \/ g \in proc[j].answer
    BY <1>5 DEF InstanceKnown
  <2>2. h \in Candles /\ proc[j].pc \in AtRecovery
    BY <1>1, <1>5 DEF InstanceKnown, ProcRow
  <2>3. InHand(j) \in Markets
    BY <1>1, <2>2, InHandIsLeft DEF InstanceKnown, ProcRow
  <2>4. <<InHand(j), g>> \in Rows
    BY <2>2, <2>3, ClockAssumption DEF Rows, Candles
  <2> QED BY <1>2, <2>1, <2>4 DEF CandlesKept, Accounted
<1> QED BY <1>1, <1>2, <1>3, <1>4, <1>5 DEF InstanceKnown, Prospective

\* The step of one instance, part by part.
LEMMA OwnStep ==
  ASSUME CollectorInv, NEW i \in Instances, OthersStay(i), CandlesKept, now' = now,
         TypeOK', InstanceKnown(i)', NoGaps', TradeIsProspective'
  PROVE  CollectorInv'
<1>1. now' \in Int /\ now' >= now
  BY EndIsNat DEF CollectorInv, TypeOK
<1>2. ASSUME NEW j \in Instances PROVE InstanceKnown(j)'
  <2>1. CASE j = i
    BY <2>1
  <2>2. CASE j # i
    BY <2>2, <1>1, StillKnown DEF CollectorInv, OthersStay
  <2> QED BY <2>1, <2>2
<1> QED BY <1>2 DEF CollectorInv

\* Without a new candle there is no new gap.
LEMMA GapsKept ==
  ASSUME NoGaps, candle' = candle, omitted \subseteq omitted'
  PROVE  NoGaps' /\ CandlesKept
BY DEF NoGaps, Saved, CandlesKept

\* The trades there were, closed or not, keep their candle and decision.
LEMMA TradesKept ==
  ASSUME TypeOK, TradeIsProspective, CandlesKept,
         \A r \in Rows : trade'[r].status # "NONE" =>
            /\ trade[r].status # "NONE" /\ trade'[r].opened = trade[r].opened
            /\ decision'[r] = decision[r]
  PROVE  TradeIsProspective'
<1> SUFFICES ASSUME NEW r \in Rows, trade'[r].status # "NONE"
             PROVE  /\ candle'[r] = "LIVE" /\ decision'[r] = "ALLOW"
                    /\ trade'[r].opened - (r[2] + 1) * Hour \in 0 .. Grace
  BY DEF TradeIsProspective
<1>1. /\ candle[r] = "LIVE" /\ decision[r] = "ALLOW"
      /\ trade[r].opened - (r[2] + 1) * Hour \in 0 .. Grace
  BY DEF TradeIsProspective
<1> QED BY <1>1 DEF CandlesKept

\* One more candle of a market, right after those it has.
LEMMA CandleAdded ==
  ASSUME TypeOK, NoGaps, NEW m \in Markets, NEW h \in Candles,
         NEW kind \in {"LIVE", "RECOVERED"},
         candle[<<m, h>>] = "NONE",
         \A g \in 0 .. h - 1 : Accounted(m, g),
         candle' = [candle EXCEPT ![<<m, h>>] = kind], omitted' = omitted
  PROVE  NoGaps' /\ CandlesKept /\ candle' \in [Rows -> CandleRow]
<1>1. <<m, h>> \in Rows /\ candle \in [Rows -> CandleRow]
  BY DEF Rows, TypeOK
<1>2. candle' \in [Rows -> CandleRow]
  BY <1>1 DEF CandleRow
<1>3. CandlesKept
  BY <1>1 DEF CandlesKept
<1>4. ASSUME NEW n \in Markets, NEW k \in Candles, candle'[<<n, k>>] # "NONE",
             NEW g \in 0 .. k - 1
      PROVE  g \in Candles /\ (candle'[<<n, g>>] # "NONE" \/ <<n, g>> \in omitted')
  <2>1. g \in Candles /\ <<n, g>> \in Rows /\ <<n, k>> \in Rows
    BY <1>4, ClockAssumption DEF Candles, Rows
  <2>2. Accounted(n, g)
    <3>1. CASE candle[<<n, k>>] # "NONE"
      BY <3>1, <2>1, <1>4 DEF NoGaps, Saved, Accounted
    <3>2. CASE candle[<<n, k>>] = "NONE"
      <4>1. <<n, k>> = <<m, h>>
        BY <3>2, <1>1, <1>4, <2>1
      <4> QED BY <4>1, <1>4
    <3> QED BY <3>1, <3>2
  <2> QED BY <2>1, <2>2, <1>3 DEF CandlesKept, Accounted
<1>5. NoGaps'
  BY <1>4 DEF NoGaps, Saved
<1> QED BY <1>2, <1>3, <1>5

\* The rows before the newest one are all accounted for, the next one is not there.
LEMMA NextIsMissing ==
  ASSUME TypeOK, NoGaps, NEW m \in Markets
  PROVE  /\ LastOpen(m) + 1 \in Nat
         /\ \A g \in 0 .. LastOpen(m) : Accounted(m, g)
         /\ LastOpen(m) + 1 \in Candles => candle[<<m, LastOpen(m) + 1>>] = "NONE"
<1>1. /\ LastOpen(m) \in -1 .. Hours - 1
      /\ LastOpen(m) # -1 => LastOpen(m) \in Saved(m)
      /\ \A h \in Saved(m) : h <= LastOpen(m)
  BY LastOpenIsNewest
<1>2. ASSUME NEW g \in 0 .. LastOpen(m) PROVE Accounted(m, g)
  <2>1. LastOpen(m) \in Saved(m)
    BY <1>1, <1>2, ClockAssumption
  <2>2. g = LastOpen(m) \/ g \in 0 .. LastOpen(m) - 1
    BY <1>1, ClockAssumption
  <2>3. g \in Saved(m) \/ <<m, g>> \in omitted
    BY <2>1, <2>2 DEF NoGaps
  <2> QED BY <2>3 DEF Saved, Accounted
<1>3. ASSUME LastOpen(m) + 1 \in Candles
      PROVE  candle[<<m, LastOpen(m) + 1>>] = "NONE"
  BY <1>1, <1>3, ClockAssumption DEF Saved, Candles
<1> QED BY <1>1, <1>2, <1>3, ClockAssumption

\* What a step of instance i has to show of its own row.
RowKept(i) == proc' \in [Instances -> ProcRow] /\ OthersStay(i) /\ InstanceKnown(i)'

LEMMA QuietStep ==
  ASSUME CollectorInv, NEW i \in Instances, RowKept(i), TypeOK', now' = now,
         UNCHANGED <<candle, decision, trade>>, omitted \subseteq omitted'
  PROVE  CollectorInv'
<1>1. NoGaps' /\ CandlesKept
  BY GapsKept DEF CollectorInv
<1>2. TradeIsProspective'
  BY <1>1, TradesKept DEF CollectorInv
<1> QED BY <1>1, <1>2, OwnStep DEF RowKept

\* The row of an instance that is gone, hangs, or has yet to take a market.
LEMMA IdleRow ==
  ASSUME CollectorInv, NEW i \in Instances, now' = now,
         NEW p \in ProcRow, p.pc \notin Handling \cup AtRecovery,
         p.quote \in {0, proc[i].quote},
         p.errs + Cardinality(p.todo) <= Cardinality(Markets),
         p.pc \in StartingUp => p.errs = 0, p.answer = {},
         proc' = [proc EXCEPT ![i] = p]
  PROVE  RowKept(i)
<1>1. proc \in [Instances -> ProcRow] /\ now \in 0 .. End /\ proc[i].quote <= now
  BY DEF CollectorInv, TypeOK, ProcRow, InstanceKnown
<1>2. proc'[i] = p /\ OthersStay(i) /\ proc' \in [Instances -> ProcRow]
  BY <1>1 DEF OthersStay
<1>3. p.quote <= now'
  BY <1>1, EndIsNat
<1> QED BY <1>2, <1>3 DEF RowKept, InstanceKnown, Handling

LEMMA NoChildIsIdle == NoChild \in ProcRow /\ NoChild.pc \notin Handling \cup AtRecovery
                       /\ NoChild.errs + Cardinality(NoChild.todo) <= Cardinality(Markets)
                       /\ NoChild.errs = 0 /\ NoChild.answer = {}
<1>1. Cardinality({}) = 0 /\ Cardinality(Markets) \in Nat
  BY FS_EmptySet, SubsetCounted
<1> QED BY <1>1, EndIsNat, ClockAssumption
        DEF NoChild, ProcRow, States, Handling, AtRecovery

\* The child ends.
LEMMA ChildEnds ==
  ASSUME CollectorInv, NEW i \in Instances, now' = now, proc' = [proc EXCEPT ![i] = NoChild]
  PROVE  RowKept(i)
<1>1. NoChild.quote \in {0, proc[i].quote}
  BY DEF NoChild
<1> QED BY <1>1, NoChildIsIdle, IdleRow

\* The child goes on without a market in hand.
LEMMA GoesOn ==
  ASSUME CollectorInv, NEW i \in Instances, now' = now,
         NEW pc \in States \ (Handling \cup AtRecovery), Goto(i, pc),
         pc \in StartingUp => proc[i].pc \in StartingUp, proc[i].answer = {}
  PROVE  RowKept(i)
<1>1. proc \in [Instances -> ProcRow]
  BY DEF CollectorInv, TypeOK, ProcRow
<1> DEFINE p == [proc[i] EXCEPT !.pc = pc]
<1>2. /\ p \in ProcRow /\ p.pc = pc /\ p.quote = proc[i].quote
      /\ p.errs = proc[i].errs /\ p.todo = proc[i].todo /\ p.answer = {}
  BY <1>1 DEF ProcRow
<1>3. proc' = [proc EXCEPT ![i] = p]
  BY <1>1 DEF Goto
<1>4. /\ p.errs + Cardinality(p.todo) <= Cardinality(Markets)
      /\ p.pc \in StartingUp => p.errs = 0
  BY <1>2 DEF CollectorInv, InstanceKnown
<1> HIDE DEF p
<1> QED BY <1>2, <1>3, <1>4, IdleRow

\* The child turns to all markets, with no error counted.
LEMMA TakesMarkets ==
  ASSUME CollectorInv, NEW i \in Instances, now' = now, NEW pc \in {"MARKET", "RECOVER"},
         proc' = [proc EXCEPT ![i].pc = pc, ![i].todo = Markets, ![i].errs = 0],
         proc[i].answer = {}
  PROVE  RowKept(i)
<1>1. proc \in [Instances -> ProcRow] /\ now \in 0 .. End /\ proc[i].quote <= now
  BY DEF CollectorInv, TypeOK, ProcRow, InstanceKnown
<1>2. Cardinality(Markets) \in Nat
  BY SubsetCounted
<1>3. /\ proc'[i].pc = pc /\ proc'[i].todo = Markets /\ proc'[i].errs = 0
      /\ proc'[i].quote = proc[i].quote /\ proc'[i].answer = {}
  BY <1>1
<1>4. /\ pc \in States /\ 0 \in 0 .. Cardinality(Markets)
      /\ Markets \in SUBSET Markets
  BY <1>2 DEF States, Working, LoopStates
<1>5. proc' \in [Instances -> ProcRow] /\ OthersStay(i)
  BY <1>1, <1>4 DEF ProcRow, OthersStay
<1> QED BY <1>1, <1>2, <1>3, <1>5, EndIsNat, MarketAssumption
        DEF RowKept, InstanceKnown

\* process_exchange leaves the market in hand.
LEMMA MarketDone ==
  ASSUME CollectorInv, NEW i \in Instances, now' = now, proc[i].pc \in Handling,
         NEW failed \in BOOLEAN, NextMarket(i, failed)
  PROVE  RowKept(i)
<1> DEFINE k    == proc[i]
           left == k.todo \ {InHand(i)}
           errs == IF failed THEN k.errs + 1 ELSE k.errs
           pc   == IF left = {} THEN "ENDCYCLE" ELSE "MARKET"
           p    == [k EXCEPT !.todo = left, !.quote = 0, !.errs = errs, !.pc = pc]
<1>1. proc \in [Instances -> ProcRow] /\ now \in 0 .. End /\ k \in ProcRow
  BY DEF CollectorInv, TypeOK, ProcRow
<1>2. /\ k.todo # {} /\ k.errs + Cardinality(k.todo) <= Cardinality(Markets)
      /\ k.errs \in Nat /\ k.todo \in SUBSET Markets
      /\ k.answer = {}
  BY <1>1 DEF CollectorInv, InstanceKnown, ProcRow, Handling, AtRecovery
<1>3. IsFiniteSet(k.todo) /\ Cardinality(k.todo) \in Nat /\ Cardinality(Markets) \in Nat
  BY <1>2, SubsetCounted
<1>4. InHand(i) \in k.todo
  BY <1>2, InHandIsLeft
<1>5. Cardinality(left) = Cardinality(k.todo) - 1 /\ Cardinality(left) \in Nat
  <2>1. IsFiniteSet(left) /\ Cardinality(left) = Cardinality(k.todo) - 1
    BY <1>3, <1>4, FS_RemoveElement
  <2> QED BY <2>1, FS_CardinalityType
<1>6. /\ errs \in Nat /\ errs + Cardinality(left) <= Cardinality(Markets)
      /\ errs <= Cardinality(Markets)
  BY <1>2, <1>3, <1>5
<1>7. left \in SUBSET Markets /\ pc \in {"ENDCYCLE", "MARKET"} /\ (pc = "MARKET" => left # {})
  BY <1>2
<1>8. proc' = [proc EXCEPT ![i] = p]
  BY <1>1 DEF NextMarket
<1>12. k.answer = {}
  BY <1>2
<1> HIDE DEF left, errs, pc, k
<1>9. /\ pc \in States /\ errs \in 0 .. Cardinality(Markets) /\ 0 \in 0 .. End
      /\ left \in SUBSET Markets
  BY <1>3, <1>6, <1>7, EndIsNat DEF States, Working, LoopStates
<1>10. /\ p \in ProcRow /\ p.pc = pc /\ p.todo = left /\ p.errs = errs /\ p.quote = 0
       /\ p.answer = {}
  BY <1>1, <1>9, <1>12 DEF ProcRow
<1> HIDE DEF p
<1>11. proc'[i] = p /\ OthersStay(i) /\ proc' \in [Instances -> ProcRow]
  BY <1>1, <1>8, <1>10 DEF OthersStay
<1> QED BY <1>1, <1>6, <1>7, <1>10, <1>11, EndIsNat DEF RowKept, InstanceKnown, Handling, AtRecovery, StartingUp

(***************************************************************************)
(* The shared rows                                                         *)
(***************************************************************************)

LEMMA FaultsBounded ==
  ASSUME TypeOK, Fails \/ NoFail
  PROVE  faults' \in 0 .. MaxFaults
BY ClockAssumption DEF TypeOK, Fails, NoFail

LEMMA Delivered ==
  ASSUME TypeOK, NEW queue \in SUBSET TradeEvents, Deliver(queue)
  PROVE  pending' \subseteq TradeEvents /\ faults' \in 0 .. MaxFaults
<1>1. Fails \/ NoFail
  BY DEF Deliver
<1> QED BY <1>1, FaultsBounded DEF Deliver

LEMMA HealthKept ==
  ASSUME TypeOK, NEW status \in {"HEALTHY", "DEGRADED", "OFFLINE"},
         health' = Checked(status)
  PROVE  health' \in HealthRow
<1>1. health.failures \in Nat /\ OfflineAfter \in Nat
  BY ClockAssumption DEF TypeOK, HealthRow
<1>2. Min({OfflineAfter, health.failures + 1}) \in 0 .. OfflineAfter
  <2> DEFINE f == health.failures
  <2>1. f \in Nat
    BY <1>1
  <2> HIDE DEF f
  <2>2. f + 1 \in Int /\ OfflineAfter \in Int
    BY <1>1, <2>1
  <2>3. Min({OfflineAfter, f + 1}) = IF OfflineAfter <= f + 1 THEN OfflineAfter ELSE f + 1
    BY <2>2, MinOfTwo
  <2>4. Min({OfflineAfter, f + 1}) \in 0 .. OfflineAfter
    BY <1>1, <2>1, <2>3
  <2> QED BY <2>4 DEF f
<1> DEFINE n == IF status = "HEALTHY" THEN 0 ELSE Min({OfflineAfter, health.failures + 1})
<1>3. n \in 0 .. OfflineAfter /\ health' = [status |-> status, failures |-> n]
  BY <1>1, <1>2 DEF Checked
<1> HIDE DEF n
<1> QED BY <1>3 DEF HealthRow

\* A release of the lease, or none.
LEMMA LeaseReleased ==
  ASSUME TypeOK, NEW i, lease' = Released(i)
  PROVE  lease' \in CollectorRow
<1>1. 0 \in 0 .. Lease /\ 0 \in 0 .. MaxAge + 1 /\ lease \in CollectorRow
  BY ClockAssumption DEF TypeOK
<1> DEFINE l == [lease EXCEPT !.left = 0, !.status = "STOPPED", !.beat = 0]
<1>2. l \in CollectorRow
  BY <1>1 DEF CollectorRow
<1> HIDE DEF l
<1>3. lease' \in {l, lease}
  BY DEF Released, l
<1> QED BY <1>1, <1>2, <1>3

LEMMA DayKept ==
  ASSUME TypeOK
  PROVE  /\ DaySaved \in [Days -> DailyRow]
         /\ Reported => daily' \in [Days -> DailyRow] /\ (Fails \/ NoFail)
<1>1. DaySaved \in [Days -> DailyRow]
  BY DEF TypeOK, DaySaved, DailyRow
<1> DEFINE d == Min(Unsent)
<1>2. /\ [DaySaved EXCEPT ![d] = "SENT"] \in [Days -> DailyRow]
      /\ [DaySaved EXCEPT ![d] = "LOST"] \in [Days -> DailyRow]
  <2> HIDE DEF d
  <2> QED BY <1>1 DEF DailyRow
<1> QED BY <1>1, <1>2 DEF Reported

LEMMA NoneOpenIsTyped ==
  ASSUME TypeOK, NEW r \in Rows
  PROVE  <<"CLOSED", r>> \in TradeEvents /\ <<"FIRST", r>> \in TradeEvents
BY DEF TradeEvents

(***************************************************************************)
(* The actions of one instance                                             *)
(***************************************************************************)

LEMMA StartStep ==
  ASSUME CollectorInv, NEW i \in Instances, Start(i)
  PROVE  CollectorInv'
<1>1. RowKept(i)
  <2>1. CASE LockVerified(i)
    <3>1. "STANDBY" \in States \ (Handling \cup AtRecovery)
      BY DEF States, Handling, AtRecovery
    <3> QED BY <2>1, <3>1, GoesOn, NothingHeld DEF Start, At, StartingUp, AtRecovery
  <2>2. CASE ~LockVerified(i)
    <3>1. proc' = proc /\ candle' = candle /\ now' = now /\ omitted' = omitted
      BY <2>2 DEF Start, rows, env
    <3> QED BY <3>1, StillKnown, GapsKept, EndIsNat
            DEF CollectorInv, TypeOK, ProcRow, RowKept, OthersStay
  <2> QED BY <2>1, <2>2
<1>2. sup' \in [Instances -> {"UP", "STOPPED"}]
  BY DEF Start, CollectorInv, TypeOK
<1>3. TypeOK'
  BY <1>1, <1>2 DEF Start, CollectorInv, TypeOK, RowKept, ProcRow, rows, env
<1> QED BY <1>1, <1>3, QuietStep DEF Start, rows, env

LEMMA AcquireLeaseStep ==
  ASSUME CollectorInv, NEW i \in Instances, AcquireLease(i)
  PROVE  CollectorInv'
<1>1. RowKept(i)
  <2>1. "RUNTIME" \in States \ (Handling \cup AtRecovery)
    BY DEF States, Working, Handling, AtRecovery
  <2> QED BY <2>1, GoesOn, NothingHeld DEF AcquireLease, At, StartingUp, AtRecovery
<1>2. lease' \in CollectorRow
  BY ClockAssumption DEF AcquireLease, Taken, CollectorRow, Alive
<1>3. TypeOK'
  BY <1>1, <1>2 DEF AcquireLease, CollectorInv, TypeOK, RowKept, ProcRow, rows, env
<1> QED BY <1>1, <1>3, QuietStep DEF AcquireLease, rows, env

\* The process ends, with or without a release of the lease.
LEMMA EndOfChild ==
  ASSUME CollectorInv, NEW i \in Instances,
         Raise(i) \/ (proc' = [proc EXCEPT ![i] = NoChild] /\ UNCHANGED lease),
         Fails \/ NoFail, sup' \in [Instances -> {"UP", "STOPPED"}],
         daily' \in [Days -> DailyRow],
         UNCHANGED <<now, matches, omitted, rows, health>>
  PROVE  CollectorInv'
<1>1. proc' = [proc EXCEPT ![i] = NoChild] /\ now' = now
  BY DEF Raise
<1>2. RowKept(i)
  BY <1>1, ChildEnds
<1>3. lease' \in CollectorRow /\ faults' \in 0 .. MaxFaults
  BY LeaseReleased, FaultsBounded DEF CollectorInv, Raise, TypeOK
<1>4. TypeOK'
  BY <1>2, <1>3 DEF CollectorInv, TypeOK, RowKept, ProcRow, rows
<1> QED BY <1>2, <1>4, QuietStep DEF rows

LEMMA RecordRuntimeStep ==
  ASSUME CollectorInv, NEW i \in Instances, RecordRuntime(i)
  PROVE  CollectorInv'
<1>1. CASE lease.owner = i
  <2>1. RowKept(i)
    <3>1. "REPAIR" \in States \ (Handling \cup AtRecovery)
      BY DEF States, Working, Handling, AtRecovery
    <3> QED BY <1>1, <3>1, GoesOn, NothingHeld DEF RecordRuntime, At, StartingUp, AtRecovery
  <2>2. TypeOK'
    BY <1>1, <2>1 DEF RecordRuntime, CollectorInv, TypeOK, RowKept, ProcRow, rows, env
  <2> QED BY <2>1, <2>2, QuietStep DEF RecordRuntime, rows, env
<1>2. CASE lease.owner # i
  <2>1. sup' \in [Instances -> {"UP", "STOPPED"}] /\ daily' \in [Days -> DailyRow]
    BY DEF RecordRuntime, CollectorInv, TypeOK
  <2> QED BY <1>2, <2>1, EndOfChild DEF RecordRuntime, env, NoFail
<1> QED BY <1>1, <1>2

LEMMA RepairOrphansStep ==
  ASSUME CollectorInv, NEW i \in Instances, RepairOrphans(i)
  PROVE  CollectorInv'
<1> USE DEF RepairOrphans
<1>1. proc \in [Instances -> ProcRow] /\ now \in 0 .. End /\ proc[i].quote <= now
  BY DEF CollectorInv, TypeOK, ProcRow, InstanceKnown
<1>2. /\ now' = now /\ candle' = candle /\ trade' = trade /\ proc[i].errs = 0
      /\ Cardinality(Markets) \in Nat
  BY SubsetCounted DEF CollectorInv, InstanceKnown, At, StartingUp
<1>3. RowKept(i)
  <2>1. "RECOVER0" \in States /\ Markets \in SUBSET Markets
    BY DEF States, Working
  <2>2. /\ proc'[i].pc = "RECOVER0" /\ proc'[i].todo = Markets
        /\ proc'[i].errs = 0 /\ proc'[i].quote = proc[i].quote /\ proc'[i].answer = {}
    BY <1>1, <1>2, NothingHeld DEF At, AtRecovery
  <2>3. proc' \in [Instances -> ProcRow] /\ OthersStay(i)
    BY <1>1, <2>1 DEF ProcRow, OthersStay
  <2> QED BY <1>1, <1>2, <2>2, <2>3, MarketAssumption
          DEF RowKept, InstanceKnown, StartingUp
<1>4. decision' \in [Rows -> DecisionRow]
  BY DEF CollectorInv, TypeOK, Repaired, DecisionRow
<1>5. pending' \subseteq TradeEvents /\ health' \in HealthRow /\ faults' \in 0 .. MaxFaults
  <2>1. TypeOK /\ pending \in SUBSET TradeEvents
    BY DEF CollectorInv, TypeOK
  <2>2. CASE Deliver(pending) /\ health' = Checked("HEALTHY")
    BY <2>1, <2>2, Delivered, HealthKept
  <2>3. CASE Fails /\ pending' = {} /\ health' = Checked("OFFLINE")
    BY <2>1, <2>3, FaultsBounded, HealthKept
  <2> QED BY <2>2, <2>3 DEF StartupHealth
<1>6. TypeOK'
  BY <1>2, <1>3, <1>4, <1>5 DEF CollectorInv, TypeOK, RowKept, ProcRow
<1>7. NoGaps' /\ CandlesKept
  BY <1>2, GapsKept DEF CollectorInv
<1>8. TradeIsProspective'
  <2>1. ASSUME NEW r \in Rows, trade[r].status # "NONE"
        PROVE  decision'[r] = decision[r]
    BY <2>1 DEF CollectorInv, TradeIsProspective, TypeOK, Repaired, Orphans
  <2> QED BY <1>2, <1>7, <2>1, TradesKept DEF CollectorInv
<1> QED BY <1>2, <1>3, <1>6, <1>7, <1>8, OwnStep DEF RowKept

LEMMA ThroughIsInt ==
  ASSUME TypeOK, NEW i
  PROVE  Min({Through(i), Hours}) \in Int /\ Min({Through(i), Hours}) <= Hours
<1>1. now \in Nat /\ Hours \in Int /\ Hour \in Nat \ {0} /\ Grace \in Nat
  BY EndIsNat, ClockAssumption DEF TypeOK
<1>2. now \div Hour \in Int /\ (now - Grace) \div Hour \in Int
  BY <1>1
<1>3. Through(i) \in Int
  BY <1>2 DEF Through
<1> HIDE DEF Through
<1> QED BY <1>1, <1>3, MinOfTwo

\* The candle stored next is the oldest of the answer.
LEMMA NextIsOldest ==
  ASSUME NEW S \in SUBSET Candles, S # {}
  PROVE  NextToStore(S) \in S /\ \A h \in S : NextToStore(S) <= h
<1>1. S \subseteq Nat
  BY ClockAssumption DEF Candles
<1>2. \E x \in S : \A y \in S : x <= y
  BY <1>1, LeastNat
<1>3. NextToStore(S) = CHOOSE x \in S : \A y \in S : x <= y
  BY DEF NextToStore, Min
<1> QED BY <1>2, <1>3

\* What is being recovered, and by whom.
LEMMA InRecovery ==
  ASSUME CollectorInv, NEW i \in Instances, Recovering(i)
  PROVE  /\ proc[i].pc \in AtRecovery /\ proc[i].todo # {} /\ InHand(i) \in proc[i].todo
         /\ InHand(i) \in Markets /\ proc \in [Instances -> ProcRow]
<1>1. proc \in [Instances -> ProcRow]
  BY DEF CollectorInv, TypeOK, ProcRow
<1>2. proc[i].pc \in AtRecovery /\ proc[i].todo # {}
  BY DEF Recovering, AtRecovery
<1>3. InHand(i) \in proc[i].todo
  BY <1>2, InHandIsLeft
<1> QED BY <1>1, <1>2, <1>3 DEF ProcRow

\* The market in hand is left.
LEMMA MarketLeft ==
  ASSUME CollectorInv, NEW i \in Instances, Recovering(i), now' = now, StillToStore(i, {})
  PROVE  RowKept(i)
<1> DEFINE k    == proc[i]
           left == k.todo \ {InHand(i)}
           pc   == IF left = {} THEN AfterRecovery(i) ELSE k.pc
           p    == [k EXCEPT !.answer = {}, !.todo = left, !.pc = pc]
<1>1. /\ proc \in [Instances -> ProcRow] /\ k \in ProcRow /\ k.pc \in AtRecovery
      /\ now \in 0 .. End /\ k.quote <= now
  BY InRecovery DEF CollectorInv, TypeOK, InstanceKnown
<1>2. /\ k.todo \in SUBSET Markets /\ k.errs \in Nat /\ left \in SUBSET Markets
      /\ k.errs + Cardinality(k.todo) <= Cardinality(Markets)
  BY <1>1 DEF CollectorInv, InstanceKnown, ProcRow
<1>3. Cardinality(left) <= Cardinality(k.todo) /\ Cardinality(left) \in Nat
      /\ Cardinality(k.todo) \in Nat /\ Cardinality(Markets) \in Nat
  <2>1. IsFiniteSet(k.todo) /\ left \subseteq k.todo
    BY <1>2, SubsetCounted
  <2> QED BY <1>2, <2>1, FS_Subset, SubsetCounted
<1>4. k.errs + Cardinality(left) <= Cardinality(Markets)
  BY <1>2, <1>3
<1>5. /\ pc \in AtRecovery \cup {"BEAT0", "BEAT"}
      /\ pc \in AtRecovery => left # {}
  BY <1>1 DEF AfterRecovery, AtRecovery
<1>6. proc' = [proc EXCEPT ![i] = p]
  BY <1>1 DEF StillToStore
<1> HIDE DEF left, pc, k
<1>7. pc \in States
  BY <1>5 DEF States, Working, LoopStates, AtRecovery
<1>8. /\ p \in ProcRow /\ p.pc = pc /\ p.todo = left /\ p.errs = k.errs
      /\ p.quote = k.quote /\ p.answer = {}
  BY <1>1, <1>2, <1>7 DEF ProcRow
<1> HIDE DEF p
<1>9. proc'[i] = p /\ OthersStay(i) /\ proc' \in [Instances -> ProcRow]
  BY <1>1, <1>6, <1>8 DEF OthersStay
<1> QED BY <1>1, <1>4, <1>5, <1>8, <1>9
        DEF RowKept, InstanceKnown, Handling, AtRecovery, StartingUp

\* What is left of an answer follows what is accounted for.
LEMMA RestOfAnswer ==
  ASSUME CollectorInv, NEW i \in Instances, Recovering(i), now' = now,
         NEW rest \in SUBSET Candles, StillToStore(i, rest),
         \A h \in rest : \A g \in 0 .. h - 1 :
            \/ candle'[<<InHand(i), g>>] # "NONE" \/ <<InHand(i), g>> \in omitted'
            \/ g \in rest
  PROVE  RowKept(i)
<1>1. CASE rest = {}
  BY <1>1, MarketLeft
<1>2. CASE rest # {}
  <2>1. /\ proc \in [Instances -> ProcRow] /\ proc[i].pc \in AtRecovery
        /\ proc[i].todo # {} /\ InstanceKnown(i)
    BY InRecovery DEF CollectorInv
  <2>2. proc' = [proc EXCEPT ![i].answer = rest]
    BY <1>2 DEF StillToStore
  <2>3. /\ proc'[i].pc = proc[i].pc /\ proc'[i].todo = proc[i].todo
        /\ proc'[i].errs = proc[i].errs /\ proc'[i].quote = proc[i].quote
        /\ proc'[i].answer = rest
    BY <2>1, <2>2
  <2>4. proc' \in [Instances -> ProcRow] /\ OthersStay(i)
    BY <2>1, <2>2 DEF ProcRow, OthersStay
  <2>5. InHand(i)' = InHand(i)
    BY <2>3 DEF InHand
  <2>6. \A h \in proc'[i].answer : \A g \in 0 .. h - 1 :
           Accounted(InHand(i), g)' \/ g \in proc'[i].answer
    BY <2>3, <2>5 DEF Accounted
  <2> QED BY <2>1, <2>3, <2>4, <2>6 DEF RowKept, InstanceKnown, AtRecovery, StartingUp
<1> QED BY <1>1, <1>2

LEMMA AskCandlesStep ==
  ASSUME CollectorInv, NEW i \in Instances, AskCandles(i)
  PROVE  CollectorInv'
<1> DEFINE m     == InHand(i)
           asked == Asked(i, m)
<1>1. /\ now' = now /\ Recovering(i)
      /\ UNCHANGED <<matches, lease, candle, decision, trade, pending, health, daily, sup>>
  BY DEF AskCandles, rows
<1>2. PICK answer \in SUBSET asked :
        /\ Fails \/ NoFail
        /\ omitted' = omitted \cup {r \in Rows : /\ r[1] = m /\ r[2] \in asked \ answer
                                                /\ \E h \in answer : r[2] < h}
        /\ StillToStore(i, answer)
  BY DEF AskCandles
<1>3. m \in Markets /\ omitted \subseteq Rows
  BY <1>1, InRecovery DEF CollectorInv, TypeOK
<1> HIDE DEF m
<1>4. /\ LastOpen(m) \in Int /\ LastOpen(m) + 1 \in Nat
      /\ \A g \in 0 .. LastOpen(m) : Accounted(m, g)
  <2>1. LastOpen(m) \in Int
    BY <1>3, LastOpenIsNewest, ClockAssumption
  <2>2. TypeOK /\ NoGaps
    BY DEF CollectorInv
  <2> QED BY <1>3, <2>1, <2>2, NextIsMissing
<1> DEFINE last == LastOpen(m)
           top  == Min({Through(i), Hours})
<1>5. last \in Int /\ last + 1 \in Nat /\ top \in Int /\ top <= Hours
  BY <1>4, ThroughIsInt DEF CollectorInv
<1>6. asked = last + 1 .. top - 1
  BY DEF Asked
<1> HIDE DEF asked, last, top
<1>7. asked \subseteq Candles
  BY <1>5, <1>6, ClockAssumption DEF Candles
<1>8. omitted' \subseteq Rows /\ omitted \subseteq omitted'
  BY <1>2, <1>3
<1>9. ASSUME NEW h \in answer, NEW g \in 0 .. h - 1
      PROVE  candle'[<<m, g>>] # "NONE" \/ <<m, g>> \in omitted' \/ g \in answer
  <2>1. h \in asked /\ h \in Candles
    BY <1>7
  <2>2. h \in Int /\ g \in Int
    BY <2>1, ClockAssumption DEF Candles
  <2>3. g \in 0 .. last \/ g \in asked
    BY <2>1, <2>2, <1>5, <1>6
  <2>4. CASE g \in 0 .. last
    <3>1. Accounted(m, g)
      BY <1>4, <2>4 DEF last
    <3> QED BY <3>1, <1>1, <1>8 DEF Accounted
  <2>5. CASE g \in asked \ answer
    <3>1. <<m, g>> \in Rows /\ g < h
      BY <1>3, <1>7, <2>2, <2>5 DEF Rows
    <3> QED BY <1>2, <2>5, <3>1
  <2> QED BY <2>3, <2>4, <2>5
<1>10. RowKept(i)
  <2>1. answer \in SUBSET Candles
    BY <1>7
  <2> QED BY <1>1, <1>2, <1>9, <2>1, RestOfAnswer DEF m
<1>11. TypeOK'
  BY <1>1, <1>2, <1>8, <1>10, FaultsBounded DEF CollectorInv, TypeOK, RowKept, ProcRow
<1> QED BY <1>1, <1>8, <1>10, <1>11, QuietStep

LEMMA RecoverCandleStep ==
  ASSUME CollectorInv, NEW i \in Instances, RecoverCandle(i)
  PROVE  CollectorInv'
<1> DEFINE m      == InHand(i)
           answer == proc[i].answer
           h      == NextToStore(answer)
<1>1. /\ now' = now /\ omitted' = omitted /\ trade' = trade /\ Recovering(i)
      /\ answer # {} /\ (Fails \/ NoFail)
      /\ UNCHANGED <<matches, lease, pending, health, daily, sup>>
  BY DEF RecoverCandle
<1>2. m \in Markets /\ answer \in SUBSET Candles
  <2>1. m \in Markets /\ proc[i] \in ProcRow
    BY <1>1, InRecovery
  <2> QED BY <2>1 DEF ProcRow
<1>3. /\ h \in answer /\ \A g \in answer : h <= g
      /\ h \in Candles
  BY <1>1, <1>2, NextIsOldest
<1>4. \A x \in answer : \A g \in 0 .. x - 1 : Accounted(m, g) \/ g \in answer
  BY DEF CollectorInv, InstanceKnown
<1>5. \/ /\ StillToStore(i, answer \ {h}) /\ candle[<<m, h>>] = "NONE"
         /\ StoredRecovered(<<m, h>>)
      \/ /\ StillToStore(i, answer \ {h}) /\ candle[<<m, h>>] # "NONE"
         /\ UNCHANGED <<candle, decision>>
      \/ StillToStore(i, {}) /\ UNCHANGED <<candle, decision>>
  BY DEF RecoverCandle
<1> HIDE DEF m, answer, h
<1>6. \A g \in 0 .. h - 1 : Accounted(m, g)
  BY <1>2, <1>3, <1>4, ClockAssumption DEF Candles
<1>7. ASSUME StillToStore(i, answer \ {h}), candle'[<<m, h>>] # "NONE", CandlesKept
      PROVE  RowKept(i)
  <2> DEFINE rest == answer \ {h}
  <2>1. ASSUME NEW x \in rest, NEW g \in 0 .. x - 1
        PROVE  candle'[<<m, g>>] # "NONE" \/ <<m, g>> \in omitted' \/ g \in rest
    <3>1. Accounted(m, g) \/ g \in answer
      BY <1>4
    <3>2. g \in Candles
      BY <1>2, ClockAssumption DEF Candles
    <3>3. <<m, g>> \in Rows
      BY <1>2, <3>2 DEF Rows
    <3> QED BY <1>7, <3>1, <3>3 DEF Accounted, CandlesKept
  <2>2. rest \in SUBSET Candles
    BY <1>2
  <2>3. StillToStore(i, rest)
    BY <1>7
  <2> HIDE DEF rest
  <2> QED BY <1>1, <2>1, <2>2, <2>3, RestOfAnswer DEF m
<1>8. CASE UNCHANGED <<candle, decision>>
  <2>1. CandlesKept
    BY <1>1, <1>8 DEF CandlesKept
  <2>2. RowKept(i)
    <3>1. CASE StillToStore(i, {})
      BY <1>1, <3>1, MarketLeft
    <3>2. CASE StillToStore(i, answer \ {h}) /\ candle[<<m, h>>] # "NONE"
      BY <1>7, <1>8, <2>1, <3>2
    <3>3. CASE candle[<<m, h>>] = "NONE" /\ StoredRecovered(<<m, h>>)
      <4>1. candle'[<<m, h>>] = "RECOVERED"
        BY <1>2, <1>3, <3>3 DEF StoredRecovered, CollectorInv, TypeOK, Rows
      <4> QED BY <1>8, <3>3, <4>1
    <3> QED BY <1>5, <3>1, <3>2, <3>3
  <2>3. TypeOK'
    BY <1>1, <1>8, <2>2, FaultsBounded DEF CollectorInv, TypeOK, RowKept, ProcRow
  <2> QED BY <1>1, <1>8, <2>2, <2>3, QuietStep
<1>9. CASE /\ StillToStore(i, answer \ {h}) /\ candle[<<m, h>>] = "NONE"
           /\ StoredRecovered(<<m, h>>)
  <2>1. /\ candle' = [candle EXCEPT ![<<m, h>>] = "RECOVERED"]
        /\ decision' = [decision EXCEPT ![<<m, h>>] = "WAIT"]
    BY <1>9 DEF StoredRecovered
  <2>2. NoGaps' /\ CandlesKept /\ candle' \in [Rows -> CandleRow]
    BY <1>1, <1>2, <1>3, <1>6, <1>9, <2>1, CandleAdded DEF CollectorInv
  <2>3. <<m, h>> \in Rows
    BY <1>2, <1>3 DEF Rows
  <2>4. RowKept(i)
    <3>1. candle'[<<m, h>>] # "NONE"
      BY <2>1, <2>3 DEF CollectorInv, TypeOK
    <3> QED BY <1>7, <1>9, <2>2, <3>1
  <2>5. TypeOK'
    <3>1. decision' \in [Rows -> DecisionRow]
      BY <2>1 DEF CollectorInv, TypeOK, DecisionRow
    <3> QED BY <1>1, <2>2, <2>4, <3>1, FaultsBounded
            DEF CollectorInv, TypeOK, RowKept, ProcRow
  <2>6. TradeIsProspective'
    <3>1. ASSUME NEW r \in Rows, trade[r].status # "NONE"
          PROVE  decision'[r] = decision[r]
      <4>1. candle[r] # "NONE"
        BY <3>1 DEF CollectorInv, TradeIsProspective
      <4> QED BY <1>9, <2>1, <2>3, <4>1 DEF CollectorInv, TypeOK
    <3> QED BY <1>1, <2>2, <3>1, TradesKept DEF CollectorInv
  <2> QED BY <1>1, <2>2, <2>4, <2>5, <2>6, OwnStep DEF RowKept
<1> QED BY <1>5, <1>8, <1>9

LEMMA BeginCycleStep ==
  ASSUME CollectorInv, NEW i \in Instances, BeginCycle(i)
  PROVE  CollectorInv'
<1>1. RowKept(i)
  BY TakesMarkets, NothingHeld DEF BeginCycle, At, AtRecovery
<1>2. TypeOK'
  BY <1>1 DEF BeginCycle, CollectorInv, TypeOK, RowKept, ProcRow, rows, env
<1> QED BY <1>1, <1>2, QuietStep DEF BeginCycle, rows, env

LEMMA SnapshotStep ==
  ASSUME CollectorInv, NEW i \in Instances, Snapshot(i)
  PROVE  CollectorInv'
<1>1. now' = now /\ (Fails \/ NoFail) /\ proc[i].pc \in Handling
  BY DEF Snapshot, At, Handling
<1>2. RowKept(i)
  <2>1. CASE NextMarket(i, TRUE)
    BY <1>1, <2>1, MarketDone
  <2>2. CASE \E next \in {"CANDLES", "CLOSE"} :
               proc' = [proc EXCEPT ![i].pc = next, ![i].quote = now]
    <3>1. PICK next \in {"CANDLES", "CLOSE"} :
               proc' = [proc EXCEPT ![i].pc = next, ![i].quote = now]
      BY <2>2
    <3>2. proc \in [Instances -> ProcRow] /\ now \in 0 .. End /\ proc[i].todo # {}
      BY <1>1 DEF CollectorInv, TypeOK, ProcRow, InstanceKnown
    <3>3. /\ proc'[i].pc = next /\ proc'[i].todo = proc[i].todo
          /\ proc'[i].errs = proc[i].errs /\ proc'[i].quote = now /\ proc'[i].answer = {}
      BY <1>1, <3>1, <3>2, NothingHeld DEF Handling, AtRecovery
    <3>4. next \in States
      BY DEF States, Working, LoopStates
    <3>5. proc' \in [Instances -> ProcRow] /\ OthersStay(i)
      BY <3>1, <3>2, <3>4 DEF ProcRow, OthersStay
    <3> QED BY <1>1, <3>2, <3>3, <3>5, EndIsNat DEF CollectorInv, RowKept, InstanceKnown, StartingUp
  <2> QED BY <2>1, <2>2 DEF Snapshot
<1>3. TypeOK'
  BY <1>1, <1>2, FaultsBounded DEF Snapshot, CollectorInv, TypeOK, RowKept, ProcRow, rows
<1> QED BY <1>2, <1>3, QuietStep DEF Snapshot, rows

LEMMA CloseTradeStep ==
  ASSUME CollectorInv, NEW i \in Instances, CloseTrade(i)
  PROVE  CollectorInv'
<1>1. /\ now' = now /\ candle' = candle /\ decision' = decision /\ omitted' = omitted
      /\ proc[i].pc \in Handling /\ proc \in [Instances -> ProcRow]
      /\ proc[i].todo # {} /\ InHand(i) \in Markets
  <2>1. proc[i].pc \in Handling /\ proc \in [Instances -> ProcRow]
    BY DEF CloseTrade, At, Handling, CollectorInv, TypeOK, ProcRow
  <2>2. proc[i].todo # {} /\ proc[i].todo \in SUBSET Markets
    BY <2>1 DEF CollectorInv, InstanceKnown, ProcRow
  <2> QED BY <2>1, <2>2, InHandIsLeft DEF CloseTrade
<1>2. CASE NextMarket(i, TRUE) /\ NoFail /\ UNCHANGED <<trade, pending>>
  <2>1. RowKept(i)
    BY <1>1, <1>2, MarketDone
  <2>2. TypeOK'
    BY <1>1, <1>2, <2>1, FaultsBounded DEF CloseTrade, CollectorInv, TypeOK, RowKept, ProcRow
  <2> QED BY <1>1, <1>2, <2>1, <2>2, QuietStep
<1>3. ASSUME NEW h \in OpenTrades(InHand(i)),
             trade' = Closed(<<InHand(i), h>>),
             Deliver(pending \cup {<<"CLOSED", <<InHand(i), h>>>>}),
             Goto(i, "CANDLES")
      PROVE  CollectorInv'
  <2> DEFINE r == <<InHand(i), h>>
  <2>1. r \in Rows /\ trade[r].status = "OPEN" /\ trade \in [Rows -> TradeRow]
    BY <1>1 DEF OpenTrades, Rows, CollectorInv, TypeOK
  <2>2. /\ proc'[i].pc = "CANDLES" /\ proc'[i].todo = proc[i].todo
        /\ proc'[i].errs = proc[i].errs /\ proc'[i].quote = proc[i].quote
        /\ proc'[i].answer = {}
    BY <1>1, <1>3, NothingHeld DEF Goto, Handling, AtRecovery
  <2>3. "CANDLES" \in States
    BY DEF States, Working, LoopStates
  <2>4. proc' \in [Instances -> ProcRow] /\ OthersStay(i)
    BY <1>1, <1>3, <2>3 DEF Goto, ProcRow, OthersStay
  <2>5. InstanceKnown(i)'
    BY <1>1, <2>2 DEF CollectorInv, InstanceKnown, StartingUp
  <2>6. pending' \subseteq TradeEvents /\ faults' \in 0 .. MaxFaults
    <3>1. pending \cup {<<"CLOSED", r>>} \in SUBSET TradeEvents
      BY <2>1 DEF CollectorInv, TypeOK, TradeEvents
    <3> QED BY <1>3, <3>1, Delivered DEF CollectorInv
  <2> HIDE DEF r
  <2>7. trade' = [trade EXCEPT ![r].status = "CLOSED"]
    BY <1>3 DEF Closed, r
  <2>8. trade' \in [Rows -> TradeRow]
    BY <2>1, <2>7 DEF TradeRow
  <2>9. TypeOK'
    BY <1>1, <2>4, <2>6, <2>8 DEF CloseTrade, CollectorInv, TypeOK, ProcRow
  <2>10. NoGaps' /\ CandlesKept
    BY <1>1, GapsKept DEF CollectorInv
  <2>11. TradeIsProspective'
    <3>1. ASSUME NEW s \in Rows, trade'[s].status # "NONE"
          PROVE  trade[s].status # "NONE" /\ trade'[s].opened = trade[s].opened
      BY <2>1, <2>7, <3>1 DEF TradeRow
    <3> QED BY <1>1, <2>10, <3>1, TradesKept DEF CollectorInv
  <2> QED BY <1>1, <2>4, <2>5, <2>9, <2>10, <2>11, OwnStep
<1> QED BY <1>2, <1>3 DEF CloseTrade

LEMMA ProcessCandlesStep ==
  ASSUME CollectorInv, NEW i \in Instances, ProcessCandles(i)
  PROVE  CollectorInv'
<1> DEFINE m     == InHand(i)
           start == LastOpen(m) + 1
           q     == proc[i].quote
           end   == q \div Hour
<1>1. /\ now' = now /\ candle' = candle /\ omitted' = omitted /\ (Fails \/ NoFail)
      /\ proc[i].pc \in Handling /\ proc \in [Instances -> ProcRow]
      /\ proc[i].todo # {} /\ m \in Markets /\ q \in 0 .. End /\ q <= now
  <2>1. proc[i].pc \in Handling /\ proc \in [Instances -> ProcRow]
    BY DEF ProcessCandles, At, Handling, CollectorInv, TypeOK, ProcRow
  <2>2. /\ proc[i].todo # {} /\ proc[i].todo \in SUBSET Markets
        /\ q \in 0 .. End /\ q <= now
    BY <2>1 DEF CollectorInv, InstanceKnown, ProcRow
  <2> QED BY <2>1, <2>2, InHandIsLeft DEF ProcessCandles, rows
<1>2. RowKept(i)
  <2>1. CASE \E failed \in BOOLEAN : NextMarket(i, failed)
    BY <1>1, <2>1, MarketDone
  <2>2. CASE start < end /\ ~TooLate(start, end) /\ Goto(i, "SAVE")
    <3>1. /\ proc'[i].pc = "SAVE" /\ proc'[i].todo = proc[i].todo
          /\ proc'[i].errs = proc[i].errs /\ proc'[i].quote = q /\ proc'[i].answer = {}
      BY <1>1, <2>2, NothingHeld DEF Goto, Handling, AtRecovery
    <3>2. "SAVE" \in States
      BY DEF States, Working, LoopStates
    <3>3. proc' \in [Instances -> ProcRow] /\ OthersStay(i)
      BY <1>1, <2>2, <3>2 DEF Goto, ProcRow, OthersStay
    <3>4. /\ end \in 0 .. Hours /\ end * Hour <= q /\ end * Hour \in Int
          /\ now \in Int /\ q \in Int
      <4>1. end \in 0 .. Hours /\ end * Hour <= q
        BY <1>1, HourOf
      <4> HIDE DEF end
      <4> QED BY <1>1, <4>1, ClockAssumption, EndIsNat DEF CollectorInv, TypeOK
    <3>5. /\ start \in Nat /\ \A g \in 0 .. start - 1 : Accounted(m, g)
      <4> HIDE DEF m
      <4>1. LastOpen(m) \in Int /\ LastOpen(m) + 1 \in Nat
        BY <1>1, LastOpenIsNewest, NextIsMissing, ClockAssumption DEF CollectorInv
      <4>2. 0 .. start - 1 = 0 .. LastOpen(m)
        BY <4>1
      <4> QED BY <1>1, <4>1, <4>2, NextIsMissing DEF CollectorInv
    <3>6. Row(i) = <<m, end - 1>> /\ Row(i)' = <<m, end - 1>> /\ InHand(i)' = m
      BY <3>1 DEF Row, InHand
    <3> HIDE DEF start, end, m, q
    <3>7. start = end - 1 /\ now - end * Hour <= Grace
      BY <2>2, <3>4, <3>5, ClockAssumption DEF TooLate
    <3>8. end - 1 \in Candles /\ q - end * Hour \in 0 .. Grace /\ (end - 1) + 1 = end
      BY <1>1, <3>4, <3>5, <3>7, ClockAssumption DEF Candles
    <3>9. Row(i)' \in Rows /\ Row(i)'[2] = end - 1 /\ Prospective(q, end - 1)
      BY <1>1, <3>6, <3>8 DEF Rows, Prospective
    <3>10. \A g \in 0 .. end - 2 : candle'[<<m, g>>] # "NONE" \/ <<m, g>> \in omitted'
      BY <1>1, <3>4, <3>5, <3>7 DEF Accounted
    <3>11. /\ proc[i].errs + Cardinality(proc[i].todo) <= Cardinality(Markets)
           /\ proc'[i].quote <= now'
      BY <1>1, <3>1 DEF CollectorInv, InstanceKnown, q
    <3>12. (Prospective(proc[i].quote, Row(i)[2]))'
      BY <3>1, <3>9 DEF Prospective
    <3>13. \A g \in 0 .. Row(i)'[2] - 1 : Accounted(InHand(i), g)'
      BY <3>4, <3>6, <3>9, <3>10 DEF Accounted
    <3> QED BY <1>1, <3>1, <3>3, <3>9, <3>11, <3>12, <3>13
            DEF RowKept, InstanceKnown, StartingUp
  <2> QED BY <2>1, <2>2 DEF ProcessCandles
<1>3. TypeOK'
  BY <1>1, <1>2, FaultsBounded DEF ProcessCandles, CollectorInv, TypeOK, RowKept, ProcRow, rows
<1> QED BY <1>2, <1>3, QuietStep DEF ProcessCandles, rows

\* What an instance that is about to write has in hand.
LEMMA RowInHand ==
  ASSUME CollectorInv, NEW i \in Instances, proc[i].pc \in {"SAVE", "RECORD"}
  PROVE  /\ proc[i].pc \in Handling /\ proc \in [Instances -> ProcRow]
         /\ proc[i].todo # {} /\ InHand(i) \in Markets /\ Row(i) \in Rows
         /\ Row(i)[2] \in Candles /\ Row(i) = <<InHand(i), Row(i)[2]>>
         /\ proc[i].quote \in 0 .. End
<1>1. proc[i].pc \in Handling /\ proc \in [Instances -> ProcRow]
  BY DEF Handling, CollectorInv, TypeOK, ProcRow
<1>2. /\ proc[i].todo # {} /\ proc[i].todo \in SUBSET Markets /\ Row(i) \in Rows
      /\ proc[i].quote \in 0 .. End
  BY <1>1 DEF CollectorInv, InstanceKnown, ProcRow
<1>3. Row(i)[2] \in Candles /\ Row(i) = <<InHand(i), Row(i)[2]>>
  BY <1>2 DEF Rows, Row
<1> QED BY <1>1, <1>2, <1>3, InHandIsLeft

LEMMA SaveCandleStep ==
  ASSUME CollectorInv, NEW i \in Instances, SaveCandle(i)
  PROVE  CollectorInv'
<1>1. /\ proc[i].pc \in Handling /\ proc \in [Instances -> ProcRow]
      /\ proc[i].todo # {} /\ InHand(i) \in Markets /\ Row(i) \in Rows
      /\ Row(i)[2] \in Candles /\ Row(i) = <<InHand(i), Row(i)[2]>>
      /\ now' = now /\ faults' = faults /\ omitted' = omitted /\ proc[i].pc = "SAVE"
  BY RowInHand DEF SaveCandle, At, env
<1>2. faults' \in 0 .. MaxFaults
  BY <1>1 DEF CollectorInv, TypeOK
<1>3. CASE candle[Row(i)] # "NONE"
  <2>1. RowKept(i) /\ candle' = candle
    BY <1>1, <1>3, MarketDone DEF SaveCandle
  <2>2. TypeOK'
    BY <2>1, <1>2 DEF SaveCandle, CollectorInv, TypeOK, RowKept, ProcRow, env
  <2> QED BY <2>1, <2>2, QuietStep DEF SaveCandle, env
<1>4. CASE candle[Row(i)] = "NONE"
  <2> DEFINE m == InHand(i)
             h == Row(i)[2]
  <2>1. Goto(i, "RECORD") /\ candle' = [candle EXCEPT ![<<m, h>>] = "LIVE"]
    BY <1>1, <1>4 DEF SaveCandle, Stored
  <2>2. NoGaps' /\ CandlesKept /\ candle' \in [Rows -> CandleRow]
    <3>1. \A g \in 0 .. h - 1 : Accounted(m, g)
      BY <1>1 DEF CollectorInv, InstanceKnown
    <3>2. candle[<<m, h>>] = "NONE" /\ m \in Markets /\ h \in Candles
      BY <1>1, <1>4
    <3> HIDE DEF m, h
    <3> QED BY <1>1, <2>1, <3>1, <3>2, CandleAdded DEF CollectorInv
  <2>3. /\ proc'[i].pc = "RECORD" /\ proc'[i].todo = proc[i].todo
        /\ proc'[i].errs = proc[i].errs /\ proc'[i].quote = proc[i].quote
        /\ proc'[i].answer = {}
    BY <1>1, <2>1, NothingHeld DEF Goto, Handling, AtRecovery
  <2>4. "RECORD" \in States
    BY DEF States, Working, LoopStates
  <2>5. proc' \in [Instances -> ProcRow] /\ OthersStay(i)
    BY <1>1, <2>1, <2>4 DEF Goto, ProcRow, OthersStay
  <2>6. Row(i)' = Row(i) /\ candle'[Row(i)] = "LIVE"
    <3>1. Row(i)' = Row(i)
      BY <2>3 DEF Row, InHand
    <3>2. candle' = [candle EXCEPT ![Row(i)] = "LIVE"] /\ candle \in [Rows -> CandleRow]
      BY <1>1, <2>1 DEF CollectorInv, TypeOK
    <3> QED BY <1>1, <3>1, <3>2
  <2>7. InstanceKnown(i)'
    BY <1>1, <2>3, <2>6 DEF CollectorInv, InstanceKnown, StartingUp, Prospective
  <2>8. TypeOK'
    BY <1>2, <2>2, <2>5 DEF SaveCandle, CollectorInv, TypeOK, ProcRow, env
  <2>9. TradeIsProspective'
    BY <2>2, TradesKept DEF SaveCandle, CollectorInv
  <2> QED BY <1>1, <2>2, <2>5, <2>7, <2>8, <2>9, OwnStep
<1> QED BY <1>3, <1>4

LEMMA RecordDecisionStep ==
  ASSUME CollectorInv, NEW i \in Instances, RecordDecision(i)
  PROVE  CollectorInv'
<1> DEFINE r == Row(i)
<1>1. /\ proc[i].pc \in Handling /\ proc \in [Instances -> ProcRow] /\ r \in Rows
      /\ proc[i].quote \in 0 .. End /\ now' = now /\ candle' = candle
      /\ proc[i].pc = "RECORD" /\ omitted' = omitted
  BY RowInHand DEF RecordDecision, At
<1>2. /\ candle[r] = "LIVE" /\ proc[i].quote - (r[2] + 1) * Hour \in 0 .. Grace
  BY <1>1 DEF CollectorInv, InstanceKnown, Prospective
<1>3. RowKept(i)
  BY <1>1, MarketDone DEF RecordDecision
<1>4. NoGaps' /\ CandlesKept
  BY <1>1, GapsKept DEF CollectorInv
<1> HIDE DEF r
<1>5. CASE UNCHANGED <<decision, trade, pending>> /\ (Fails \/ NoFail)
  <2>1. TypeOK'
    BY <1>3, <1>5, FaultsBounded DEF RecordDecision, CollectorInv, TypeOK, RowKept, ProcRow
  <2> QED BY <1>1, <1>3, <1>5, <2>1, QuietStep
<1>6. ASSUME Undecided(r), NEW verdict \in Verdicts(InHand(i)),
             decision' = [decision EXCEPT ![r] = verdict],
             IF verdict = "ALLOW"
             THEN /\ trade' = Opened(r, proc[i].quote)
                  /\ Deliver(pending \cup IF \A s \in Rows : trade[s].status = "NONE"
                                          THEN {<<"FIRST", r>>} ELSE {})
             ELSE NoFail /\ UNCHANGED <<trade, pending>>
      PROVE  CollectorInv'
  <2>1. trade[r].status = "NONE" /\ decision[r] = "NONE" /\ trade \in [Rows -> TradeRow]
    BY <1>1, <1>6 DEF Undecided, CollectorInv, TradeIsProspective, TypeOK
  <2>2. verdict \in {"WAIT", "REJECT", "ALLOW"}
    BY DEF Verdicts
  <2>3. decision' \in [Rows -> DecisionRow] /\ decision'[r] = verdict
        /\ \A s \in Rows : s # r => decision'[s] = decision[s]
    BY <1>1, <1>6, <2>2 DEF CollectorInv, TypeOK, DecisionRow
  <2>4. CASE verdict # "ALLOW"
    <3>1. trade' = trade /\ pending' = pending /\ NoFail
      BY <1>6, <2>4
    <3>2. TypeOK'
      BY <1>3, <2>3, <3>1, FaultsBounded DEF RecordDecision, CollectorInv, TypeOK, RowKept, ProcRow
    <3>3. TradeIsProspective'
      BY <1>4, <2>1, <2>3, <3>1, TradesKept DEF CollectorInv
    <3> QED BY <1>1, <1>3, <1>4, <3>2, <3>3, OwnStep DEF RowKept
  <2>5. CASE verdict = "ALLOW"
    <3>1. trade' = [trade EXCEPT ![r] = [status |-> "OPEN", opened |-> proc[i].quote]]
      BY <1>6, <2>5 DEF Opened
    <3>2. pending' \subseteq TradeEvents /\ faults' \in 0 .. MaxFaults
      <4> DEFINE queue == pending \cup IF \A s \in Rows : trade[s].status = "NONE"
                                       THEN {<<"FIRST", r>>} ELSE {}
      <4>1. queue \in SUBSET TradeEvents
        BY <1>1 DEF CollectorInv, TypeOK, TradeEvents
      <4>2. Deliver(queue)
        BY <1>6, <2>5
      <4> HIDE DEF queue
      <4> QED BY <4>1, <4>2, Delivered DEF CollectorInv
    <3>3. trade' \in [Rows -> TradeRow]
      BY <1>1, <2>1, <3>1 DEF TradeRow
    <3>4. TypeOK'
      BY <1>3, <2>3, <3>2, <3>3 DEF RecordDecision, CollectorInv, TypeOK, RowKept, ProcRow
    <3>5. ASSUME NEW s \in Rows, trade'[s].status # "NONE"
          PROVE  /\ candle'[s] = "LIVE" /\ decision'[s] = "ALLOW"
                 /\ trade'[s].opened - (s[2] + 1) * Hour \in 0 .. Grace
      <4>1. CASE s = r
        BY <1>1, <1>2, <2>1, <2>3, <2>5, <3>1, <4>1
      <4>2. CASE s # r
        <5>1. trade'[s] = trade[s] /\ decision'[s] = decision[s]
          BY <2>1, <2>3, <3>1, <4>2
        <5> QED BY <1>1, <3>5, <5>1 DEF CollectorInv, TradeIsProspective
      <4> QED BY <4>1, <4>2
    <3>6. TradeIsProspective'
      BY <3>5 DEF TradeIsProspective
    <3> QED BY <1>1, <1>3, <1>4, <3>4, <3>6, OwnStep DEF RowKept
  <2> QED BY <2>4, <2>5
<1>7. \/ UNCHANGED <<decision, trade, pending>> /\ (Fails \/ NoFail)
      \/ /\ Undecided(r)
         /\ \E verdict \in Verdicts(InHand(i)) :
              /\ decision' = [decision EXCEPT ![r] = verdict]
              /\ IF verdict = "ALLOW"
                 THEN /\ trade' = Opened(r, proc[i].quote)
                      /\ Deliver(pending \cup IF \A s \in Rows : trade[s].status = "NONE"
                                              THEN {<<"FIRST", r>>} ELSE {})
                 ELSE NoFail /\ UNCHANGED <<trade, pending>>
  BY DEF RecordDecision, r
<1> QED BY <1>5, <1>6, <1>7

LEMMA EndCycleStep ==
  ASSUME CollectorInv, NEW i \in Instances, EndCycle(i)
  PROVE  CollectorInv'
<1>1. RowKept(i)
  BY TakesMarkets, NothingHeld DEF EndCycle, At, AtRecovery
<1>2. pending' \subseteq TradeEvents /\ faults' \in 0 .. MaxFaults
  BY Delivered DEF EndCycle, CollectorInv, TypeOK
<1>3. health' \in HealthRow
  <2>1. Graded(proc[i].errs) \in {"HEALTHY", "DEGRADED", "OFFLINE"}
    BY DEF Graded
  <2> QED BY <2>1, HealthKept DEF EndCycle, CollectorInv
<1>4. daily' \in [Days -> DailyRow]
  BY DayKept DEF EndCycle, CollectorInv
<1>5. TypeOK'
  BY <1>1, <1>2, <1>3, <1>4 DEF EndCycle, CollectorInv, TypeOK, RowKept, ProcRow
<1> QED BY <1>1, <1>5, QuietStep DEF EndCycle

LEMMA HeartbeatStep ==
  ASSUME CollectorInv, NEW i \in Instances, Heartbeat(i)
  PROVE  CollectorInv'
<1>1. daily' \in [Days -> DailyRow] /\ (Fails \/ NoFail)
  BY DayKept DEF Heartbeat, CollectorInv, TypeOK
<1>2. CASE Beats(i)
  <2>1. RowKept(i)
    <3>1. "IDLE" \in States \ (Handling \cup AtRecovery) /\ "IDLE" \notin StartingUp
      BY DEF States, Working, LoopStates, Handling, AtRecovery, StartingUp
    <3> QED BY <1>2, <3>1, GoesOn, NothingHeld DEF Heartbeat, AtRecovery
  <2>2. lease' \in CollectorRow
    <3> DEFINE st == IF At(i, "BEAT0") \/ health.status = "HEALTHY"
                     THEN "RUNNING" ELSE "DEGRADED"
    <3>1. st \in Alive /\ Beat(st)
      BY <1>2 DEF Heartbeat, Alive
    <3> HIDE DEF st
    <3>2. 0 \in 0 .. MaxAge + 1 /\ Lease \in 0 .. Lease /\ st \in Alive \cup {"STOPPED"}
          /\ lease \in CollectorRow
      BY <3>1, ClockAssumption DEF CollectorInv, TypeOK
    <3> QED BY <3>1, <3>2 DEF Beat, CollectorRow
  <2>3. TypeOK'
    BY <1>1, <2>1, <2>2, FaultsBounded DEF Heartbeat, CollectorInv, TypeOK, RowKept, ProcRow, rows
  <2> QED BY <2>1, <2>3, QuietStep DEF Heartbeat, rows
<1>3. CASE ~Beats(i)
  <2>1. sup' \in [Instances -> {"UP", "STOPPED"}]
    BY DEF Heartbeat, CollectorInv, TypeOK
  <2> QED BY <1>1, <1>3, <2>1, EndOfChild DEF Heartbeat
<1> QED BY <1>2, <1>3

(***************************************************************************)
(* Failures and the clock                                                  *)
(***************************************************************************)

LEMMA HangStep ==
  ASSUME CollectorInv, NEW i \in Instances, Hang(i)
  PROVE  CollectorInv'
<1> DEFINE p == [NoChild EXCEPT !.pc = "HUNG", !.age = proc[i].age]
<1>1. proc[i] \in ProcRow
  BY DEF CollectorInv, TypeOK, ProcRow
<1>2. /\ p.pc = "HUNG" /\ p.age = proc[i].age /\ p.quote = 0
      /\ p.errs = NoChild.errs /\ p.todo = NoChild.todo /\ p.answer = {}
  BY DEF NoChild
<1>3. p \in ProcRow
  <2>1. "HUNG" \in States /\ proc[i].age \in 0 .. MaxAge
    BY <1>1 DEF States, ProcRow
  <2> QED BY <2>1, NoChildIsIdle DEF ProcRow
<1>4. p.pc \notin Handling \cup AtRecovery \cup StartingUp
  BY <1>2 DEF Handling, AtRecovery, StartingUp
<1>5. proc' = [proc EXCEPT ![i] = p] /\ now' = now
  BY DEF Hang
<1> HIDE DEF p
<1>6. RowKept(i)
  BY <1>2, <1>3, <1>4, <1>5, NoChildIsIdle, IdleRow
<1>7. TypeOK'
  BY <1>6, FaultsBounded DEF Hang, CollectorInv, TypeOK, RowKept, ProcRow, rows
<1> QED BY <1>6, <1>7, QuietStep DEF Hang, rows

LEMMA DisruptionStep ==
  ASSUME CollectorInv, NEW i \in Instances, Watchdog(i) \/ Disruption(i)
  PROVE  CollectorInv'
<1>1. /\ sup \in [Instances -> {"UP", "STOPPED"}]
      /\ daily \in [Days -> DailyRow]
  BY DEF CollectorInv, TypeOK
<1>2. CASE Watchdog(i)
  BY <1>1, <1>2, EndOfChild DEF Watchdog, Stop
<1>3. CASE CollectorFails(i)
  BY <1>1, <1>3, EndOfChild DEF CollectorFails
<1>4. CASE Crash(i)
  BY <1>1, <1>4, EndOfChild DEF Crash
<1>5. CASE Hang(i)
  BY <1>5, HangStep
<1>6. CASE Undeploy(i)
  <2>1. sup' \in [Instances -> {"UP", "STOPPED"}]
    BY <1>1, <1>6 DEF Undeploy
  <2> QED BY <1>1, <1>6, <2>1, EndOfChild DEF Undeploy, Stop
<1> QED BY <1>2, <1>3, <1>4, <1>5, <1>6 DEF Disruption

LEMMA TickStep ==
  ASSUME CollectorInv, Tick
  PROVE  CollectorInv'
<1>1. /\ now \in 0 .. End /\ End \in Nat /\ lease \in CollectorRow
      /\ proc \in [Instances -> ProcRow] /\ (Fails \/ NoFail)
      /\ candle' = candle /\ decision' = decision /\ trade' = trade /\ omitted' = omitted
  BY EndIsNat DEF CollectorInv, TypeOK, ProcRow, Tick, rows
<1>2. now' \in 0 .. End /\ now' >= now
  <2>1. now' = IF End <= now + 1 THEN End ELSE now + 1
    BY <1>1, MinOfTwo DEF Tick
  <2> QED BY <1>1, <2>1
<1>3. lease' \in CollectorRow
  <2> DEFINE l == Max({0, lease.left - 1})
             b == Min({MaxAge + 1, lease.beat + 1})
  <2>1. lease.left \in 0 .. Lease /\ lease.beat \in 0 .. MaxAge + 1
    BY <1>1 DEF CollectorRow
  <2>2. l \in 0 .. Lease
    BY <2>1, ClockAssumption, MaxOfTwo
  <2>3. b \in 0 .. MaxAge + 1
    BY <2>1, ClockAssumption, MinOfTwo
  <2>4. lease' = [lease EXCEPT !.left = l, !.beat = b]
    BY <1>1 DEF Tick, CollectorRow
  <2> HIDE DEF l, b
  <2> QED BY <1>1, <2>2, <2>3, <2>4 DEF CollectorRow
<1>4. ASSUME NEW j \in Instances
      PROVE  /\ proc'[j] \in ProcRow /\ proc'[j].pc = proc[j].pc
             /\ proc'[j].todo = proc[j].todo /\ proc'[j].errs = proc[j].errs
             /\ proc'[j].quote = proc[j].quote /\ proc'[j].answer = proc[j].answer
  <2> DEFINE a == Min({MaxAge, proc[j].age + 1})
  <2>1. proc[j] \in ProcRow /\ proc[j].age \in 0 .. MaxAge
    BY <1>1 DEF ProcRow
  <2>2. a \in 0 .. MaxAge
    BY <2>1, ClockAssumption, MinOfTwo
  <2>3. proc'[j] = proc[j] \/ proc'[j] = [proc[j] EXCEPT !.age = a]
    <3>1. proc'[j] = IF At(j, "DOWN") THEN proc[j]
                     ELSE [proc[j] EXCEPT !.age = Min({MaxAge, proc[j].age + 1})]
      BY DEF Tick
    <3> HIDE DEF At
    <3> QED BY <3>1
  <2> HIDE DEF a
  <2> QED BY <2>1, <2>2, <2>3 DEF ProcRow
<1>5. proc' \in [Instances -> ProcRow]
  <2>1. proc' = [j \in Instances |-> proc'[j]]
    BY DEF Tick
  <2> QED BY <1>4, <2>1
<1>6. TypeOK'
  BY <1>1, <1>2, <1>3, <1>5, FaultsBounded DEF Tick, CollectorInv, TypeOK, ProcRow, rows
<1>7. NoGaps' /\ CandlesKept
  BY <1>1, GapsKept DEF CollectorInv
<1>8. TradeIsProspective'
  BY <1>1, <1>7, TradesKept DEF CollectorInv
<1>9. \A j \in Instances : InstanceKnown(j)'
  BY <1>2, <1>4, <1>7, StillKnown DEF CollectorInv
<1> QED BY <1>6, <1>7, <1>8, <1>9 DEF CollectorInv

(***************************************************************************)
(* The theorems                                                            *)
(***************************************************************************)

LEMMA InitCollectorInv == Init => CollectorInv
<1> SUFFICES ASSUME Init PROVE CollectorInv
  OBVIOUS
<1>1. 0 \in 0 .. End /\ 0 \in 0 .. Lease /\ MaxAge + 1 \in 0 .. MaxAge + 1
      /\ 0 \in 0 .. OfflineAfter /\ 0 \in 0 .. MaxFaults
  BY EndIsNat, ClockAssumption
<1>2. proc \in [Instances -> ProcRow] /\ \A i \in Instances : proc[i] = NoChild
  BY NoChildIsIdle DEF Init
<1>3. TypeOK
  BY <1>1, <1>2 DEF Init, TypeOK, CollectorRow, CandleRow, DecisionRow, TradeRow,
                    HealthRow, DailyRow, ProcRow
<1>4. \A i \in Instances : InstanceKnown(i)
  <2>1. NoChild.quote = 0 /\ NoChild.pc = "DOWN" /\ NoChild.answer = {}
    BY DEF NoChild
  <2> QED BY <1>1, <1>2, <2>1, NoChildIsIdle DEF InstanceKnown, Init, Handling, AtRecovery
<1>5. NoGaps /\ TradeIsProspective
  <2>1. \A m \in Markets : Saved(m) = {}
    BY DEF Init, Saved, Rows
  <2>2. \A r \in Rows : trade[r].status = "NONE"
    BY DEF Init
  <2> QED BY <2>1, <2>2 DEF NoGaps, TradeIsProspective
<1> QED BY <1>3, <1>4, <1>5 DEF CollectorInv

LEMMA NextCollectorInv == CollectorInv /\ [Next]_vars => CollectorInv'
<1> SUFFICES ASSUME CollectorInv, [Next]_vars PROVE CollectorInv'
  OBVIOUS
<1>1. CASE Tick
  BY <1>1, TickStep
<1>2. ASSUME NEW i \in Instances, Startup(i) PROVE CollectorInv'
  BY <1>2, StartStep, AcquireLeaseStep, RecordRuntimeStep, RepairOrphansStep DEF Startup
<1>3. ASSUME NEW i \in Instances, Recovery(i) PROVE CollectorInv'
  BY <1>3, AskCandlesStep, RecoverCandleStep DEF Recovery
<1>4. ASSUME NEW i \in Instances, Cycle(i) PROVE CollectorInv'
  BY <1>4, BeginCycleStep, SnapshotStep, CloseTradeStep, ProcessCandlesStep,
     SaveCandleStep, RecordDecisionStep, EndCycleStep, HeartbeatStep DEF Cycle
<1>5. ASSUME NEW i \in Instances, Watchdog(i) \/ Disruption(i) PROVE CollectorInv'
  BY <1>5, DisruptionStep
<1>6. CASE UNCHANGED vars
  <2> USE <1>6 DEF vars
  <2>1. TypeOK'
    BY DEF CollectorInv, TypeOK
  <2>2. NoGaps' /\ CandlesKept
    BY GapsKept DEF CollectorInv
  <2>3. TradeIsProspective'
    BY <2>2, TradesKept DEF CollectorInv
  <2>4. \A j \in Instances : InstanceKnown(j)'
    BY <2>2, StillKnown, EndIsNat DEF CollectorInv, TypeOK
  <2> QED BY <2>1, <2>2, <2>3, <2>4 DEF CollectorInv
<1> QED BY <1>1, <1>2, <1>3, <1>4, <1>5, <1>6 DEF Next

LEMMA CollectorInvHolds == Spec => []CollectorInv
<1> QED BY InitCollectorInv, NextCollectorInv, PTL DEF Spec

\* Every row of the database and of the processes keeps its type.
THEOREM CollectorTypeCorrect == Spec => []TypeOK
<1>1. CollectorInv => TypeOK
  BY DEF CollectorInv
<1> QED BY <1>1, CollectorInvHolds, PTL

\* Whatever instances overlap, hang or die, whichever path stores a candle and
\* whoever holds the lease, last_candle_open never moves past a candle of the
\* market that was not asked for: below a stored candle one is missing only if
\* the provider left it out of an answer that had a later one.
THEOREM Gapless == Spec => []NoGaps
<1>1. CollectorInv => NoGaps
  BY DEF CollectorInv
<1> QED BY <1>1, CollectorInvHolds, PTL

\* No recovered, repaired or late candle ever gets a shadow trade.
THEOREM TradesProspective == Spec => []TradeIsProspective
<1>1. CollectorInv => TradeIsProspective
  BY DEF CollectorInv
<1> QED BY <1>1, CollectorInvHolds, PTL

(***************************************************************************)
(* The size of a trade                                                     *)
(***************************************************************************)

LEMMA RoundTyped ==
  ASSUME NEW m \in Int, NEW n \in Nat \ {0}
  PROVE  RoundHalfEven(m, n) \in Int
<1>1. m \div n \in Int
  OBVIOUS
<1> DEFINE q == m \div n
<1>2. RoundHalfEven(m, n) \in {q, q + 1}
  BY DEF RoundHalfEven
<1> HIDE DEF q
<1>3. q \in Int
  BY <1>1 DEF q
<1> QED BY <1>2, <1>3

\* The smallest of four sizes.
LEMMA LeastOfFour ==
  ASSUME NEW i \in Int, NEW j \in Int, NEW k \in Int, NEW l \in Int
  PROVE  Min({i, j, k, l}) \in Int /\ Min({i, j, k, l}) <= i
<1> DEFINE S == {i, j, k, l}
<1>1. \E x \in S : \A y \in S : x <= y
  <2>1. CASE i <= j /\ i <= k /\ i <= l BY <2>1
  <2>2. CASE j <= i /\ j <= k /\ j <= l BY <2>2
  <2>3. CASE k <= i /\ k <= j /\ k <= l BY <2>3
  <2>4. CASE l <= i /\ l <= j /\ l <= k BY <2>4
  <2> QED BY <2>1, <2>2, <2>3, <2>4
<1>2. Min(S) \in S /\ \A y \in S : Min(S) <= y
  <2> HIDE DEF S
  <2> QED BY <1>1 DEF Min
<1> QED BY <1>2

\* The fields of a trade intent that its size depends on.
Sized(n) ==
    /\ n.side \in Side /\ n.entry \in Int /\ n.stop \in Int
    /\ n.equity \in Int /\ n.leverage \in Int /\ n.available \in Int
    /\ n.entry > 0 /\ PerUnitRisk(n) > 0

\* The size is a whole number of lots, and risks no more than the profile's share.
LEMMA QuantityIsBounded ==
  ASSUME NEW n, Sized(n)
  PROVE  /\ RiskAmount(n.equity) \in Int
         /\ ApprovedQuantity(n) \in Int
         /\ ApprovedQuantity(n) * (PerUnitRisk(n) * Unit) <= RiskAmount(n.equity)
<1> DEFINE r == PerUnitRisk(n) * Unit
           e == n.entry * Unit
           amount == RiskAmount(n.equity)
           own == n.equity * n.leverage
           free == n.available * n.leverage
<1>1. /\ Unit \in Nat /\ Unit > 0 /\ Cent \in Nat /\ Cent > 0 /\ RiskPct \in Nat
      /\ MaxNotional \in Nat /\ Hundred = 100
  BY ProfileAssumption DEF Hundred
<1>2. PerUnitRisk(n) \in Int /\ PerUnitRisk(n) > 0
  BY DEF Sized, PerUnitRisk, Sign
<1>3. r \in Int /\ r > 0
  <2> DEFINE risk == PerUnitRisk(n)
  <2>1. risk \in Int /\ risk > 0
    BY <1>2
  <2> HIDE DEF risk
  <2>2. risk * Unit \in Int /\ risk * Unit > 0
    BY <1>1, <2>1
  <2> QED BY <2>2 DEF risk
<1>4. e \in Int /\ e > 0
  <2> DEFINE price == n.entry
  <2>1. price \in Int /\ price > 0
    BY DEF Sized
  <2> HIDE DEF price
  <2>2. price * Unit \in Int /\ price * Unit > 0
    BY <1>1, <2>1
  <2> QED BY <2>2 DEF price
<1>5. amount \in Int
  <2>1. n.equity * RiskPct \in Int /\ Hundred * Cent \in Nat \ {0}
    BY <1>1 DEF Sized
  <2>2. RoundHalfEven(n.equity * RiskPct, Hundred * Cent) \in Int
    BY <2>1, RoundTyped
  <2> QED BY <1>1, <2>2 DEF RiskAmount
<1>6. own \in Int /\ free \in Int
  BY DEF Sized
<1> DEFINE q == ApprovedQuantity(n)
<1>7. q = Min({amount \div r, MaxNotional \div e, own \div e, free \div e})
  BY DEF ApprovedQuantity
<1> HIDE DEF r, e, amount, own, free, q
<1>8. /\ amount \div r \in Int /\ MaxNotional \div e \in Int /\ own \div e \in Int
      /\ free \div e \in Int
  BY <1>1, <1>3, <1>4, <1>5, <1>6
<1>9. q \in Int /\ q <= amount \div r
  BY <1>7, <1>8, LeastOfFour
<1>10. (amount \div r) * r <= amount
  BY <1>3, <1>5
<1>11. q * r <= (amount \div r) * r
  <2> DEFINE d == amount \div r
  <2>1. d \in Int /\ q <= d
    BY <1>8, <1>9
  <2> HIDE DEF d
  <2>2. q * r <= d * r
    BY <1>3, <1>9, <2>1
  <2> QED BY <2>2 DEF d
<1>12. q * r \in Int /\ (amount \div r) * r \in Int
  BY <1>3, <1>8, <1>9
<1>13. q * r <= amount
  BY <1>5, <1>10, <1>11, <1>12
<1> QED BY <1>5, <1>9, <1>13 DEF r, amount, q

(***************************************************************************)
(* The inductive invariant of the backtest                                 *)
(***************************************************************************)

\* What the first k - 1 trades of a log leave in the balance.
Before(log, k) == StartingBalance + SumFunction([j \in 1 .. k - 1 |-> log[j].pnl])

\* What they realized on the day of this time.
ThatDay(log, k, t) ==
    SumFunction([j \in {i \in 1 .. k - 1 : Day(log[i].closed) = Day(t)} |-> log[j].pnl])

\* The k-th trade may be opened at this time.
EntryAllowed(log, k, t) ==
    /\ Hundred * ThatDay(log, k, t) > -(Before(log, k) * DailyLossPct)
    /\ k > 1 /\ log[k - 1].pnl < 0 => t >= log[k - 1].closed + Cooldown

\* What LossIsBudgeted and LogObeysRiskRules say of every closed trade.
LogIsSound(log) ==
    \A k \in DOMAIN log :
        /\ PnlBeforeCosts(log[k]) >= -log[k].risk
        /\ log[k].risk <= RiskAmount(Before(log, k))
        /\ EntryAllowed(log, k, log[k].opened)

\* An exit at this price loses no more than the initial risk, before costs.
Within(t, price) == Sign(t.side) * (price - t.entry) >= -t.unitRisk

\* The open trade stays within its risk wherever it is closed.
TradeIsSound(t, c) ==
    /\ t.risk = Money(t.quantity * t.unitRisk) /\ t.impact >= 0
    /\ Within(t, t.stop) /\ Within(t, t.target) /\ Within(t, c.close * Hundred)

\* It was opened within the rules, on the balance it still stands on.
EntryWasSound(t, log, bal) ==
    t.risk <= RiskAmount(bal) /\ EntryAllowed(log, Len(log) + 1, t.opened)

LastLossOf(log) ==
    IF log # <<>> /\ log[Len(log)].pnl < 0 THEN log[Len(log)].closed ELSE Never

ValidCandles == {c \in CandleSet : ValidCandle(c)}

EngineInv ==
    /\ EngineTypeOK
    /\ eventTime > 0 => lastCandle \in ValidCandles
    /\ Len(curve) = eventTime
    /\ balance = Before(trades, Len(trades) + 1)
    /\ openTrade = NoTrade /\ eventTime > 0 => curve[eventTime] = balance
    /\ \A k \in DOMAIN trades : trades[k].closed <= eventTime
    /\ ~finished => dayPnl = ThatDay(trades, Len(trades) + 1, eventTime)
    /\ ~finished => lastLoss = LastLossOf(trades)
    /\ finished => openTrade = NoTrade /\ eventTime > 0
    /\ LogIsSound(trades)
    /\ openTrade # NoTrade =>
            /\ eventTime > 0
            /\ TradeIsSound(openTrade, lastCandle) /\ EntryWasSound(openTrade, trades, balance)

(***************************************************************************)
(* The log                                                                 *)
(***************************************************************************)

\* A later time is on the same day or on a later one.
LEMMA DayOrder ==
  ASSUME NEW i \in Nat, NEW j \in Nat, i <= j
  PROVE  Day(i) \in Int /\ Day(j) \in Int /\ Day(i) <= Day(j)
<1>1. DayLength \in Nat /\ DayLength > 0
  BY EngineAssumption
<1> DEFINE p == Day(i)
           q == Day(j)
<1>2. /\ p \in Int /\ q \in Int /\ p * DayLength <= i /\ j < (q + 1) * DayLength
  BY <1>1 DEF Day
<1> HIDE DEF p, q
<1>3. p * DayLength < (q + 1) * DayLength
  BY <1>1, <1>2
<1>4. ~(q + 1 <= p)
  <2> SUFFICES ASSUME q + 1 <= p PROVE FALSE
    OBVIOUS
  <2>1. (q + 1) * DayLength <= p * DayLength
    BY <1>1, <1>2
  <2> QED BY <1>1, <1>2, <1>3, <2>1
<1>5. p <= q
  BY <1>2, <1>4
<1> QED BY <1>2, <1>5 DEF p, q

\* The fields of the rows of a log that the rules read.
LEMMA RowsTyped ==
  ASSUME NEW log \in Seq(ClosedTrade)
  PROVE  /\ Len(log) \in Nat /\ DOMAIN log = 1 .. Len(log)
         /\ \A k \in 1 .. Len(log) :
              log[k] \in ClosedTrade /\ log[k].pnl \in Int /\ log[k].closed \in Nat
<1>1. Len(log) \in Nat /\ DOMAIN log = 1 .. Len(log)
  OBVIOUS
<1>2. \A k \in DOMAIN log : log[k] \in ClosedTrade
  OBVIOUS
<1> QED BY <1>1, <1>2 DEF ClosedTrade

LEMMA BeforeTyped ==
  ASSUME NEW log \in Seq(ClosedTrade), NEW k \in 1 .. Len(log) + 1
  PROVE  Before(log, k) \in Int /\ \A t : ThatDay(log, k, t) \in Int
<1> DEFINE D == 1 .. k - 1
           f == [j \in D |-> log[j].pnl]
<1>1. k - 1 \in Nat /\ D \subseteq 1 .. Len(log) /\ IsFiniteSet(D)
  <2>1. Len(log) \in Nat
    BY RowsTyped
  <2>2. k - 1 \in Nat /\ D \subseteq 1 .. Len(log)
    BY <2>1
  <2> DEFINE m == k - 1
  <2>3. m \in Int
    BY <2>2
  <2> HIDE DEF m
  <2>4. IsFiniteSet(1 .. m)
    BY <2>3, FS_Interval
  <2> QED BY <2>2, <2>4 DEF m
<1>2. \A j \in D : log[j].pnl \in Int
  BY <1>1, RowsTyped
<1> HIDE DEF D
<1>3. Before(log, k) \in Int
  <2>1. f \in [D -> Int]
    BY <1>2
  <2> HIDE DEF f
  <2>2. SumFunction(f) \in Int /\ StartingBalance \in Int
    BY <1>1, <2>1, SumType, EngineAssumption
  <2> QED BY <2>2 DEF Before, f, D
<1>4. ASSUME NEW t PROVE ThatDay(log, k, t) \in Int
  <2> DEFINE E == {i \in D : Day(log[i].closed) = Day(t)}
             g == [j \in E |-> log[j].pnl]
  <2>1. IsFiniteSet(E)
    BY <1>1, FS_Subset
  <2>2. g \in [E -> Int]
    BY <1>2
  <2> HIDE DEF E, g
  <2>3. SumFunction(g) \in Int
    BY <2>1, <2>2, SumType
  <2> QED BY <2>3 DEF ThatDay, g, E, D
<1> QED BY <1>3, <1>4

\* What a log says of its first trades does not change when it grows.
LEMMA PastIsKept ==
  ASSUME NEW log \in Seq(ClosedTrade), NEW x \in ClosedTrade, NEW k \in 1 .. Len(log) + 1
  PROVE  /\ Before(Append(log, x), k) = Before(log, k)
         /\ \A t : ThatDay(Append(log, x), k, t) = ThatDay(log, k, t)
<1> DEFINE new == Append(log, x)
<1>1. \A j \in 1 .. k - 1 : new[j] = log[j]
  BY RowsTyped
<1> HIDE DEF new
<1>2. Before(new, k) = Before(log, k)
  <2>1. [j \in 1 .. k - 1 |-> new[j].pnl] = [j \in 1 .. k - 1 |-> log[j].pnl]
    BY <1>1
  <2> QED BY <2>1 DEF Before
<1>3. ASSUME NEW t PROVE ThatDay(new, k, t) = ThatDay(log, k, t)
  <2>1. {i \in 1 .. k - 1 : Day(new[i].closed) = Day(t)}
          = {i \in 1 .. k - 1 : Day(log[i].closed) = Day(t)}
    BY <1>1
  <2>2. [j \in {i \in 1 .. k - 1 : Day(log[i].closed) = Day(t)} |-> new[j].pnl]
          = [j \in {i \in 1 .. k - 1 : Day(log[i].closed) = Day(t)} |-> log[j].pnl]
    BY <1>1
  <2> QED BY <2>1, <2>2 DEF ThatDay
<1> QED BY <1>2, <1>3 DEF new

\* What one trade more adds to the balance, and to its day.
LEMMA TradeIsAdded ==
  ASSUME NEW log \in Seq(ClosedTrade), NEW x \in ClosedTrade
  PROVE  LET n == Len(log) + 1
         IN /\ Before(Append(log, x), n + 1) = Before(log, n) + x.pnl
            /\ \A t : ThatDay(Append(log, x), n + 1, t)
                        = ThatDay(log, n, t) + (IF Day(x.closed) = Day(t) THEN x.pnl ELSE 0)
<1> DEFINE n == Len(log) + 1
           new == Append(log, x)
           f == [j \in 1 .. n |-> new[j].pnl]
           g == [j \in 1 .. n - 1 |-> log[j].pnl]
<1>1. /\ n \in Nat /\ n >= 1 /\ n + 1 - 1 = n /\ n - 1 = Len(log)
      /\ 1 .. n - 1 = (1 .. n) \ {n} /\ n \in 1 .. n
  BY RowsTyped
<1>2. /\ \A j \in 1 .. n - 1 : new[j] = log[j] /\ log[j].pnl \in Int
      /\ new[n] = x /\ x.pnl \in Int
  <2>1. new[n] = x /\ \A j \in 1 .. Len(log) : new[j] = log[j]
    OBVIOUS
  <2> HIDE DEF new
  <2> QED BY <1>1, <2>1, RowsTyped DEF ClosedTrade
<1>3. IsFiniteSet(1 .. n)
  BY <1>1, FS_Interval
<1> HIDE DEF new, n
<1>4. Before(new, n + 1) = Before(log, n) + x.pnl
  <2>1. OneMore(f, g, n) /\ f[n] = x.pnl
    BY <1>1, <1>2, <1>3 DEF OneMore
  <2>2. SumFunction(g) \in Int
    <3>1. IsFiniteSet(1 .. n - 1) /\ g \in [1 .. n - 1 -> Int]
      BY <1>1, <1>2, <1>3, FS_Subset
    <3> HIDE DEF g
    <3> QED BY <3>1, SumType
  <2> HIDE DEF f, g
  <2>3. SumFunction(f) = SumFunction(g) + f[n]
    BY <2>1, SumOfOneMore
  <2>4. /\ Before(new, n + 1) = StartingBalance + SumFunction(f)
        /\ Before(log, n) = StartingBalance + SumFunction(g)
    BY <1>1 DEF Before, f, g
  <2> QED BY <1>2, <2>1, <2>2, <2>3, <2>4, EngineAssumption
<1>5. ASSUME NEW t
      PROVE  ThatDay(new, n + 1, t)
               = ThatDay(log, n, t) + (IF Day(x.closed) = Day(t) THEN x.pnl ELSE 0)
  <2> DEFINE A == {i \in 1 .. n : Day(new[i].closed) = Day(t)}
             B == {i \in 1 .. n - 1 : Day(log[i].closed) = Day(t)}
             p == [j \in A |-> new[j].pnl]
             q == [j \in B |-> log[j].pnl]
  <2>1. /\ ThatDay(new, n + 1, t) = SumFunction(p)
        /\ ThatDay(log, n, t) = SumFunction(q)
    BY <1>1 DEF ThatDay
  <2>2. IsFiniteSet(A) /\ IsFiniteSet(B) /\ q \in [B -> Int]
    <3>1. A \in SUBSET (1 .. n) /\ B \in SUBSET (1 .. n)
      BY <1>1
    <3> QED BY <1>2, <1>3, <3>1, FS_Subset
  <2>3. SumFunction(q) \in Int
    <3> HIDE DEF q, B
    <3> QED BY <2>2, SumType
  <2>4. CASE Day(x.closed) = Day(t)
    <3>1. n \in A /\ B = A \ {n}
      BY <1>1, <1>2, <2>4
    <3>2. OneMore(p, q, n) /\ p[n] = x.pnl
      <4>1. \A j \in A \ {n} : new[j] = log[j] /\ log[j].pnl \in Int
        BY <1>1, <1>2
      <4> HIDE DEF A, B
      <4> QED BY <1>2, <2>2, <3>1, <4>1 DEF OneMore
    <3> HIDE DEF p, q
    <3>3. SumFunction(p) = SumFunction(q) + p[n]
      BY <3>2, SumOfOneMore
    <3> QED BY <2>1, <2>4, <3>2, <3>3
  <2>5. CASE Day(x.closed) # Day(t)
    <3>1. A = B
      BY <1>1, <1>2, <2>5
    <3>2. p = q
      <4>1. \A j \in B : new[j] = log[j]
        BY <1>1, <1>2
      <4> HIDE DEF A, B
      <4> QED BY <3>1, <4>1
    <3> HIDE DEF p, q
    <3> QED BY <2>1, <2>3, <2>5, <3>2
  <2> QED BY <2>4, <2>5
<1> QED BY <1>4, <1>5 DEF n, new

\* A new day has realized nothing; on the same day the sum goes on.
LEMMA DayGoesOn ==
  ASSUME NEW log \in Seq(ClosedTrade), NEW e \in Nat,
         \A k \in DOMAIN log : log[k].closed <= e
  PROVE  ThatDay(log, Len(log) + 1, e + 1)
           = IF Day(e + 1) = Day(e) THEN ThatDay(log, Len(log) + 1, e) ELSE 0
<1>1. CASE Day(e + 1) = Day(e)
  BY <1>1 DEF ThatDay
<1>2. CASE Day(e + 1) # Day(e)
  <2> DEFINE n == Len(log) + 1
             B == {i \in 1 .. n - 1 : Day(log[i].closed) = Day(e + 1)}
             f == [j \in B |-> log[j].pnl]
  <2>1. n - 1 = Len(log)
    BY RowsTyped
  <2>2. ASSUME NEW i \in 1 .. n - 1 PROVE Day(log[i].closed) # Day(e + 1)
    <3>1. log[i].closed \in Nat /\ log[i].closed <= e
      BY <2>1, <2>2, RowsTyped
    <3>2. /\ Day(log[i].closed) \in Int /\ Day(e) \in Int /\ Day(e + 1) \in Int
          /\ Day(log[i].closed) <= Day(e) /\ Day(e) <= Day(e + 1)
      BY <3>1, DayOrder
    <3> QED BY <1>2, <3>2
  <2>3. DOMAIN f = {}
    BY <2>2
  <2> HIDE DEF f
  <2>4. SumFunction(f) = 0
    BY <2>3, SumOfNothing
  <2> QED BY <1>2, <2>4 DEF ThatDay, f, B
<1> QED BY <1>1, <1>2

(***************************************************************************)
(* Exits                                                                   *)
(***************************************************************************)

Reason == {"STOP_LOSS", "TAKE_PROFIT", "END_OF_DATA"}

\* Before its costs a trade has won its size times the way from its fill, and the impact
\* of an exit is what its fill lost.
LEMMA CloseIsExact ==
  ASSUME NEW t \in Trade, NEW price \in Int, NEW at \in Nat, NEW reason \in Reason
  PROVE  LET x == Close(t, price, at, reason)
         IN /\ x \in ClosedTrade /\ x.opened = t.opened /\ x.closed = at /\ x.risk = t.risk
            /\ PnlBeforeCosts(x) = Money(Sign(t.side) * (price - t.entry)) * t.quantity + t.impact
<1> DEFINE exit == ExitFill(price, t.side)
           gross == Hundred * Sign(t.side) * (exit - Hundred * t.entry) * t.quantity
           entryFee == EntryFee(t)
           fees == entryFee + exit * t.quantity * FeeRate
           funding == FundingCost(t, at)
           impact == t.impact + Hundred * price * t.quantity * AdverseRate
           x == Close(t, price, at, reason)
<1>1. /\ t.side \in Side /\ t.quantity \in Nat /\ t.entry \in Int /\ t.impact \in Int
      /\ t.opened \in Nat /\ t.feeRate \in Nat /\ t.risk \in Int
  BY DEF Trade
<1>2. /\ FeeRate \in Nat /\ AdverseRate \in Nat /\ FundingRate \in Int /\ Hundred = 100
      /\ FundingInterval \in Nat /\ FundingInterval > 0
  BY ProfileAssumption, EngineAssumption DEF AdverseRate, Hundred
<1>3. Sign(t.side) = 1 \/ Sign(t.side) = -1
  BY DEF Sign
<1>4. entryFee \in Int
  BY <1>1, <1>2 DEF EntryFee
<1>5. funding \in Int
  <2> DEFINE k == Settlements(t.opened, at)
  <2>1. k \in Int
    BY <1>1, <1>2 DEF Settlements
  <2> HIDE DEF k
  <2>2. Hundred * t.entry * t.quantity * FundingRate * k * Sign(t.side) \in Int
    BY <1>1, <1>2, <1>3, <2>1
  <2> QED BY <2>2 DEF FundingCost, k
<1>6. exit \in Int
  BY <1>2, <1>3 DEF ExitFill
<1> HIDE DEF entryFee, funding
<1>7. gross \in Int /\ fees \in Int /\ impact \in Int
  <2> HIDE DEF exit
  <2>1. gross \in Int
    BY <1>1, <1>2, <1>3, <1>6
  <2>2. fees \in Int
    BY <1>1, <1>2, <1>4, <1>6
  <2>3. impact \in Int
    BY <1>1, <1>2
  <2> QED BY <2>1, <2>2, <2>3
<1>8. gross + (impact - t.impact) = Money(Sign(t.side) * (price - t.entry)) * t.quantity
  <2> DEFINE q == t.quantity
             e == t.entry
             a == AdverseRate
  <2>1. q \in Int /\ e \in Int /\ a \in Int
    BY <1>1, <1>2
  <2>2. /\ impact - t.impact = 100 * price * q * a
        /\ gross = 100 * Sign(t.side) * (price * (100 - Sign(t.side) * a) - 100 * e) * q
        /\ Money(Sign(t.side) * (price - e)) = Sign(t.side) * (price - e) * 100 * 100
    <3>1. impact - t.impact = Hundred * price * t.quantity * AdverseRate
      <4> DEFINE d == Hundred * price * t.quantity * AdverseRate
      <4>1. d \in Int
        BY <1>1, <1>2
      <4>2. impact = t.impact + d
        OBVIOUS
      <4> HIDE DEF d, impact
      <4>3. impact - t.impact = d
        BY <1>1, <4>1, <4>2
      <4> QED BY <4>3 DEF d
    <3> QED BY <1>2, <3>1 DEF ExitFill, Money
  <2> HIDE DEF q, e, a, gross, impact
  <2>3. CASE Sign(t.side) = 1
    <3>1. gross = 100 * (price * (100 - a) - 100 * e) * q
      BY <2>1, <2>2, <2>3
    <3>2. 100 * (price * (100 - a) - 100 * e) * q + 100 * price * q * a
            = (price - e) * 100 * 100 * q
      BY <2>1
    <3>3. Money(Sign(t.side) * (price - e)) = (price - e) * 100 * 100
      BY <2>1, <2>2, <2>3
    <3> QED BY <2>2, <3>1, <3>2, <3>3 DEF q, e
  <2>4. CASE Sign(t.side) = -1
    <3>1. gross = -100 * (price * (100 + a) - 100 * e) * q
      BY <2>1, <2>2, <2>4
    <3>2. -100 * (price * (100 + a) - 100 * e) * q + 100 * price * q * a
            = (e - price) * 100 * 100 * q
      BY <2>1
    <3>3. Money(Sign(t.side) * (price - e)) = (e - price) * 100 * 100
      BY <2>1, <2>2, <2>4
    <3> QED BY <2>2, <3>1, <3>2, <3>3 DEF q, e
  <2> QED BY <1>3, <2>3, <2>4
<1>9. x = [side |-> t.side, opened |-> t.opened, closed |-> at, entry |-> t.entry,
           exit |-> exit, quantity |-> t.quantity, fees |-> fees, risk |-> t.risk,
           pnl |-> gross - fees - funding, funding |-> funding,
           impact |-> impact, reason |-> reason]
  BY DEF Close, funding, entryFee
<1> HIDE DEF exit, gross, fees, impact, x
<1>10. /\ x \in ClosedTrade /\ x.opened = t.opened /\ x.closed = at /\ x.risk = t.risk
       /\ x.pnl = gross - fees - funding /\ x.fees = fees /\ x.impact = impact
       /\ x.funding = funding
  BY <1>1, <1>5, <1>6, <1>7, <1>9 DEF ClosedTrade, Reason
<1>11. PnlBeforeCosts(x) = Money(Sign(t.side) * (price - t.entry)) * t.quantity + t.impact
  <2>1. PnlBeforeCosts(x) = gross - fees - funding + fees + impact + funding
    BY <1>10 DEF PnlBeforeCosts
  <2> DEFINE m == Money(Sign(t.side) * (price - t.entry)) * t.quantity
  <2>2. gross + (impact - t.impact) = m
    BY <1>8
  <2> HIDE DEF m
  <2>3. PnlBeforeCosts(x) = m + t.impact
    BY <1>1, <1>5, <1>7, <2>1, <2>2
  <2> QED BY <2>3 DEF m
<1> QED BY <1>10, <1>11 DEF x

\* So an exit within the risk loses no more than the risk.
LEMMA CloseIsBudgeted ==
  ASSUME NEW t \in Trade, NEW c, TradeIsSound(t, c), NEW price \in Int, Within(t, price),
         NEW at \in Nat, NEW reason \in Reason
  PROVE  LET x == Close(t, price, at, reason)
         IN /\ x \in ClosedTrade /\ x.opened = t.opened /\ x.closed = at /\ x.risk = t.risk
            /\ PnlBeforeCosts(x) >= -x.risk
<1> DEFINE x == Close(t, price, at, reason)
           q == t.quantity
           u == t.unitRisk
           d == Sign(t.side) * (price - t.entry)
           i == t.impact
           p == PnlBeforeCosts(x)
<1>1. /\ q \in Nat /\ u \in Int /\ i \in Int /\ d \in Int /\ t.risk \in Int
  BY DEF Trade, Sign
<1>2. /\ x \in ClosedTrade /\ x.opened = t.opened /\ x.closed = at /\ x.risk = t.risk
      /\ p = Money(d) * q + i
  BY CloseIsExact
<1>3. d >= -u /\ i >= 0 /\ t.risk = q * u * 100 * 100
  BY DEF TradeIsSound, Within, Money, Hundred
<1>4. p = d * 100 * 100 * q + i
  BY <1>2 DEF Money, Hundred
<1> HIDE DEF x, q, u, d, i, p
<1>5. d * q >= -(q * u)
  BY <1>1, <1>3
<1>6. d * 100 * 100 * q + i >= -(q * u * 100 * 100)
  <2> DEFINE v == d * q
             w == q * u
  <2>1. v \in Int /\ w \in Int /\ v >= -w /\ d * 100 * 100 * q = 10000 * v
        /\ q * u * 100 * 100 = 10000 * w
    BY <1>1, <1>5
  <2> HIDE DEF v, w
  <2>2. 10000 * v + i >= -(10000 * w)
    BY <1>1, <1>3, <2>1
  <2> QED BY <2>1, <2>2
<1>7. p >= -t.risk
  BY <1>3, <1>4, <1>6
<1> QED BY <1>2, <1>7 DEF x, p

(***************************************************************************)
(* A candle of the open trade                                              *)
(***************************************************************************)

LEMMA CandleTyped ==
  ASSUME NEW c \in ValidCandles
  PROVE  /\ c.open \in Int /\ c.high \in Int /\ c.low \in Int /\ c.close \in Int
         /\ c.close > 0 /\ c.low <= c.close /\ c.close <= c.high
<1>1. /\ c.open \in Int /\ c.high \in Int /\ c.low \in Int /\ c.close \in Int
      /\ ValidCandle(c)
  BY DataAssumption DEF ValidCandles, Candle
<1>2. /\ Min({c.open, c.close}) <= c.close /\ Max({c.open, c.close}) >= c.close
      /\ Min({c.open, c.close}) \in Int /\ Max({c.open, c.close}) \in Int
  BY <1>1 DEF Min, Max
<1> DEFINE S == {c.open, c.high, c.low, c.close}
<1>3. Min(S) <= c.close /\ Min(S) \in Int
  <2>1. S = {c.close, c.high, c.low, c.open}
    OBVIOUS
  <2> HIDE DEF S
  <2> QED BY <1>1, <2>1, LeastOfFour
<1>4. /\ Min(S) > 0 /\ c.low <= Min({c.open, c.close}) /\ c.high >= Max({c.open, c.close})
  BY <1>1 DEF ValidCandle
<1> HIDE DEF S
<1> QED BY <1>1, <1>2, <1>3, <1>4

\* An exit of a candle is at the stop or at the target; a candle that is none leaves its
\* close on the right side of the stop.
LEMMA MaybeCloseCases ==
  ASSUME NEW t \in Trade, NEW c \in ValidCandles, NEW at
  PROVE  /\ \A x \in MaybeClose(t, c, at) :
              \/ x = Close(t, t.stop, at, "STOP_LOSS")
              \/ x = Close(t, t.target, at, "TAKE_PROFIT")
         /\ MaybeClose(t, c, at) = {} => Sign(t.side) * (c.close * Hundred - t.stop) >= 0
<1> DEFINE hitStop == StopHit(t.side, t.stop, c.high * Hundred, c.low * Hundred)
           hitTarget == TargetHit(t.side, t.target, c.high * Hundred, c.low * Hundred)
<1>1. /\ hitStop => MaybeClose(t, c, at) = {Close(t, t.stop, at, "STOP_LOSS")}
      /\ ~hitStop /\ hitTarget
           => MaybeClose(t, c, at) = {Close(t, t.target, at, "TAKE_PROFIT")}
      /\ ~hitStop /\ ~hitTarget => MaybeClose(t, c, at) = {}
  BY DEF MaybeClose
<1>2. ASSUME ~hitStop PROVE Sign(t.side) * (c.close * Hundred - t.stop) >= 0
  <2>1. t.side \in Side /\ t.stop \in Int /\ Hundred = 100
    BY DEF Trade, Hundred
  <2>2. CASE t.side = "LONG"
    BY <1>2, <2>1, <2>2, CandleTyped DEF StopHit, Sign
  <2>3. CASE t.side = "SHORT"
    BY <1>2, <2>1, <2>3, CandleTyped DEF StopHit, Sign
  <2> QED BY <2>1, <2>2, <2>3 DEF Side
<1> HIDE DEF hitStop, hitTarget
<1> QED BY <1>1, <1>2

\* The protective stops only tighten: what was within the risk stays within it.
LEMMA AdvancedIsSound ==
  ASSUME NEW t \in Trade, NEW c, TradeIsSound(t, c), NEW d \in ValidCandles, NEW at,
         MaybeClose(t, d, at) = {}
  PROVE  LET u == AdvancedTrade(t, d)
         IN u \in Trade /\ u.risk = t.risk /\ u.opened = t.opened /\ TradeIsSound(u, d)
<1> DEFINE u == AdvancedTrade(t, d)
           high == Max({t.high, d.high * Hundred})
           low == Min({t.low, d.low * Hundred})
           best == IF t.side = "LONG" THEN high ELSE low
           reached == t.breakEven /\ Sign(t.side) * (best - t.entry) >= t.unitRisk
           even == IF reached THEN Tighter(t.side, t.stop, t.entry) ELSE t.stop
           trail == IF t.trailing = 0 THEN even
                    ELSE Tighter(t.side, even, best - Sign(t.side) * t.trailing)
<1>1. /\ t.side \in Side /\ t.stop \in Int /\ t.entry \in Int /\ t.target \in Int
      /\ t.high \in Int /\ t.low \in Int /\ t.trailing \in Int /\ t.unitRisk \in Int
  BY DEF Trade
<1>2. Hundred = 100 /\ d.high \in Int /\ d.low \in Int /\ d.close \in Int
  BY CandleTyped DEF Hundred
<1>3. high \in Int /\ low \in Int
  <2>1. \A i, j \in Int : Max({i, j}) \in Int /\ Min({i, j}) \in Int
    BY DEF Max, Min
  <2>2. d.high * Hundred \in Int /\ d.low * Hundred \in Int
    BY <1>2
  <2> QED BY <1>1, <2>1, <2>2
<1>4. u = [t EXCEPT !.high = high, !.low = low, !.stop = trail]
  BY DEF AdvancedTrade
<1> HIDE DEF high, low
<1>5. best \in Int /\ best - Sign(t.side) * t.trailing \in Int
  BY <1>1, <1>3 DEF Sign
<1>6. \A i, j \in Int :
        /\ Tighter(t.side, i, j) \in Int
        /\ Sign(t.side) * (Tighter(t.side, i, j) - i) >= 0
  <2> SUFFICES ASSUME NEW i \in Int, NEW j \in Int
               PROVE  /\ Tighter(t.side, i, j) \in Int
                      /\ Sign(t.side) * (Tighter(t.side, i, j) - i) >= 0
    OBVIOUS
  <2>1. /\ Max({i, j}) \in Int /\ Max({i, j}) >= i
        /\ Min({i, j}) \in Int /\ Min({i, j}) <= i
    BY DEF Max, Min
  <2>2. CASE t.side = "LONG"
    <3>1. Tighter(t.side, i, j) = Max({i, j}) /\ Sign(t.side) = 1
      BY <2>2 DEF Tighter, Sign
    <3> QED BY <2>1, <3>1
  <2>3. CASE t.side = "SHORT"
    <3>1. Tighter(t.side, i, j) = Min({i, j}) /\ Sign(t.side) = -1
      BY <2>3 DEF Tighter, Sign
    <3> QED BY <2>1, <3>1
  <2> QED BY <1>1, <2>2, <2>3 DEF Side
<1> HIDE DEF best, reached
<1>7. even \in Int /\ Sign(t.side) * (even - t.stop) >= 0
  <2>1. Sign(t.side) * (t.stop - t.stop) >= 0
    BY <1>1 DEF Sign
  <2> QED BY <1>1, <1>6, <2>1
<1> HIDE DEF even
<1>8. trail \in Int /\ Sign(t.side) * (trail - even) >= 0
  <2>1. Sign(t.side) * (even - even) >= 0
    BY <1>7 DEF Sign
  <2> QED BY <1>5, <1>6, <1>7, <2>1
<1> HIDE DEF trail, u
<1>9. /\ u \in Trade /\ u.risk = t.risk /\ u.opened = t.opened /\ u.impact = t.impact
      /\ u.quantity = t.quantity /\ u.unitRisk = t.unitRisk /\ u.stop = trail
      /\ u.target = t.target /\ u.side = t.side /\ u.entry = t.entry
  BY <1>3, <1>4, <1>8 DEF Trade
<1>10. Within(t, t.stop) /\ Within(t, t.target) /\ t.impact >= 0
       /\ t.risk = Money(t.quantity * t.unitRisk)
  BY DEF TradeIsSound
<1>11. Sign(t.side) * (trail - t.entry) >= -t.unitRisk
  <2>1. Sign(t.side) * (t.stop - t.entry) >= -t.unitRisk
    BY <1>10 DEF Within
  <2> DEFINE stop == t.stop
             entry == t.entry
             unit == t.unitRisk
             sign == Sign(t.side)
  <2>2. /\ stop \in Int /\ entry \in Int /\ unit \in Int /\ sign \in {1, -1}
        /\ sign * (stop - entry) >= -unit /\ sign * (even - stop) >= 0
        /\ sign * (trail - even) >= 0
    BY <1>1, <1>7, <1>8, <2>1 DEF Sign
  <2> HIDE DEF stop, entry, unit, sign
  <2>3. sign * (trail - entry) >= -unit
    <3>1. CASE sign = 1 BY <1>7, <1>8, <2>2, <3>1
    <3>2. CASE sign = -1 BY <1>7, <1>8, <2>2, <3>2
    <3> QED BY <2>2, <3>1, <3>2
  <2> QED BY <2>3 DEF entry, unit, sign
<1>12. Sign(t.side) * (d.close * Hundred - t.entry) >= -t.unitRisk
  <2> DEFINE stop == t.stop
             entry == t.entry
             unit == t.unitRisk
             sign == Sign(t.side)
             close == d.close * Hundred
  <2>1. Sign(t.side) * (d.close * Hundred - t.stop) >= 0
    BY MaybeCloseCases
  <2>2. /\ stop \in Int /\ entry \in Int /\ unit \in Int /\ sign \in {1, -1} /\ close \in Int
        /\ sign * (stop - entry) >= -unit /\ sign * (close - stop) >= 0
    BY <1>1, <1>2, <1>10, <2>1 DEF Sign, Within
  <2> HIDE DEF stop, entry, unit, sign, close
  <2>3. sign * (close - entry) >= -unit
    <3>1. CASE sign = 1 BY <2>2, <3>1
    <3>2. CASE sign = -1 BY <2>2, <3>2
    <3> QED BY <2>2, <3>1, <3>2
  <2> QED BY <2>3 DEF entry, unit, sign, close
<1>13. TradeIsSound(u, d)
  BY <1>9, <1>10, <1>11, <1>12 DEF TradeIsSound, Within
<1> QED BY <1>9, <1>13 DEF u

(***************************************************************************)
(* An entry                                                                *)
(***************************************************************************)

\* The fields of an action.
LEMMA ActionTyped ==
  ASSUME NEW a \in Actions
  PROVE  /\ a.side \in Side /\ a.stop \in Nat /\ a.target \in Nat /\ a.breakEven \in BOOLEAN
         /\ a.trailing \in Nat /\ a.override \in Nat /\ a.makerFee \in Nat
BY DataAssumption DEF Action

\* What the entry leaves behind: the trade is sized from its fill, within its share of the
\* balance, on the right day and after the cooldown.
EntryIsSound(t, c, bal, dayNet, last) ==
    /\ t \in Trade /\ t.opened = eventTime + 1
    /\ TradeIsSound(t, c)
    /\ t.risk <= RiskAmount(bal)
    /\ Hundred * dayNet > -(bal * DailyLossPct)
    /\ last # Never => eventTime + 1 >= last + Cooldown

LEMMA EnterIsSound ==
  ASSUME NEW a \in Actions \cup {NoAction}, NEW c \in ValidCandles, NEW bal \in Int,
         NEW dayNet \in Int, NEW streak, NEW last \in Nat \cup {Never}, eventTime \in Nat,
         NEW t \in Enter(a, c, bal, dayNet, streak, last), t # NoTrade
  PROVE  EntryIsSound(t, c, bal, dayNet, last)
<1> DEFINE n == IntentOf(a, c, bal, dayNet, streak, last)
           sign == Sign(a.side)
           fill == FillOf(a, c)
           close == c.close * Hundred
           stop == a.stop * Hundred
           target == a.target * Hundred
           d == sign * (fill - stop)
           r == IF d >= 0 THEN d ELSE -d
           abs == AbsFillRisk(a, c)
           q == Quantity(a, c, n)
<1>1. /\ a # NoAction /\ Admissible(n) /\ ApprovedQuantity(n) > 0
      /\ abs # 0 /\ ~(q <= 0) /\ t = OpenTrade(a, c, n)
  BY DEF Enter, Approved
<1>2. a \in Actions
  BY <1>1
<1>3. /\ a.side \in Side /\ a.stop \in Nat /\ a.target \in Nat /\ a.breakEven \in BOOLEAN
      /\ a.trailing \in Nat /\ a.override \in Nat /\ a.makerFee \in Nat
  BY <1>2, ActionTyped
<1>4. /\ c.close \in Int /\ c.close > 0 /\ Hundred = 100 /\ AdverseRate \in Nat
      /\ AdverseRate < 100 /\ FeeRate \in Nat /\ Cooldown \in Nat
  BY CandleTyped, ProfileAssumption, EngineAssumption DEF Hundred, AdverseRate
<1>5. /\ n.side = a.side /\ n.entry = c.close /\ n.stop = a.stop /\ n.target = a.target
      /\ n.equity = bal /\ n.available = bal /\ n.leverage = Leverage /\ n.daily = dayNet
      /\ n.cooldown = Cooling(last)
  BY DEF IntentOf
<1> HIDE DEF n
<1>6. sign = 1 \/ sign = -1
  BY DEF Sign
<1>7. fill \in Int /\ fill > 0
  <2>1. CASE a.override > 0
    BY <1>3, <1>4, <2>1 DEF FillOf
  <2>2. CASE ~(a.override > 0)
    <3>1. fill = c.close * (Hundred + sign * AdverseRate)
      BY <2>2 DEF FillOf, EntryFill
    <3> DEFINE rate == Hundred + sign * AdverseRate
    <3>2. rate \in Int /\ rate > 0
      BY <1>4, <1>6
    <3> HIDE DEF rate, fill
    <3>3. c.close * rate \in Int /\ c.close * rate > 0
      BY <1>4, <3>2
    <3> QED BY <3>1, <3>3 DEF rate
  <2> QED BY <2>1, <2>2
<1> HIDE DEF fill
<1>8. close \in Int /\ stop \in Int /\ target \in Int /\ d \in Int /\ r \in Int /\ r >= 0
  BY <1>3, <1>4, <1>6, <1>7
<1>9. abs = r * 100 * 100 /\ abs \in Int /\ abs > 0
  <2>1. FillRisk(a, c) = d * 100 * 100
    BY DEF FillRisk, Money, fill, Hundred
  <2> HIDE DEF d
  <2>2. abs = Max({d * 100 * 100, -(d * 100 * 100)})
    BY <2>1 DEF AbsFillRisk
  <2>3. r * 100 * 100 \in {d * 100 * 100, -(d * 100 * 100)}
        /\ \A y \in {d * 100 * 100, -(d * 100 * 100)} : y <= r * 100 * 100 /\ y \in Int
    BY <1>8
  <2> DEFINE T == {d * 100 * 100, -(d * 100 * 100)}
             m == r * 100 * 100
  <2>4. m \in T /\ \A y \in T : y <= m /\ y \in Int
    BY <2>3
  <2> HIDE DEF T, m
  <2>5. Max(T) = m
    BY <2>4 DEF Max
  <2>6. abs = m
    BY <2>2, <2>5 DEF T
  <2> QED BY <1>1, <1>8, <2>6 DEF m
<1> HIDE DEF abs
<1>10. q \in Nat /\ q * abs <= RiskAmount(bal)
  <2>1. /\ MaxNotional \in Nat /\ Leverage \in Nat /\ Unit > 0 /\ Unit \in Nat
    BY ProfileAssumption, EngineAssumption
  <2>2. Sized(n)
    <3>1. PerUnitRisk(n) > 0
      BY <1>1 DEF Admissible
    <3> QED BY <1>3, <1>4, <1>5, <2>1, <3>1 DEF Sized
  <2>3. ApprovedQuantity(n) \in Int /\ RiskAmount(bal) \in Int
    BY <1>5, <2>2, QuantityIsBounded
  <2> DEFINE money == Money(fill)
             amount == RiskAmount(bal)
             own == bal * Leverage
             i == ApprovedQuantity(n)
  <2>4. money \in Int /\ money > 0
    BY <1>4, <1>7 DEF Money
  <2>5. own \in Int
    BY <2>1
  <2>6. q = Min({i, amount \div abs, MaxNotional \div money, own \div money})
    BY <1>5 DEF Quantity, fill, abs
  <2> HIDE DEF money, amount, own, i, q
  <2>7. /\ i \in Int /\ amount \in Int /\ amount \div abs \in Int
        /\ MaxNotional \div money \in Int /\ own \div money \in Int
    BY <1>9, <2>1, <2>3, <2>4, <2>5 DEF i, amount
  <2>8. q \in Int /\ q <= amount \div abs
    <3>1. {i, amount \div abs, MaxNotional \div money, own \div money}
            = {amount \div abs, i, MaxNotional \div money, own \div money}
      OBVIOUS
    <3> QED BY <2>6, <2>7, <3>1, LeastOfFour
  <2>9. (amount \div abs) * abs <= amount /\ (amount \div abs) * abs \in Int
    BY <1>9, <2>7
  <2>10. q * abs <= (amount \div abs) * abs /\ q * abs \in Int
    <3> DEFINE z == amount \div abs
    <3>1. z \in Int /\ q <= z
      BY <2>7, <2>8
    <3> HIDE DEF z
    <3>2. q * abs <= z * abs /\ q * abs \in Int
      BY <1>9, <2>8, <3>1
    <3> QED BY <3>2 DEF z
  <2>11. q * abs <= amount
    BY <2>7, <2>9, <2>10
  <2> QED BY <1>1, <2>8, <2>11 DEF amount, q
<1> DEFINE impact == IF a.override = 0 THEN Money(c.close) * q * AdverseRate ELSE 0
           rate == IF a.override = 0 THEN FeeRate ELSE a.makerFee
           unit == abs \div Money(1)
<1>11. t = [side |-> a.side, entry |-> fill, quantity |-> q, stop |-> stop,
            target |-> target, opened |-> eventTime + 1, risk |-> q * abs,
            unitRisk |-> unit, breakEven |-> a.breakEven, trailing |-> a.trailing * Hundred,
            high |-> fill, low |-> fill, feeRate |-> rate, impact |-> impact]
  BY <1>1 DEF OpenTrade, fill, abs
<1> HIDE DEF q
<1>12. unit = r
  <2> HIDE DEF r
  <2>1. (r * 100 * 100) \div (1 * 100 * 100) = r
    BY <1>8
  <2> QED BY <1>9, <2>1 DEF Money, Hundred
<1>13. impact \in Int /\ impact >= 0
  <2>1. Money(c.close) \in Nat
    BY <1>4 DEF Money
  <2> DEFINE m == Money(c.close)
  <2>2. m * q * AdverseRate \in Nat
    <3>1. m \in Nat BY <2>1
    <3> HIDE DEF m
    <3>2. m * q \in Nat
      BY <1>10, <3>1
    <3> QED BY <1>4, <3>2
  <2> QED BY <2>2
<1> HIDE DEF unit, impact, rate
<1>14. t \in Trade
  <2>1. rate \in Nat
    BY <1>3, <1>4 DEF rate
  <2>2. q * abs \in Int /\ a.trailing * Hundred \in Int
    BY <1>3, <1>4, <1>9, <1>10
  <2> HIDE DEF stop, target
  <2> QED BY <1>3, <1>7, <1>8, <1>10, <1>11, <1>12, <1>13, <2>1, <2>2 DEF Trade
<1>15. /\ t.side = a.side /\ t.entry = fill /\ t.quantity = q /\ t.stop = stop
       /\ t.target = target /\ t.opened = eventTime + 1 /\ t.risk = q * abs
       /\ t.unitRisk = r /\ t.impact = impact
  BY <1>11, <1>12
<1>16. sign * (close - stop) > 0 /\ sign * (target - close) >= 0
  <2> DEFINE e == c.close
             s == a.stop
             g == a.target
             p == sign * (e - s)
             w == sign * (g - e)
  <2>1. p > 0 /\ w >= MinRiskReward * p
    BY <1>1, <1>5 DEF Admissible, PerUnitRisk, PerUnitReward
  <2>2. e \in Int /\ s \in Int /\ g \in Int /\ p \in Int /\ w \in Int /\ MinRiskReward \in Nat
    BY <1>3, <1>4, <1>6, ProfileAssumption
  <2>3. w >= 0
    <3> HIDE DEF p, w
    <3>1. MinRiskReward * p >= 0 /\ MinRiskReward * p \in Int
      BY <2>1, <2>2
    <3> QED BY <2>1, <2>2, <3>1
  <2>4. close = e * 100 /\ stop = s * 100 /\ target = g * 100
    BY <1>4
  <2> HIDE DEF e, s, g, close, stop, target, sign
  <2>5. CASE sign = 1 BY <2>1, <2>2, <2>3, <2>4, <2>5
  <2>6. CASE sign = -1 BY <2>1, <2>2, <2>3, <2>4, <2>6
  <2> QED BY <1>6, <2>5, <2>6
<1>17. /\ sign * (stop - fill) >= -r /\ sign * (target - fill) >= -r
       /\ sign * (close - fill) >= -r
  <2> HIDE DEF close, stop, target, sign
  <2>1. CASE sign = 1 BY <1>7, <1>8, <1>16, <2>1
  <2>2. CASE sign = -1 BY <1>7, <1>8, <1>16, <2>2
  <2> QED BY <1>6, <2>1, <2>2
<1>18. TradeIsSound(t, c)
  <2>1. Within(t, t.stop) /\ Within(t, t.target) /\ Within(t, c.close * Hundred)
    <3> HIDE DEF r
    <3> QED BY <1>15, <1>17 DEF Within
  <2>2. t.risk = Money(t.quantity * t.unitRisk)
    <3> HIDE DEF r
    <3>1. q * (r * 100 * 100) = q * r * 100 * 100
      BY <1>8, <1>10
    <3> QED BY <1>9, <1>15, <3>1 DEF Money, Hundred
  <2> QED BY <1>13, <1>15, <2>1, <2>2 DEF TradeIsSound
<1>19. t.risk <= RiskAmount(bal)
  BY <1>10, <1>15
<1>20. Hundred * dayNet > -(bal * DailyLossPct)
  <2>1. ~(Hundred * dayNet <= -(bal * DailyLossPct))
    BY <1>1, <1>5 DEF Admissible, DailyLimitReached
  <2>2. Hundred * dayNet \in Int /\ bal * DailyLossPct \in Int
    BY <1>4, ProfileAssumption
  <2> QED BY <2>1, <2>2
<1>21. last # Never => eventTime + 1 >= last + Cooldown
  <2> SUFFICES ASSUME last # Never PROVE eventTime + 1 >= last + Cooldown
    OBVIOUS
  <2>1. last \in Nat
    OBVIOUS
  <2>2. ~(eventTime + 1 < last + Cooldown)
    BY <1>1, <1>5 DEF Admissible, Cooling
  <2> QED BY <1>4, <2>1, <2>2
<1> QED BY <1>14, <1>15, <1>18, <1>19, <1>20, <1>21 DEF EntryIsSound

(***************************************************************************)
(* The steps of the engine                                                 *)
(***************************************************************************)

LEMMA MaxIsInt == ASSUME NEW i \in Int, NEW j \in Int PROVE Max({i, j}) \in Int
BY DEF Max

\* The open trade is closed, within its risk, not before the last candle.
LEMMA ExitKeeps ==
  ASSUME EngineInv, openTrade # NoTrade, NEW price \in Int, Within(openTrade, price),
         NEW at \in Nat, eventTime <= at, NEW reason \in Reason
  PROVE  LET x == Close(openTrade, price, at, reason)
             new == Append(trades, x)
         IN /\ x.pnl \in Int /\ x.closed = at /\ new \in Seq(ClosedTrade)
            /\ balance + x.pnl \in Int /\ balance + x.pnl = Before(new, Len(new) + 1)
            /\ LogIsSound(new)
            /\ \A k \in DOMAIN new : new[k].closed <= at
            /\ LastLossOf(new) = IF x.pnl < 0 THEN at ELSE Never
            /\ \A t : ThatDay(new, Len(new) + 1, t)
                        = ThatDay(trades, Len(trades) + 1, t)
                            + (IF Day(at) = Day(t) THEN x.pnl ELSE 0)
<1> DEFINE x == Close(openTrade, price, at, reason)
           new == Append(trades, x)
           n == Len(trades) + 1
<1>1. /\ openTrade \in Trade /\ TradeIsSound(openTrade, lastCandle)
      /\ EntryWasSound(openTrade, trades, balance)
      /\ balance \in Int /\ balance = Before(trades, n) /\ LogIsSound(trades)
      /\ trades \in Seq(ClosedTrade) /\ eventTime \in Nat
      /\ \A k \in DOMAIN trades : trades[k].closed <= eventTime
  BY DEF EngineInv, EngineTypeOK
<1>2. /\ x \in ClosedTrade /\ x.opened = openTrade.opened /\ x.closed = at
      /\ x.risk = openTrade.risk /\ PnlBeforeCosts(x) >= -x.risk
  BY <1>1, CloseIsBudgeted
<1> HIDE DEF x
<1>3. x.pnl \in Int
  BY <1>2 DEF ClosedTrade
<1>4. /\ n \in Nat /\ n >= 1 /\ DOMAIN trades = 1 .. n - 1 /\ n - 1 = Len(trades)
      /\ \A k \in 1 .. n - 1 :
           trades[k] \in ClosedTrade /\ trades[k].pnl \in Int /\ trades[k].closed \in Nat
  BY <1>1, RowsTyped
<1>5. /\ new \in Seq(ClosedTrade) /\ Len(new) = n /\ DOMAIN new = 1 .. n /\ new[n] = x
      /\ \A k \in 1 .. n - 1 : new[k] = trades[k]
  <2>1. /\ new \in Seq(ClosedTrade) /\ Len(new) = n
        /\ new[Len(trades) + 1] = x /\ \A k \in 1 .. Len(trades) : new[k] = trades[k]
    BY <1>1, <1>2
  <2> HIDE DEF new
  <2> QED BY <1>4, <2>1
<1>6. /\ Before(new, n + 1) = Before(trades, n) + x.pnl
      /\ \A t : ThatDay(new, n + 1, t)
                  = ThatDay(trades, n, t) + (IF Day(x.closed) = Day(t) THEN x.pnl ELSE 0)
  BY <1>1, <1>2, TradeIsAdded
<1>7. \A k \in 1 .. n : /\ Before(new, k) = Before(trades, k)
                        /\ \A t : ThatDay(new, k, t) = ThatDay(trades, k, t)
  BY <1>1, <1>2, PastIsKept
<1> HIDE DEF new, n
<1>8. LogIsSound(new)
  <2> SUFFICES ASSUME NEW k \in 1 .. n
               PROVE  /\ PnlBeforeCosts(new[k]) >= -new[k].risk
                      /\ new[k].risk <= RiskAmount(Before(new, k))
                      /\ EntryAllowed(new, k, new[k].opened)
    BY <1>5 DEF LogIsSound
  <2>1. ASSUME NEW t, EntryAllowed(trades, k, t) PROVE EntryAllowed(new, k, t)
    <3>1. k > 1 => new[k - 1] = trades[k - 1]
      BY <1>4, <1>5
    <3> QED BY <1>7, <2>1, <3>1 DEF EntryAllowed
  <2>2. CASE k = n
    <3>1. new[k] = x /\ Before(new, k) = balance
      BY <1>1, <1>5, <1>7, <2>2 DEF n
    <3>2. openTrade.risk <= RiskAmount(balance) /\ EntryAllowed(trades, k, openTrade.opened)
      BY <1>1, <2>2 DEF EntryWasSound, n
    <3> QED BY <1>2, <2>1, <3>1, <3>2
  <2>3. CASE k # n
    <3>1. k \in DOMAIN trades /\ new[k] = trades[k]
      BY <1>4, <1>5, <2>3
    <3>2. /\ PnlBeforeCosts(trades[k]) >= -trades[k].risk
          /\ trades[k].risk <= RiskAmount(Before(trades, k))
          /\ EntryAllowed(trades, k, trades[k].opened)
      BY <1>1, <3>1 DEF LogIsSound
    <3> QED BY <1>7, <2>1, <3>1, <3>2
  <2> QED BY <2>2, <2>3
<1>9. \A k \in DOMAIN new : new[k].closed <= at
  <2> SUFFICES ASSUME NEW k \in 1 .. n PROVE new[k].closed <= at
    BY <1>5
  <2>1. CASE k = n
    BY <1>2, <1>5, <2>1
  <2>2. CASE k # n
    <3>1. k \in 1 .. n - 1
      BY <1>4, <2>2
    <3> QED BY <1>1, <1>4, <1>5, <3>1
  <2> QED BY <2>1, <2>2
<1>10. LastLossOf(new) = IF x.pnl < 0 THEN at ELSE Never
  <2>1. new # <<>> /\ new[Len(new)] = x
    BY <1>4, <1>5
  <2> QED BY <1>2, <2>1 DEF LastLossOf
<1>11. balance + x.pnl \in Int /\ balance + x.pnl = Before(new, Len(new) + 1)
  BY <1>1, <1>3, <1>5, <1>6
<1>12. \A t : ThatDay(new, Len(new) + 1, t)
                = ThatDay(trades, Len(trades) + 1, t) + (IF Day(at) = Day(t) THEN x.pnl ELSE 0)
  BY <1>2, <1>5, <1>6 DEF n
<1> QED BY <1>2, <1>3, <1>5, <1>8, <1>9, <1>10, <1>11, <1>12 DEF x, new

\* An entry on a balance and a day that the log accounts for.
LEMMA EntryFitsLog ==
  ASSUME NEW log \in Seq(ClosedTrade), NEW t, NEW c, NEW bal, NEW dayNet, NEW last,
         EntryIsSound(t, c, bal, dayNet, last), bal = Before(log, Len(log) + 1),
         dayNet = ThatDay(log, Len(log) + 1, eventTime + 1), last = LastLossOf(log)
  PROVE  EntryWasSound(t, log, bal)
<1>1. /\ t.opened = eventTime + 1 /\ t.risk <= RiskAmount(bal)
      /\ Hundred * dayNet > -(bal * DailyLossPct)
      /\ last # Never => eventTime + 1 >= last + Cooldown
  BY DEF EntryIsSound
<1> DEFINE k == Len(log) + 1
<1>2. ASSUME k > 1, log[k - 1].pnl < 0 PROVE eventTime + 1 >= log[k - 1].closed + Cooldown
  <2>1. Len(log) \in Nat /\ k - 1 = Len(log) /\ log # <<>>
    BY <1>2, RowsTyped
  <2>2. log[Len(log)].closed \in Nat
    BY <1>2, <2>1, RowsTyped
  <2>3. last = log[Len(log)].closed
    BY <1>2, <2>1 DEF LastLossOf
  <2>4. last # Never
    BY <2>2, <2>3, EngineAssumption
  <2> QED BY <1>1, <2>1, <2>3, <2>4
<1> HIDE DEF k
<1>3. EntryAllowed(log, k, t.opened)
  BY <1>1, <1>2 DEF EntryAllowed, k
<1> QED BY <1>1, <1>3 DEF EntryWasSound, k

\* The value of an open trade at a close.
LEMMA UnrealizedTyped ==
  ASSUME NEW t \in {NoTrade} \cup Trade, NEW c \in ValidCandles, NEW at \in Nat
  PROVE  Unrealized(t, c, at) \in Int /\ (t = NoTrade => Unrealized(t, c, at) = 0)
<1>1. CASE t = NoTrade
  BY <1>1 DEF Unrealized
<1>2. CASE t # NoTrade
  <2>1. t \in Trade
    BY <1>2
  <2>2. /\ t.quantity \in Nat /\ t.entry \in Int /\ t.opened \in Nat /\ t.feeRate \in Nat
        /\ Sign(t.side) \in Int /\ c.close \in Int /\ Hundred = 100
        /\ FundingRate \in Int /\ FundingInterval \in Nat /\ FundingInterval > 0
    BY <2>1, CandleTyped, EngineAssumption DEF Trade, Sign, Hundred
  <2> DEFINE fee == EntryFee(t)
             funding == FundingCost(t, at)
             won == Money(Sign(t.side) * (c.close * Hundred - t.entry))
  <2>3. fee \in Int
    BY <2>2 DEF EntryFee
  <2>4. funding \in Int
    <3> DEFINE k == Settlements(t.opened, at)
    <3>1. k \in Int
      BY <2>2 DEF Settlements
    <3> HIDE DEF k
    <3>2. Hundred * t.entry * t.quantity * FundingRate * k * Sign(t.side) \in Int
      BY <2>2, <3>1
    <3> QED BY <3>2 DEF FundingCost, k
  <2>5. won \in Int
    BY <2>2 DEF Money
  <2>6. Unrealized(t, c, at) = won * t.quantity - fee - funding
    BY <1>2 DEF Unrealized
  <2> HIDE DEF fee, funding, won
  <2>7. Unrealized(t, c, at) \in Int
    BY <2>2, <2>3, <2>4, <2>5, <2>6
  <2> QED BY <1>2, <2>7
<1> QED BY <1>1, <1>2

\* What a candle leaves behind, in terms of the log it has and of the trade it has open.
LEMMA CandleKeeps ==
  ASSUME EngineInv, NextCandle
  PROVE  EngineInv'
<1> DEFINE time == eventTime + 1
           c == lastCandle'
<1>1. /\ eventTime \in Nat /\ balance \in Int /\ dayPnl \in Int /\ peak \in Int
      /\ openTrade \in {NoTrade} \cup Trade /\ trades \in Seq(ClosedTrade)
      /\ losses \in Nat /\ lastLoss \in Nat \cup {Never} /\ curve \in Seq(Int)
      /\ Len(curve) = eventTime
  BY DEF EngineInv, EngineTypeOK
<1>2. /\ eventTime' = time /\ time \in Nat /\ time > 0 /\ c \in ValidCandles
      /\ finished = FALSE /\ finished' = FALSE
  BY <1>1 DEF NextCandle, ValidCandles, EngineInv, EngineTypeOK
<1>3. /\ balance = Before(trades, Len(trades) + 1)
      /\ dayPnl = ThatDay(trades, Len(trades) + 1, eventTime)
      /\ lastLoss = LastLossOf(trades) /\ LogIsSound(trades)
      /\ \A k \in DOMAIN trades : trades[k].closed <= eventTime
  BY <1>2 DEF EngineInv
<1>4. DayBefore = ThatDay(trades, Len(trades) + 1, time) /\ DayBefore \in Int
  BY <1>1, <1>3, DayGoesOn DEF DayBefore
<1> HIDE DEF time
\* The equity point is typed, and is the balance when no trade is left open.
<1>5. ASSUME openTrade' \in {NoTrade} \cup Trade, balance' \in Int,
             Mark(openTrade', c, balance')
      PROVE  /\ curve' \in Seq(Int) /\ Len(curve') = eventTime' /\ peak' \in Int
             /\ openTrade' = NoTrade => curve'[eventTime'] = balance'
  <2> DEFINE u == Unrealized(openTrade', c, time)
             equity == balance' + u
  <2>1. u \in Int /\ (openTrade' = NoTrade => u = 0)
    BY <1>2, <1>5, UnrealizedTyped
  <2>2. curve' = Append(curve, equity) /\ peak' = Max({peak, equity})
    BY <1>5 DEF Mark, time
  <2> HIDE DEF u
  <2>3. equity \in Int /\ (openTrade' = NoTrade => equity = balance')
    <3> DEFINE old == balance'
    <3>1. old \in Int
      BY <1>5
    <3> HIDE DEF old
    <3>2. old + u \in Int /\ (u = 0 => old + u = old)
      BY <2>1, <3>1
    <3> QED BY <2>1, <3>2 DEF old
  <2> HIDE DEF equity
  <2>4. curve' \in Seq(Int) /\ Len(curve') = time /\ curve'[time] = equity
    BY <1>1, <2>2, <2>3 DEF time
  <2>5. peak' \in Int
    BY <1>1, <2>2, <2>3, MaxIsInt
  <2> QED BY <1>2, <2>3, <2>4, <2>5
\* Every candle leaves such a log, such a trade and such a point.
<1>6. ASSUME trades' \in Seq(ClosedTrade), balance' \in Int, dayPnl' \in Int, losses' \in Nat,
             lastLoss' \in Nat \cup {Never}, openTrade' \in {NoTrade} \cup Trade,
             Mark(openTrade', c, balance'),
             balance' = Before(trades', Len(trades') + 1),
             \A k \in DOMAIN trades' : trades'[k].closed <= time,
             dayPnl' = ThatDay(trades', Len(trades') + 1, time),
             lastLoss' = LastLossOf(trades'), LogIsSound(trades'),
             openTrade' # NoTrade =>
                TradeIsSound(openTrade', c) /\ EntryWasSound(openTrade', trades', balance')
      PROVE  EngineInv'
  <2>1. /\ curve' \in Seq(Int) /\ Len(curve') = eventTime' /\ peak' \in Int
        /\ openTrade' = NoTrade => curve'[eventTime'] = balance'
    BY <1>5, <1>6
  <2>2. EngineTypeOK'
    <3>1. c \in {NoCandle} \cup {d \in CandleSet : ValidCandle(d)}
      BY <1>2 DEF ValidCandles
    <3>2. eventTime' \in Nat /\ finished' \in BOOLEAN
      BY <1>2
    <3> QED BY <1>6, <2>1, <3>1, <3>2 DEF EngineTypeOK
  <2> QED BY <1>2, <1>6, <2>1, <2>2 DEF EngineInv
\* A trade the strategy opens fits the log.
<1>7. ASSUME NEW a \in Actions \cup {NoAction}, NEW bal \in Int, NEW dayNet \in Int, NEW streak,
             NEW last \in Nat \cup {Never}, NEW log \in Seq(ClosedTrade),
             bal = Before(log, Len(log) + 1), dayNet = ThatDay(log, Len(log) + 1, time),
             last = LastLossOf(log), openTrade' \in Enter(a, c, bal, dayNet, streak, last)
      PROVE  /\ openTrade' \in {NoTrade} \cup Trade
             /\ openTrade' # NoTrade =>
                  TradeIsSound(openTrade', c) /\ EntryWasSound(openTrade', log, bal)
  <2>1. CASE openTrade' = NoTrade
    BY <2>1
  <2>2. CASE openTrade' # NoTrade
    <3>1. EntryIsSound(openTrade', c, bal, dayNet, last)
      BY <1>1, <1>2, <1>7, <2>2, EnterIsSound
    <3>2. EntryWasSound(openTrade', log, bal)
      BY <1>7, <3>1, EntryFitsLog DEF time
    <3> QED BY <3>1, <3>2 DEF EntryIsSound
  <2> QED BY <2>1, <2>2
<1>8. CASE HoldingCandle(c)
  <2>1. /\ openTrade \in Trade /\ TradeIsSound(openTrade, lastCandle)
        /\ EntryWasSound(openTrade, trades, balance)
    BY <1>1, <1>8 DEF HoldingCandle, EngineInv
  <2>2. /\ openTrade' = AdvancedTrade(openTrade, c) /\ MaybeClose(openTrade, c, time) = {}
        /\ dayPnl' = DayBefore /\ Mark(openTrade', c, balance)
        /\ balance' = balance /\ trades' = trades /\ losses' = losses /\ lastLoss' = lastLoss
    BY <1>8 DEF HoldingCandle, time
  <2>3. /\ openTrade' \in Trade /\ openTrade'.risk = openTrade.risk
        /\ openTrade'.opened = openTrade.opened /\ TradeIsSound(openTrade', c)
    BY <1>2, <2>1, <2>2, AdvancedIsSound
  <2>4. EntryWasSound(openTrade', trades', balance')
    BY <2>1, <2>2, <2>3 DEF EntryWasSound
  <2>5. \A k \in DOMAIN trades' : trades'[k].closed <= time
    <3>1. \A k \in DOMAIN trades : trades[k].closed \in Nat
      BY <1>1, RowsTyped
    <3> QED BY <1>1, <1>3, <2>2, <3>1 DEF time
  <2> QED BY <1>1, <1>3, <1>4, <1>6, <2>2, <2>3, <2>4, <2>5
<1>9. ASSUME NEW a \in Actions \cup {NoAction}, IdleCandle(c, a) PROVE EngineInv'
  <2>1. /\ openTrade' \in Enter(a, c, balance, DayBefore, losses, lastLoss)
        /\ dayPnl' = DayBefore /\ Mark(openTrade', c, balance)
        /\ balance' = balance /\ trades' = trades /\ losses' = losses /\ lastLoss' = lastLoss
    BY <1>9 DEF IdleCandle
  <2>2. /\ openTrade' \in {NoTrade} \cup Trade
        /\ openTrade' # NoTrade =>
             TradeIsSound(openTrade', c) /\ EntryWasSound(openTrade', trades, balance)
    BY <1>1, <1>3, <1>4, <1>7, <2>1
  <2>3. \A k \in DOMAIN trades' : trades'[k].closed <= time
    <3>1. \A k \in DOMAIN trades : trades[k].closed \in Nat
      BY <1>1, RowsTyped
    <3> QED BY <1>1, <1>3, <2>1, <3>1 DEF time
  <2> QED BY <1>1, <1>3, <1>4, <1>6, <2>1, <2>2, <2>3
<1>10. ASSUME NEW a \in Actions \cup {NoAction}, ClosingCandle(c, a) PROVE EngineInv'
  <2>1. PICK x \in MaybeClose(openTrade, c, time) :
          /\ balance' = balance + x.pnl
          /\ trades' = Append(trades, x)
          /\ dayPnl' = DayWith(x)
          /\ losses' = IF x.pnl < 0 THEN losses + 1 ELSE 0
          /\ lastLoss' = IF x.pnl < 0 THEN time ELSE Never
    BY <1>10 DEF ClosingCandle, time
  <2>2. /\ openTrade # NoTrade /\ Mark(openTrade', c, balance')
        /\ openTrade' \in Enter(a, c, balance', dayPnl', losses', lastLoss')
    BY <1>10 DEF ClosingCandle
  <2>3. openTrade \in Trade /\ TradeIsSound(openTrade, lastCandle)
    BY <1>1, <2>2 DEF EngineInv
  <2>4. PICK price \in Int, reason \in Reason :
          Within(openTrade, price) /\ x = Close(openTrade, price, time, reason)
    <3>1. /\ openTrade.stop \in Int /\ openTrade.target \in Int
          /\ Within(openTrade, openTrade.stop) /\ Within(openTrade, openTrade.target)
      BY <2>3 DEF Trade, TradeIsSound
    <3>2. \/ x = Close(openTrade, openTrade.stop, time, "STOP_LOSS")
          \/ x = Close(openTrade, openTrade.target, time, "TAKE_PROFIT")
      BY <1>2, <2>1, <2>3, MaybeCloseCases
    <3> QED BY <3>1, <3>2 DEF Reason
  <2>5. /\ x.pnl \in Int /\ trades' \in Seq(ClosedTrade)
        /\ balance' \in Int /\ balance' = Before(trades', Len(trades') + 1)
        /\ LogIsSound(trades')
        /\ \A k \in DOMAIN trades' : trades'[k].closed <= time
        /\ LastLossOf(trades') = IF x.pnl < 0 THEN time ELSE Never
        /\ \A t : ThatDay(trades', Len(trades') + 1, t)
                    = ThatDay(trades, Len(trades) + 1, t)
                        + (IF Day(time) = Day(t) THEN x.pnl ELSE 0)
    <3>1. eventTime <= time
      BY <1>1 DEF time
    <3> QED BY <1>2, <2>1, <2>2, <2>4, <3>1, ExitKeeps
  <2>6. dayPnl' \in Int /\ dayPnl' = ThatDay(trades', Len(trades') + 1, time)
    BY <1>4, <2>1, <2>5 DEF DayWith
  <2>7. /\ losses' \in Nat /\ lastLoss' \in Nat \cup {Never} /\ lastLoss' = LastLossOf(trades')
    BY <1>1, <1>2, <2>1, <2>5
  <2>8. /\ openTrade' \in {NoTrade} \cup Trade
        /\ openTrade' # NoTrade =>
             TradeIsSound(openTrade', c) /\ EntryWasSound(openTrade', trades', balance')
    BY <1>7, <2>2, <2>5, <2>6, <2>7
  <2> QED BY <1>6, <2>2, <2>5, <2>6, <2>7, <2>8
<1> QED BY <1>8, <1>9, <1>10 DEF NextCandle

\* The data ends: the trade still open is closed at the last close.
LEMMA EndKeeps ==
  ASSUME EngineInv, EndOfData
  PROVE  EngineInv'
<1>1. /\ eventTime \in Nat /\ balance \in Int /\ dayPnl \in Int /\ peak \in Int
      /\ openTrade \in {NoTrade} \cup Trade /\ trades \in Seq(ClosedTrade)
      /\ losses \in Nat /\ lastLoss \in Nat \cup {Never} /\ curve \in Seq(Int)
      /\ Len(curve) = eventTime /\ lastCandle \in {NoCandle} \cup {c \in CandleSet : ValidCandle(c)}
  BY DEF EngineInv, EngineTypeOK
<1>2. /\ eventTime > 0 /\ finished' = TRUE /\ eventTime' = eventTime
      /\ lastCandle' = lastCandle /\ dayPnl' = dayPnl /\ losses' = losses
      /\ lastLoss' = lastLoss
  BY DEF EndOfData
<1>3. /\ lastCandle \in ValidCandles /\ LogIsSound(trades)
      /\ balance = Before(trades, Len(trades) + 1)
      /\ \A k \in DOMAIN trades : trades[k].closed <= eventTime
      /\ openTrade = NoTrade => curve[eventTime] = balance
  BY <1>2 DEF EngineInv
<1>4. CASE openTrade = NoTrade
  <2>1. /\ balance' = balance /\ openTrade' = openTrade /\ trades' = trades
        /\ curve' = curve /\ peak' = peak
    BY <1>4 DEF EndOfData
  <2>2. EngineTypeOK'
    BY <1>1, <1>2, <2>1 DEF EngineTypeOK
  <2> QED BY <1>1, <1>2, <1>3, <1>4, <2>1, <2>2 DEF EngineInv
<1>5. CASE openTrade # NoTrade
  <2> DEFINE price == lastCandle.close * Hundred
             x == Close(openTrade, price, eventTime, "END_OF_DATA")
  <2>1. /\ balance' = balance + x.pnl /\ openTrade' = NoTrade /\ trades' = Append(trades, x)
        /\ curve' = SettledLastPoint(balance') /\ peak' = Max({peak, balance'})
    BY <1>5 DEF EndOfData
  <2>2. price \in Int /\ Within(openTrade, price)
    <3>1. price \in Int
      BY <1>3, CandleTyped DEF Hundred
    <3>2. TradeIsSound(openTrade, lastCandle)
      BY <1>5 DEF EngineInv
    <3> QED BY <3>1, <3>2 DEF TradeIsSound
  <2> HIDE DEF price
  <2>3. /\ trades' \in Seq(ClosedTrade) /\ balance' \in Int
        /\ balance' = Before(trades', Len(trades') + 1)
        /\ LogIsSound(trades')
        /\ \A k \in DOMAIN trades' : trades'[k].closed <= eventTime
    <3>1. "END_OF_DATA" \in Reason /\ eventTime <= eventTime
      BY <1>1 DEF Reason
    <3> QED BY <1>1, <1>5, <2>1, <2>2, <3>1, ExitKeeps
  <2> HIDE DEF x
  <2>4. /\ curve' \in Seq(Int) /\ Len(curve') = eventTime /\ curve'[eventTime] = balance'
    <3>1. curve' = [curve EXCEPT ![eventTime] = balance']
      BY <2>1 DEF SettledLastPoint
    <3>2. eventTime \in 1 .. Len(curve)
      BY <1>1, <1>2
    <3> QED BY <1>1, <2>3, <3>1, <3>2
  <2>5. peak' \in Int
    BY <1>1, <2>1, <2>3, MaxIsInt
  <2>6. EngineTypeOK'
    BY <1>1, <1>2, <2>1, <2>3, <2>4, <2>5 DEF EngineTypeOK
  <2> QED BY <1>1, <1>2, <1>3, <2>1, <2>3, <2>4, <2>6 DEF EngineInv
<1> QED BY <1>4, <1>5

LEMMA EngineInitInv == EngineInit => EngineInv
<1> SUFFICES ASSUME EngineInit PROVE EngineInv
  OBVIOUS
<1>1. /\ eventTime = 0 /\ lastCandle = NoCandle /\ balance = StartingBalance
      /\ peak = StartingBalance /\ openTrade = NoTrade /\ trades = <<>> /\ curve = <<>>
      /\ dayPnl = 0 /\ losses = 0 /\ lastLoss = Never /\ finished = FALSE
  BY DEF EngineInit
<1>2. StartingBalance \in Nat
  BY EngineAssumption
<1>3. EngineTypeOK
  <2>1. /\ eventTime \in Nat /\ {balance, dayPnl, peak} \subseteq Int
        /\ losses \in Nat /\ finished \in BOOLEAN
    <3>1. balance \in Int /\ dayPnl \in Int /\ peak \in Int
      BY <1>1, <1>2
    <3>2. eventTime \in Nat /\ losses \in Nat /\ finished \in BOOLEAN
      BY <1>1
    <3> QED BY <3>1, <3>2
  <2>2. trades \in Seq(ClosedTrade) /\ curve \in Seq(Int)
    BY <1>1
  <2>3. /\ lastCandle \in {NoCandle} \cup {c \in CandleSet : ValidCandle(c)}
        /\ openTrade \in {NoTrade} \cup Trade /\ lastLoss \in Nat \cup {Never}
    BY <1>1
  <2> QED BY <2>1, <2>2, <2>3 DEF EngineTypeOK
<1>4. /\ Before(trades, Len(trades) + 1) = StartingBalance
      /\ ThatDay(trades, Len(trades) + 1, eventTime) = 0
  <2> DEFINE f == [j \in 1 .. Len(trades) + 1 - 1 |-> trades[j].pnl]
             A == {i \in 1 .. Len(trades) + 1 - 1 : Day(trades[i].closed) = Day(eventTime)}
             g == [j \in A |-> trades[j].pnl]
  <2>1. DOMAIN f = {} /\ DOMAIN g = {}
    BY <1>1
  <2>2. /\ Before(trades, Len(trades) + 1) = StartingBalance + SumFunction(f)
        /\ ThatDay(trades, Len(trades) + 1, eventTime) = SumFunction(g)
    BY DEF Before, ThatDay
  <2> HIDE DEF f, g
  <2>3. SumFunction(f) = 0 /\ SumFunction(g) = 0
    BY <2>1, SumOfNothing
  <2> QED BY <1>2, <2>2, <2>3
<1>5. LastLossOf(trades) = Never /\ LogIsSound(trades)
  BY <1>1 DEF LastLossOf, LogIsSound
<1> QED BY <1>1, <1>3, <1>4, <1>5 DEF EngineInv

LEMMA EngineNextInv == EngineInv /\ [EngineNext]_engineVars => EngineInv'
<1> SUFFICES ASSUME EngineInv, [EngineNext]_engineVars PROVE EngineInv'
  OBVIOUS
<1>1. CASE NextCandle
  BY <1>1, CandleKeeps
<1>2. CASE EndOfData
  BY <1>2, EndKeeps
<1>3. CASE UNCHANGED engineVars
  BY <1>3 DEF engineVars, EngineInv, EngineTypeOK
<1> QED BY <1>1, <1>2, <1>3 DEF EngineNext

(***************************************************************************)
(* The theorems of the backtest                                            *)
(***************************************************************************)

\* The engine's locals and its log keep their types.
THEOREM EngineTypeCorrect == EngineSpec => []EngineTypeOK
<1>1. EngineInv => EngineTypeOK
  BY DEF EngineInv
<1> QED BY <1>1, EngineInitInv, EngineNextInv, PTL DEF EngineSpec

\* No trade loses more than the risk it was opened with before its costs, and that risk is
\* the approved share of the balance it was opened on, for any candles and any strategy.
THEOREM LossBudgeted == EngineSpec => []LossIsBudgeted
<1>1. EngineInv => LossIsBudgeted
  BY DEF EngineInv, LogIsSound, LossIsBudgeted, BalanceBefore, Before
<1> QED BY <1>1, EngineInitInv, EngineNextInv, PTL DEF EngineSpec

\* No trade is opened on a day that has lost its maximum or within the cooldown of a loss.
THEOREM LogObeysRules == EngineSpec => []LogObeysRiskRules
<1>1. EngineInv => LogObeysRiskRules
  <2> SUFFICES ASSUME EngineInv PROVE LogObeysRiskRules
    OBVIOUS
  <2> DEFINE n == Len(trades)
  <2>1. /\ trades \in Seq(ClosedTrade) /\ openTrade \in {NoTrade} \cup Trade
        /\ LogIsSound(trades)
        /\ openTrade # NoTrade => EntryWasSound(openTrade, trades, balance)
    BY DEF EngineInv, EngineTypeOK
  <2>2. n \in Nat /\ DOMAIN trades = 1 .. n
    BY <2>1
  <2>3. /\ openTrade = NoTrade => DOMAIN EntryTimes = 1 .. n
        /\ openTrade # NoTrade =>
             DOMAIN EntryTimes = 1 .. n + 1 /\ EntryTimes[n + 1] = openTrade.opened
        /\ \A k \in 1 .. n : EntryTimes[k] = trades[k].opened
    <3> DEFINE opened == [k \in DOMAIN trades |-> trades[k].opened]
    <3>1. opened \in Seq(Nat) /\ Len(opened) = n /\ \A k \in 1 .. n : opened[k] = trades[k].opened
      <4>1. \A k \in 1 .. n : trades[k] \in ClosedTrade
        BY <2>1, RowsTyped
      <4>2. \A k \in 1 .. n : trades[k].opened \in Nat
        BY <4>1 DEF ClosedTrade
      <4>3. opened \in [1 .. n -> Nat]
        BY <2>2, <4>2
      <4> QED BY <2>2, <4>3
    <3> HIDE DEF opened, n
    <3>2. CASE openTrade = NoTrade
      <4>1. EntryTimes = opened \o <<>>
        BY <3>2 DEF EntryTimes, opened
      <4>2. opened \o <<>> = opened
        BY <3>1
      <4> QED BY <2>2, <3>1, <3>2, <4>1, <4>2
    <3>3. CASE openTrade # NoTrade
      <4> DEFINE o == openTrade.opened
      <4>1. EntryTimes = opened \o <<o>> /\ o \in Nat
        BY <2>1, <3>3 DEF EntryTimes, opened, Trade
      <4> HIDE DEF o
      <4>2. /\ Len(opened \o <<o>>) = n + 1 /\ (opened \o <<o>>)[n + 1] = o
            /\ \A k \in 1 .. n : (opened \o <<o>>)[k] = opened[k]
            /\ opened \o <<o>> \in Seq(Nat)
        <5>1. opened \o <<o>> = Append(opened, o)
          BY <3>1, <4>1
        <5>2. /\ Len(Append(opened, o)) = Len(opened) + 1
              /\ Append(opened, o)[Len(opened) + 1] = o
              /\ \A k \in 1 .. Len(opened) : Append(opened, o)[k] = opened[k]
              /\ Append(opened, o) \in Seq(Nat)
          BY <3>1, <4>1
        <5> QED BY <3>1, <5>1, <5>2
      <4>3. /\ EntryTimes \in Seq(Nat) /\ Len(EntryTimes) = n + 1
            /\ EntryTimes[n + 1] = o /\ \A k \in 1 .. n : EntryTimes[k] = opened[k]
        BY <4>1, <4>2
      <4>4. DOMAIN EntryTimes = 1 .. n + 1
        BY <4>3
      <4>5. \A k \in 1 .. n : EntryTimes[k] = trades[k].opened
        BY <3>1, <4>3
      <4> QED BY <3>3, <4>3, <4>4, <4>5 DEF o
    <3> QED BY <3>2, <3>3
  <2> HIDE DEF n
  <2>4. ASSUME NEW k \in DOMAIN EntryTimes PROVE EntryAllowed(trades, k, EntryTimes[k])
    <3>1. CASE k \in 1 .. n
      BY <2>1, <2>2, <2>3, <3>1 DEF LogIsSound
    <3>2. CASE k \notin 1 .. n
      <4>1. openTrade # NoTrade /\ k = n + 1
        BY <2>2, <2>3, <3>2
      <4> QED BY <2>1, <2>3, <4>1 DEF EntryWasSound, n
    <3> QED BY <3>1, <3>2
  <2>5. \A k : /\ RealizedThatDay(k) = ThatDay(trades, k, EntryTimes[k])
               /\ BalanceBefore(k) = Before(trades, k)
    BY DEF RealizedThatDay, ThatDay, BalanceBefore, Before
  <2> QED BY <2>4, <2>5 DEF LogObeysRiskRules, EntryAllowed
<1> QED BY <1>1, EngineInitInv, EngineNextInv, PTL DEF EngineSpec

\* A finite set of integers that is not empty has a maximum.
LEMMA MaxBounds ==
  ASSUME NEW S \in SUBSET Int, IsFiniteSet(S), NEW x \in S
  PROVE  Max(S) \in Int /\ x <= Max(S)
<1> DEFINE Below(y) == {z \in S : z < y}
           N == {Cardinality(S \ Below(y)) : y \in S}
<1>1. N \in SUBSET Nat /\ N # {}
  <2>1. ASSUME NEW y \in S PROVE Cardinality(S \ Below(y)) \in Nat
    <3>1. S \ Below(y) \in SUBSET S
      OBVIOUS
    <3> HIDE DEF Below
    <3> QED BY <3>1, FS_Subset, FS_CardinalityType
  <2> HIDE DEF Below
  <2> QED BY <2>1
<1>2. PICK m \in S : \A y \in S : Cardinality(S \ Below(m)) <= Cardinality(S \ Below(y))
  <2>1. \E n \in N : \A i \in N : n <= i
    <3> HIDE DEF N
    <3> QED BY <1>1, LeastNat
  <2> HIDE DEF Below
  <2> QED BY <2>1
<1>3. \A y \in S : y <= m
  <2> SUFFICES ASSUME NEW y \in S, m < y PROVE FALSE
    OBVIOUS
  <2> DEFINE A == S \ Below(m)
             B == S \ Below(y)
  <2>1. B \in SUBSET A /\ m \in A /\ m \notin B
    <3>1. \A z \in S : z \in Int
      OBVIOUS
    <3>2. y \in Int /\ m \in Int
      BY <3>1
    <3>3. \A z \in S : z < m => z < y
      BY <3>1, <3>2
    <3>4. ~(m < m)
      BY <3>2
    <3> QED BY <3>3, <3>4
  <2>2. IsFiniteSet(A)
    BY FS_Subset
  <2>3. Cardinality(A) <= Cardinality(B)
    BY <1>2
  <2> HIDE DEF A, B
  <2>4. Cardinality(B) <= Cardinality(A) /\ Cardinality(A) \in Nat /\ Cardinality(B) \in Nat
    BY <2>1, <2>2, FS_Subset, FS_CardinalityType
  <2>5. Cardinality(A) = Cardinality(B)
    BY <2>3, <2>4
  <2>6. A = B
    BY <2>1, <2>2, <2>5, FS_Subset
  <2> QED BY <2>1, <2>6
<1>4. Max(S) \in S /\ \A y \in S : y <= Max(S)
  <2>1. \E z \in S : \A y \in S : z >= y
    BY <1>3
  <2> QED BY <2>1 DEF Max
<1> QED BY <1>4

\* The points of a curve are finitely many.
LEMMA PointsCounted ==
  ASSUME NEW n \in Nat, NEW f \in [1 .. n -> Int]
  PROVE  {f[j] : j \in 1 .. n} \in SUBSET Int /\ IsFiniteSet({f[j] : j \in 1 .. n})
<1> DEFINE T == {f[j] : j \in 1 .. n}
<1>1. f \in Surjection(1 .. n, T)
  BY DEF Surjection
<1>2. IsFiniteSet(1 .. n)
  BY FS_Interval
<1>3. T \in SUBSET Int
  OBVIOUS
<1> HIDE DEF T
<1>4. IsFiniteSet(T)
  BY <1>1, <1>2, FS_Surjection
<1> QED BY <1>3, <1>4 DEF T

\* The report agrees with the money: the log adds up to the final balance, where the curve
\* ends; the drawdown covers the loss, and a run that lost is not called favourable.
THEOREM ReportMatches == EngineSpec => []ReportMatchesMoney
<1>1. EngineInv => ReportMatchesMoney
  <2> SUFFICES ASSUME EngineInv, finished
      PROVE  /\ NetPnl = balance - StartingBalance
             /\ curve[eventTime] = balance
             /\ MaxDrawdown >= StartingBalance - balance
             /\ balance <= StartingBalance => \A oos \in {"NONE", "LOSS", "WIN"} :
                    Verdict(oos) \in {"NEEDS_MORE_DATA", "FAILED"}
    BY DEF ReportMatchesMoney
  <2>1. /\ eventTime \in Nat /\ eventTime > 0 /\ balance \in Int /\ curve \in Seq(Int)
        /\ Len(curve) = eventTime /\ trades \in Seq(ClosedTrade)
        /\ balance = Before(trades, Len(trades) + 1) /\ curve[eventTime] = balance
    BY DEF EngineInv, EngineTypeOK
  <2>2. StartingBalance \in Int
    BY EngineAssumption
  <2>3. NetPnl = balance - StartingBalance /\ NetPnl \in Int
    <3> DEFINE f == [j \in 1 .. Len(trades) |-> trades[j].pnl]
    <3>1. f \in [1 .. Len(trades) -> Int] /\ IsFiniteSet(1 .. Len(trades))
      <4>1. Len(trades) \in Nat /\ \A k \in 1 .. Len(trades) : trades[k].pnl \in Int
        BY <2>1, RowsTyped
      <4>2. IsFiniteSet(1 .. Len(trades))
        <5> DEFINE n == Len(trades)
        <5>1. n \in Int /\ 1 \in Int
          BY <4>1
        <5> HIDE DEF n
        <5>2. IsFiniteSet(1 .. n)
          BY <5>1, FS_Interval
        <5> QED BY <5>2 DEF n
      <4>3. f \in [1 .. Len(trades) -> Int]
        BY <4>1
      <4> QED BY <4>2, <4>3
    <3>2. NetPnl = SumFunction(f)
      BY <2>1 DEF NetPnl, Pnls
    <3>3. Len(trades) + 1 - 1 = Len(trades)
      BY <2>1
    <3>4. Before(trades, Len(trades) + 1) = StartingBalance + SumFunction(f)
      BY <3>3 DEF Before
    <3> HIDE DEF f
    <3>5. SumFunction(f) \in Int
      BY <3>1, SumType
    <3> QED BY <2>1, <2>2, <3>2, <3>4, <3>5
  <2>4. MaxDrawdown >= StartingBalance - balance
    <3> DEFINE Points(k) == {curve[j] : j \in 1 .. k}
               falls == {Fall(k) : k \in DOMAIN curve}
    <3>1. \A k \in 1 .. eventTime : curve[k] \in Int
      BY <2>1
    <3>2. ASSUME NEW k \in 1 .. eventTime
          PROVE  PeakUpTo(k) \in Int /\ StartingBalance <= PeakUpTo(k)
      <4> DEFINE f == [j \in 1 .. k |-> curve[j]]
                 T == {f[j] : j \in 1 .. k}
                 S == {StartingBalance} \cup T
      <4>1. k \in Nat /\ f \in [1 .. k -> Int] /\ T = Points(k)
        BY <2>1, <3>1
      <4>2. T \in SUBSET Int /\ IsFiniteSet(T)
        <5> HIDE DEF f
        <5> QED BY <4>1, PointsCounted
      <4> HIDE DEF T
      <4>3. S \in SUBSET Int /\ IsFiniteSet(S) /\ StartingBalance \in S
        <5>1. IsFiniteSet(T \cup {StartingBalance})
          BY <4>2, FS_AddElement
        <5>2. S = T \cup {StartingBalance}
          OBVIOUS
        <5> QED BY <2>2, <4>2, <5>1, <5>2
      <4> HIDE DEF S
      <4>4. Max(S) \in Int /\ StartingBalance <= Max(S)
        BY <4>3, MaxBounds
      <4> QED BY <4>1, <4>4 DEF PeakUpTo, S
    <3>3. \A k \in 1 .. eventTime : Fall(k) \in Int
      <4> SUFFICES ASSUME NEW k \in 1 .. eventTime PROVE Fall(k) \in Int
        OBVIOUS
      <4>1. PeakUpTo(k) \in Int /\ curve[k] \in Int
        BY <3>1, <3>2
      <4> QED BY <4>1 DEF Fall
    <3>4. eventTime \in 1 .. eventTime /\ DOMAIN curve = 1 .. eventTime
      BY <2>1
    <3>5. Fall(eventTime) >= StartingBalance - balance
      <4>1. PeakUpTo(eventTime) \in Int /\ StartingBalance <= PeakUpTo(eventTime)
        BY <3>2, <3>4
      <4> QED BY <2>1, <2>2, <4>1 DEF Fall
    <3> DEFINE g == [k \in 1 .. eventTime |-> Fall(k)]
               T == {g[k] : k \in 1 .. eventTime}
               S == {0} \cup T
    <3>6. g \in [1 .. eventTime -> Int] /\ T = falls /\ Fall(eventTime) \in T
      BY <3>3, <3>4
    <3>7. T \in SUBSET Int /\ IsFiniteSet(T)
      <4> HIDE DEF g
      <4> QED BY <2>1, <3>6, PointsCounted
    <3> HIDE DEF T
    <3>8. S \in SUBSET Int /\ IsFiniteSet(S) /\ Fall(eventTime) \in S
      <4>1. IsFiniteSet(T \cup {0})
        BY <3>7, FS_AddElement
      <4>2. S = T \cup {0}
        OBVIOUS
      <4> QED BY <3>6, <3>7, <4>1, <4>2
    <3> HIDE DEF S
    <3>9. Max(S) \in Int /\ Fall(eventTime) <= Max(S)
      BY <3>8, MaxBounds
    <3>10. MaxDrawdown = Max(S)
      BY <3>6 DEF MaxDrawdown, S
    <3>11. Fall(eventTime) \in Int
      BY <3>3, <3>4
    <3> HIDE DEF falls
    <3> QED BY <2>1, <2>2, <3>5, <3>9, <3>10, <3>11
  <2>5. ASSUME balance <= StartingBalance, NEW oos \in {"NONE", "LOSS", "WIN"}
        PROVE  Verdict(oos) \in {"NEEDS_MORE_DATA", "FAILED"}
    <3>1. NetPnl <= 0
      BY <2>1, <2>2, <2>3, <2>5
    <3>2. Disappointing(oos)
      BY <3>1 DEF Disappointing
    <3>3. Len(trades) < MinTrades \/ Len(trades) >= MinTrades
      BY <2>1, EngineAssumption
    <3> QED BY <3>2, <3>3 DEF Verdict
  <2> QED BY <2>1, <2>3, <2>4, <2>5
<1> QED BY <1>1, EngineInitInv, EngineNextInv, PTL DEF EngineSpec

===============================================================================
