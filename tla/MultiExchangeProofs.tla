------------------------- MODULE MultiExchangeProofs -------------------------
(***************************************************************************)
(* Theorems about the multi-exchange execution path for any number of      *)
(* concurrent callers, client order ids, requests, retries and crashes.    *)
(*                                                                         *)
(* OneCallPerId and LedgerCoversVenue are not inductive: both rest on who  *)
(* holds the claim of an id.  ClaimInv says that a call past its claim     *)
(* owns its row alone, that the row is still PENDING for its own request,  *)
(* and that nothing was sent for an id without a row.                      *)
(***************************************************************************)
EXTENDS MultiExchange, TLAPS

\* The steps of an execute call after its claim.
Claimed(c) == caller[c].pc \in {"WAIT", "SEND", "FAILED", "DONE"}

\* A call past its claim holds a PENDING row for exactly its request.
ClaimOwned ==
    \A c \in Callers : Claimed(c) =>
        row[Req(c).id].status = "PENDING" /\ row[Req(c).id].req = Req(c)

\* No two calls hold the same id.
ClaimUnique ==
    \A c, d \in Callers : Claimed(c) /\ Claimed(d) /\ Req(c).id = Req(d).id => c = d

\* An id without a row was never sent, nor was one whose call still waits.
NotYetSent ==
    /\ \A i \in Ids : row[i].status = "NONE" => calls[i] = 0
    /\ \A c \in Callers : At(c, "WAIT") => calls[Req(c).id] = 0

\* A row is filed under the id of its request.
RowsFiledById == \A i \in Ids : row[i].status # "NONE" => row[i].req.id = i

ClaimInv == ClaimOwned /\ ClaimUnique /\ NotYetSent /\ RowsFiledById

\* What the preflight has read so far was in sight when it was read, and what it is about
\* to read is, whatever was sent since its first read.
ReadingIsReal ==
    /\ preflight.open \cup preflight.recent \subseteq sight
    /\ preflight.pc = "RECENT" => Newest \subseteq sight

IInv == TypeOK /\ ClaimInv /\ OneCallPerId /\ LedgerCoversVenue /\ ReadingIsReal
(***************************************************************************)
(* Lemmas                                                                  *)
(***************************************************************************)

\* Rounding down to the step never raises a quantity.
LEMMA NormalizedRoundsDown ==
    ASSUME NEW q \in Nat
    PROVE  Normalized(q) \in Nat /\ Normalized(q) <= q
<1> DEFINE n == q \div Step
<1>1. Step \in Nat /\ Step > 0
  BY LimitAssumption
<1>2. n \in Nat /\ q = Step * n + (q % Step) /\ q % Step \in Nat
  BY <1>1
<1>3. n * Step = Step * n /\ n * Step \in Nat
  BY <1>1, <1>2
<1> QED
  BY <1>2, <1>3 DEF Normalized

\* A call past its claim carries a request, and its id is a client order id.
LEMMA ClaimedCall ==
    ASSUME TypeOK, NEW c \in Callers, Claimed(c)
    PROVE  /\ caller[c] \in Call
           /\ Req(c) \in Requests /\ Req(c).id \in Ids /\ Req(c).qty \in Nat
  BY RequestAssumption DEF TypeOK, Claimed, Req, NoCall, Call, RequestSet

\* A call that moves to another step keeps its request.
LEMMA CallMoves ==
    ASSUME NEW k \in Call, NEW s \in {"WAIT", "SEND", "FAILED", "DONE"}
    PROVE  /\ [k EXCEPT !.pc = s] \in Call
           /\ [k EXCEPT !.pc = s].pc = s /\ [k EXCEPT !.pc = s].req = k.req
  BY DEF Call

\* So does one that tries again.
LEMMA CallRetries ==
    ASSUME NEW k \in Call, k.attempt < MaxRetries
    PROVE  /\ [k EXCEPT !.attempt = @ + 1] \in Call
           /\ [k EXCEPT !.attempt = @ + 1].pc = k.pc
           /\ [k EXCEPT !.attempt = @ + 1].req = k.req
  BY LimitAssumption DEF Call

\* The other calls are not affected.
LEMMA OneCallChanges ==
    ASSUME TypeOK, NEW c \in Callers, Claimed(c), NEW k \in Call,
           k.req = Req(c), caller' = [caller EXCEPT ![c] = k]
    PROVE  /\ caller' \in [Callers -> {NoCall} \cup Call]
           /\ At(c, k.pc)'
           /\ \A d \in Callers : d # c => caller'[d] = caller[d]
           /\ \A d \in Callers : /\ Claimed(d)' = Claimed(d)
                                 /\ Claimed(d) => Req(d)' = Req(d)
<1>1. /\ caller' \in [Callers -> {NoCall} \cup Call]
      /\ caller'[c] = k
      /\ \A d \in Callers : d # c => caller'[d] = caller[d]
  BY DEF TypeOK
<1>2. Claimed(c)' /\ Req(c)' = Req(c)
  BY <1>1 DEF Claimed, Req, Call
<1> QED
  BY <1>1, <1>2 DEF Claimed, Req, At

\* An appended order joins the accepted ones.
LEMMA AcceptedGrows ==
    ASSUME TypeOK, NEW o \in VenueOrder, history' = Append(history, o)
    PROVE  /\ history' \in Seq(VenueOrder)
           /\ Accepted' = Accepted \cup {o.id}
           /\ DOMAIN history' = DOMAIN history \cup {Len(history) + 1}
           /\ \A k \in DOMAIN history : history'[k] = history[k]
           /\ history'[Len(history) + 1] = o
<1>1. history \in Seq(VenueOrder) /\ DOMAIN history = 1 .. Len(history)
  BY DEF TypeOK
<1>2. /\ history' \in Seq(VenueOrder)
      /\ DOMAIN history' = 1 .. Len(history) + 1
      /\ \A k \in DOMAIN history : history'[k] = history[k]
      /\ history'[Len(history) + 1] = o
  BY <1>1
<1>3. DOMAIN history' = DOMAIN history \cup {Len(history) + 1}
  BY <1>1, <1>2
<1> QED
  BY <1>2, <1>3 DEF Accepted

\* It joins the newest ones, and nothing that had left them comes back.
LEMMA NewestGrows ==
    ASSUME TypeOK, NEW o \in VenueOrder, history' = Append(history, o)
    PROVE  Newest' \subseteq Newest \cup {o.id}
<1>1. /\ history \in Seq(VenueOrder) /\ Len(history) \in Nat
      /\ DOMAIN history = 1 .. Len(history) /\ RecentLimit \in Nat
  BY LimitAssumption DEF TypeOK
<1>2. /\ DOMAIN history' = DOMAIN history \cup {Len(history) + 1}
      /\ \A k \in DOMAIN history : history'[k] = history[k]
      /\ history'[Len(history) + 1] = o
  BY AcceptedGrows
<1>3. Len(history') = Len(history) + 1
  BY <1>1
<1>4. ASSUME NEW k \in DOMAIN history', k > Len(history') - RecentLimit
      PROVE  history'[k].id \in Newest \cup {o.id}
  <2>1. CASE k = Len(history) + 1
    BY <1>2, <2>1
  <2>2. CASE k \in DOMAIN history
    BY <1>1, <1>2, <1>3, <1>4, <2>2 DEF Newest
  <2> QED
    BY <1>2, <2>1, <2>2
<1> QED
  BY <1>4 DEF Newest

\* What the venue accepted are orders with client order ids.
LEMMA AcceptedIds ==
    ASSUME TypeOK
    PROVE  /\ \A k \in DOMAIN history : history[k].id \in Ids /\ history[k].qty \in Nat
           /\ Accepted \subseteq Ids
<1>1. \A k \in DOMAIN history : history[k] \in VenueOrder
  BY DEF TypeOK
<1> QED
  BY <1>1 DEF Accepted, VenueOrder

(***************************************************************************)
(* The initial state                                                       *)
(***************************************************************************)

\* Empty tables, an empty venue and idle callers satisfy the invariant.
LEMMA InitIInv == Init => IInv
<1> SUFFICES ASSUME Init PROVE IInv
  OBVIOUS
<1>1. TypeOK
  BY LimitAssumption DEF Init, TypeOK, NoRow, NoCall, NoReport, Accepted
<1>2. ClaimInv
  BY DEF Init, ClaimInv, ClaimOwned, ClaimUnique, NotYetSent, RowsFiledById, Claimed, NoCall, At,
         NoRow
<1>3. OneCallPerId /\ LedgerCoversVenue /\ ReadingIsReal
  BY DEF Init, OneCallPerId, LedgerCoversVenue, ReadingIsReal, NoReport
<1> QED
  BY <1>1, <1>2, <1>3 DEF IInv

(***************************************************************************)
(* One lemma per step of an execute call                                   *)
(***************************************************************************)

\* A claim: the id had no row, so nobody held it and nothing was sent.
LEMMA ExecuteStep ==
    ASSUME IInv, NEW c \in Callers, Execute(c) PROVE IInv'
<1> USE DEF IInv
<1>1. PICK r \in Requests :
        /\ Claimable(r)
        /\ row' = [row EXCEPT ![r.id] = [status |-> "PENDING", req |-> r]]
        /\ caller' = [caller EXCEPT ![c] = [pc |-> "WAIT", req |-> r, attempt |-> 0]]
  BY DEF Execute
<1>2. /\ ~Claimed(c)
      /\ UNCHANGED <<history, filled, resent, calls, positions, queue, preflight, sight, crashes>>
  BY DEF Execute, At, Claimed, venue
<1>3. r.id \in Ids /\ row[r.id].status = "NONE"
  BY <1>1, RequestAssumption DEF Claimable, RequestSet
<1>4. TypeOK'
  <2>1. [pc |-> "WAIT", req |-> r, attempt |-> 0] \in Call
    BY LimitAssumption DEF Call
  <2> QED
    BY <1>1, <1>2, <1>3, <2>1 DEF TypeOK, Accepted
<1>5. \A d \in Callers : Claimed(d) => Req(d).id # r.id
  BY <1>3 DEF ClaimInv, ClaimOwned
<1>6. \A d \in Callers \ {c} : caller'[d] = caller[d]
  BY <1>1
<1>7. caller'[c] = [pc |-> "WAIT", req |-> r, attempt |-> 0]
  BY <1>1 DEF TypeOK
<1>8. ClaimOwned'
  BY <1>1, <1>3, <1>5, <1>6, <1>7, ClaimedCall DEF ClaimInv, ClaimOwned, Claimed, Req, TypeOK
<1>9. ClaimUnique'
  BY <1>5, <1>6, <1>7 DEF ClaimInv, ClaimUnique, Claimed, Req
<1>10. NotYetSent' /\ RowsFiledById'
  BY <1>1, <1>2, <1>3, <1>6, <1>7
     DEF ClaimInv, NotYetSent, RowsFiledById, At, Req, NoRow, TypeOK
<1>11. LedgerCoversVenue'
  <2> SUFFICES ASSUME NEW k \in DOMAIN history
               PROVE  LET i == history[k].id IN
                      /\ row'[i].status # "NONE"
                      /\ history[k].qty <= row'[i].req.qty
                      /\ history[k].symbol = row'[i].req.symbol
    BY <1>2 DEF LedgerCoversVenue
  <2>1. history[k].id # r.id
    BY <1>3 DEF LedgerCoversVenue
  <2> QED
    BY <1>1, <2>1 DEF LedgerCoversVenue, TypeOK
<1>12. OneCallPerId' /\ ReadingIsReal'
  BY <1>2 DEF OneCallPerId, ReadingIsReal, Newest, Accepted
<1> QED
  BY <1>4, <1>8, <1>9, <1>10, <1>11, <1>12 DEF ClaimInv

\* A step of c that leaves the ledger and the venue alone and keeps c's claim or drops it.
LEMMA RefuseLocallyStep ==
    ASSUME IInv, NEW c \in Callers, RefuseLocally(c) PROVE IInv'
<1> USE DEF IInv
<1> DEFINE k == [caller[c] EXCEPT !.pc = "FAILED"]
<1>1. /\ Claimed(c) /\ caller' = [caller EXCEPT ![c] = k]
      /\ UNCHANGED <<row, history, filled, resent, calls, positions, queue, preflight, sight, crashes>>
  BY DEF RefuseLocally, At, Claimed, Goto, venue
<1> HIDE DEF k
<1>2. k \in Call /\ k.pc = "FAILED" /\ k.req = Req(c)
  BY <1>1, ClaimedCall, CallMoves DEF k, Req
<1>3. /\ caller' \in [Callers -> {NoCall} \cup Call]
      /\ \A d \in Callers : /\ Claimed(d)' = Claimed(d)
                            /\ Claimed(d) => Req(d)' = Req(d)
                            /\ At(d, "WAIT")' => At(d, "WAIT")
  BY <1>1, <1>2, OneCallChanges DEF At
<1>4. TypeOK'
  BY <1>1, <1>3 DEF TypeOK, Accepted
<1>5. ClaimInv'
  BY <1>1, <1>3 DEF ClaimInv, ClaimOwned, ClaimUnique, NotYetSent, RowsFiledById, Claimed, At
<1> QED
  BY <1>1, <1>4, <1>5 DEF OneCallPerId, LedgerCoversVenue, ReadingIsReal, Newest, Accepted

\* The holder of the queue goes on to send: the first and last time for its id.
LEMMA EnterQueueStep ==
    ASSUME IInv, NEW c \in Callers, EnterQueue(c) PROVE IInv'
<1> USE DEF IInv
<1> DEFINE k == [caller[c] EXCEPT !.pc = "SEND"]
<1>1. /\ At(c, "WAIT") /\ Claimed(c)
      /\ caller' = [caller EXCEPT ![c] = k] /\ queue' = c
      /\ calls' = [calls EXCEPT ![Req(c).id] = @ + 1]
      /\ UNCHANGED <<row, history, filled, resent, positions, preflight, sight, crashes>>
  BY DEF EnterQueue, At, Claimed, Goto, venue
<1>2. Req(c).id \in Ids /\ calls[Req(c).id] = 0
  BY <1>1, ClaimedCall DEF ClaimInv, NotYetSent
<1> HIDE DEF k
<1>3. k \in Call /\ k.pc = "SEND" /\ k.req = Req(c)
  BY <1>1, ClaimedCall, CallMoves DEF k, Req
<1>4. /\ caller' \in [Callers -> {NoCall} \cup Call]
      /\ \A d \in Callers : /\ Claimed(d)' = Claimed(d)
                            /\ Claimed(d) => Req(d)' = Req(d)
                            /\ At(d, "WAIT")' => At(d, "WAIT") /\ d # c
  BY <1>1, <1>3, OneCallChanges DEF At
<1>10. TypeOK'
  BY <1>1, <1>2, <1>4 DEF TypeOK, Accepted
<1>5. \A i \in Ids \ {Req(c).id} : calls'[i] = calls[i]
  BY <1>1 DEF TypeOK
<1>6. calls'[Req(c).id] = 1
  BY <1>1, <1>2 DEF TypeOK
<1>7. ClaimOwned' /\ ClaimUnique' /\ RowsFiledById'
  BY <1>1, <1>4 DEF ClaimInv, ClaimOwned, ClaimUnique, RowsFiledById
<1>8. NotYetSent'
  <2>1. \A i \in Ids : row'[i].status = "NONE" => calls'[i] = 0
    BY <1>1, <1>5 DEF ClaimInv, ClaimOwned, NotYetSent
  <2>2. ASSUME NEW d \in Callers, At(d, "WAIT")' PROVE calls'[Req(d)'.id] = 0
    <3>1. At(d, "WAIT") /\ d # c /\ Claimed(d) /\ Req(d)' = Req(d)
      BY <1>4, <2>2 DEF At, Claimed
    <3>2. Req(d).id # Req(c).id /\ Req(d).id \in Ids
      BY <1>1, <3>1, ClaimedCall DEF ClaimInv, ClaimUnique
    <3> QED
      BY <1>5, <3>1, <3>2 DEF ClaimInv, NotYetSent
  <2> QED
    BY <2>1, <2>2 DEF NotYetSent
<1>9. OneCallPerId'
  BY <1>5, <1>6 DEF OneCallPerId
<1> QED
  BY <1>1, <1>10, <1>7, <1>8, <1>9 DEF ClaimInv, LedgerCoversVenue, ReadingIsReal, Newest, Accepted

\* One attempt: whatever the venue does with it, the order is the claimed one.
LEMMA SendOrderStep ==
    ASSUME IInv, NEW c \in Callers, SendOrder(c) PROVE IInv'
<1> USE DEF IInv
<1> DEFINE o == [Req(c) EXCEPT !.qty = Normalized(@)]
<1>1. /\ At(c, "SEND") /\ Claimed(c)
      /\ history' \in {history, Append(history, o)}
      /\ resent' \in {resent, resent \cup {Req(c).id}}
      /\ queue' \in {queue, NoOne}
      /\ sight' \in {sight, sight \cup {Req(c).id}}
      /\ sight' = sight => history' = history \/ preflight.pc # "RECENT" \/ Req(c).id \in sight
      /\ sight' # sight => history' = Append(history, o)
      /\ UNCHANGED <<row, filled, calls, positions, preflight, crashes>>
  BY DEF SendOrder, At, Claimed, LeaveQueue
<1>2. /\ Req(c) \in Requests /\ Req(c).id \in Ids /\ Req(c).qty \in Nat
      /\ Req(c) \in RequestSet /\ caller[c] \in Call
  BY <1>1, ClaimedCall, RequestAssumption
<1>3. /\ o \in VenueOrder
      /\ o.id = Req(c).id /\ o.symbol = Req(c).symbol /\ o.qty <= Req(c).qty
  BY <1>2, NormalizedRoundsDown DEF RequestSet, VenueOrder
<1> HIDE DEF o
<1>4. /\ Accepted \subseteq Accepted' /\ Accepted' \subseteq Accepted \cup {Req(c).id}
      /\ history' \in Seq(VenueOrder) /\ sight' \subseteq Accepted'
  <2>1. CASE history' = history
    BY <1>1, <2>1 DEF TypeOK, Accepted
  <2>2. CASE history' = Append(history, o)
    BY <1>1, <1>3, <2>2, AcceptedGrows DEF TypeOK
  <2> QED
    BY <1>1, <2>1, <2>2
<1>5. PICK k \in Call : /\ caller' = [caller EXCEPT ![c] = k]
                        /\ k.req = Req(c) /\ k.pc # "WAIT"
  <2>1. CASE Goto(c, "DONE") \/ Goto(c, "FAILED")
    BY <1>2, <2>1, CallMoves DEF Goto, Req
  <2>2. CASE /\ caller[c].attempt < MaxRetries
             /\ caller' = [caller EXCEPT ![c].attempt = @ + 1]
    BY <1>1, <1>2, <2>2, CallRetries DEF At, Req
  <2> QED
    BY <2>1, <2>2 DEF SendOrder
<1>7. /\ caller' \in [Callers -> {NoCall} \cup Call]
      /\ \A d \in Callers : /\ Claimed(d)' = Claimed(d)
                            /\ Claimed(d) => Req(d)' = Req(d)
                            /\ At(d, "WAIT")' => At(d, "WAIT")
  BY <1>1, <1>5, OneCallChanges DEF At
<1>6. TypeOK'
  BY <1>1, <1>2, <1>4, <1>7 DEF TypeOK
<1>8. ClaimInv'
  BY <1>1, <1>7 DEF ClaimInv, ClaimOwned, ClaimUnique, NotYetSent, RowsFiledById, Claimed, At
<1>9. LedgerCoversVenue'
  <2>1. CASE history' = history
    BY <1>1, <2>1 DEF LedgerCoversVenue
  <2>2. CASE history' = Append(history, o)
    <3>1. row[o.id].status = "PENDING" /\ row[o.id].req = Req(c)
      BY <1>1, <1>3 DEF ClaimInv, ClaimOwned
    <3>2. /\ DOMAIN history' = DOMAIN history \cup {Len(history) + 1}
          /\ \A i \in DOMAIN history : history'[i] = history[i]
          /\ history'[Len(history) + 1] = o
      BY <1>3, <2>2, AcceptedGrows
    <3> QED
      BY <1>1, <1>3, <3>1, <3>2 DEF LedgerCoversVenue
  <2> QED
    BY <1>1, <2>1, <2>2
<1>10. ReadingIsReal'
  <2>1. sight \subseteq sight'
    BY <1>1
  <2>2. ASSUME preflight.pc = "RECENT" PROVE Newest' \subseteq sight'
    <3>1. CASE history' = history
      BY <2>1, <2>2, <3>1 DEF ReadingIsReal, Newest
    <3>2. CASE history' = Append(history, o)
      <4>1. Newest' \subseteq Newest \cup {o.id}
        BY <1>3, <3>2, NewestGrows
      <4>2. o.id \in sight'
        <5>1. history' # history
          BY <3>2 DEF TypeOK
        <5> QED BY <1>1, <1>3, <2>2, <5>1
      <4> QED BY <2>1, <2>2, <4>1, <4>2 DEF ReadingIsReal
    <3> QED BY <1>1, <3>1, <3>2
  <2> QED
    BY <1>1, <2>1, <2>2 DEF ReadingIsReal
<1> QED
  BY <1>1, <1>6, <1>8, <1>9, <1>10 DEF OneCallPerId

\* A call ends: its row gets a final status, its payload stays.
LEMMA OutcomeStep ==
    ASSUME IInv, NEW c \in Callers, MarkUnknown(c) \/ MarkOrder(c) PROVE IInv'
<1> USE DEF IInv
<1>1. PICK s \in {"UNKNOWN", "SUBMITTED"} :
        /\ Claimed(c) /\ row' = [row EXCEPT ![Req(c).id].status = s]
        /\ caller' = [caller EXCEPT ![c] = NoCall]
  BY DEF MarkUnknown, MarkOrder, Mark, Return, At, Claimed
<1>2. /\ positions' \subseteq positions \cup {Req(c)}
      /\ UNCHANGED <<history, filled, resent, calls, queue, preflight, sight, crashes>>
  BY DEF MarkUnknown, MarkOrder, venue
<1>3. Req(c) \in Requests /\ Req(c).id \in Ids
  BY <1>1, ClaimedCall
<1>4. row[Req(c).id] \in [status : {"PENDING", "SUBMITTED", "UNKNOWN"}, req : Requests]
  BY <1>1, <1>3 DEF ClaimInv, ClaimOwned, TypeOK, NoRow
<1>5. /\ row'[Req(c).id].status = s /\ row'[Req(c).id].req = row[Req(c).id].req
      /\ \A i \in Ids \ {Req(c).id} : row'[i] = row[i]
      /\ row' \in [Ids -> {NoRow} \cup
                     [status : {"PENDING", "SUBMITTED", "UNKNOWN"}, req : Requests]]
  BY <1>1, <1>3, <1>4 DEF TypeOK
<1>6. TypeOK'
  BY <1>1, <1>2, <1>3, <1>5 DEF TypeOK, Accepted
<1>7. /\ ~Claimed(c)' /\ ~At(c, "WAIT")'
      /\ \A d \in Callers \ {c} : caller'[d] = caller[d]
  BY <1>1 DEF TypeOK, Claimed, NoCall, At
<1>8. \A d \in Callers \ {c} : Claimed(d) => Req(d).id # Req(c).id /\ Req(d).id \in Ids
  BY <1>1, ClaimedCall DEF ClaimInv, ClaimUnique
<1>9. ClaimOwned' /\ ClaimUnique'
  BY <1>5, <1>7, <1>8 DEF ClaimInv, ClaimOwned, ClaimUnique, Claimed, Req
<1>10. NotYetSent' /\ RowsFiledById'
  BY <1>2, <1>3, <1>4, <1>5, <1>7, <1>8
     DEF ClaimInv, NotYetSent, RowsFiledById, At, Req, Claimed
<1>11. LedgerCoversVenue'
  <2>1. \A k \in DOMAIN history : history[k].id \in Ids
    BY AcceptedIds
  <2> QED
    BY <1>2, <1>5, <2>1 DEF LedgerCoversVenue
<1> QED
  BY <1>2, <1>6, <1>9, <1>10, <1>11 DEF ClaimInv, OneCallPerId, ReadingIsReal, Newest, Accepted

(***************************************************************************)
(* Venue, preflight and crash                                              *)
(***************************************************************************)

\* Steps of the venue and the preflight touch neither the ledger nor the calls.
LEMMA ObserverStep ==
    ASSUME IInv, Fill \/ ReadOpenOrders \/ ReadRecentOrders \/ Reconcile PROVE IInv'
<1> USE DEF IInv
<1>1. UNCHANGED <<row, history, resent, calls, positions, queue, caller, crashes>>
  BY DEF Fill, ReadOpenOrders, ReadRecentOrders, Reconcile, venue
<1>2. /\ Accepted' = Accepted /\ Accepted \subseteq Ids
      /\ Newest' = Newest /\ Newest \subseteq Accepted
  BY <1>1, AcceptedIds DEF Accepted, Newest
<1>3. /\ filled' \subseteq Accepted
      /\ preflight'.open \cup preflight'.recent \subseteq sight' /\ sight' \subseteq Accepted
      /\ preflight'.pc = "RECENT" => Newest \subseteq sight'
      /\ preflight' \in [pc : {"OFF", "RECENT", "LEDGER", "REPORT"}, held : BOOLEAN,
                         open : SUBSET Ids, recent : SUBSET Ids,
                         verdict : {"NONE", "MATCH", "MISMATCH"}]
  <2>1. CASE Fill
    BY <2>1 DEF Fill, TypeOK, ReadingIsReal
  <2>2. CASE ReadOpenOrders
    BY <1>2, <2>2 DEF ReadOpenOrders, NoReport, TypeOK, venue
  <2>3. CASE ReadRecentOrders
    BY <1>2, <2>3 DEF ReadRecentOrders, TypeOK, ReadingIsReal, venue
  <2>4. CASE Reconcile
    BY <2>4 DEF Reconcile, NoReport, TypeOK, venue
  <2> QED
    BY <2>1, <2>2, <2>3, <2>4
<1>4. TypeOK' /\ ReadingIsReal'
  BY <1>1, <1>2, <1>3 DEF TypeOK, ReadingIsReal
<1> QED
  BY <1>1, <1>4 DEF ClaimInv, ClaimOwned, ClaimUnique, NotYetSent, RowsFiledById,
                    Claimed, Req, At, OneCallPerId, LedgerCoversVenue

\* A crash forgets the calls; rows, orders and counters stay.
LEMMA CrashStep == ASSUME IInv, Crash PROVE IInv'
<1> USE DEF IInv
<1>1. TypeOK'
  BY LimitAssumption DEF Crash, TypeOK, Accepted, venue
<1>2. \A c \in Callers : ~Claimed(c)' /\ ~At(c, "WAIT")'
  BY DEF Crash, Claimed, At, NoCall
<1>3. UNCHANGED <<row, history, calls, preflight, sight>>
  BY DEF Crash, venue
<1> QED
  BY <1>1, <1>2, <1>3 DEF ClaimInv, ClaimOwned, ClaimUnique, NotYetSent, RowsFiledById,
                          OneCallPerId, LedgerCoversVenue, ReadingIsReal, Newest, Accepted

\* The invariant is inductive.
LEMMA NextIInv == ASSUME IInv, [Next]_vars PROVE IInv'
<1>1. ASSUME NEW c \in Callers, Execute(c) \/ Progress(c) PROVE IInv'
  BY <1>1, ExecuteStep, RefuseLocallyStep, EnterQueueStep, SendOrderStep, OutcomeStep
     DEF Progress
<1>2. CASE UNCHANGED vars
  BY <1>2 DEF vars, IInv, TypeOK, ClaimInv, ClaimOwned, ClaimUnique, NotYetSent,
              RowsFiledById, Claimed, Req, At, OneCallPerId, LedgerCoversVenue,
              ReadingIsReal, Newest, Accepted
<1> QED
  BY <1>1, <1>2, ObserverStep, CrashStep DEF Next

(***************************************************************************)
(* Theorems                                                                *)
(***************************************************************************)

\* The invariant holds in every reachable state.
THEOREM Invariance == Spec => []IInv
<1>1. IInv /\ [Next]_vars => IInv'
  BY NextIInv
<1> QED
  BY InitIInv, <1>1, PTL DEF Spec

\* Ledger, venue, queue, callers and preflight keep their types.
THEOREM TypeCorrect == Spec => []TypeOK
<1>1. IInv => TypeOK
  BY DEF IInv
<1> QED
  BY Invariance, <1>1, PTL

\* However many callers reuse an id, before or after crashes, one gets to send it.
THEOREM OneCall == Spec => []OneCallPerId
<1>1. IInv => OneCallPerId
  BY DEF IInv
<1> QED
  BY Invariance, <1>1, PTL

\* The ledger accounts for every order at the venue with its payload.
THEOREM LedgerCovers == Spec => []LedgerCoversVenue
<1>1. IInv => LedgerCoversVenue
  BY DEF IInv
<1> QED
  BY Invariance, <1>1, PTL

\* A preflight that reports MATCH vouches for every active row: however long the
\* history it asks for and whatever is sent and filled between its reads, each
\* row's order was open or among the newest ones while it read.
THEOREM PreflightSound == Spec => PreflightIsSound
<1> DEFINE A == preflight'.verdict = "MATCH" /\ preflight.verdict # "MATCH"
                  => Active \subseteq sight
<1>1. ASSUME IInv, Next PROVE A
  <2> SUFFICES ASSUME preflight'.verdict = "MATCH", preflight.verdict # "MATCH"
               PROVE  Active \subseteq sight
    OBVIOUS
  <2>1. Reconcile
    <3>1. CASE \E c \in Callers : Execute(c) \/ Progress(c)
      BY <3>1 DEF Execute, Progress, RefuseLocally, EnterQueue, SendOrder, MarkUnknown, MarkOrder
    <3>2. CASE Fill \/ Crash
      BY <3>2 DEF Fill, Crash
    <3>3. CASE ReadOpenOrders
      BY <3>3 DEF ReadOpenOrders, NoReport
    <3>4. CASE ReadRecentOrders
      BY <1>1, <3>4 DEF ReadRecentOrders, IInv, TypeOK
    <3> QED
      BY <1>1, <3>1, <3>2, <3>3, <3>4 DEF Next
  <2>2. Unresolved(preflight.open \cup preflight.recent) = {}
    BY <2>1 DEF Reconcile, NoReport
  <2> QED
    BY <1>1, <2>2 DEF Unresolved, IInv, ReadingIsReal
<1>2. IInv /\ [Next]_vars => [A]_vars
  BY <1>1
<1> QED
  BY Invariance, <1>2, PTL DEF Spec, PreflightIsSound
=============================================================================
