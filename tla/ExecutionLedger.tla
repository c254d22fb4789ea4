-------------------------- MODULE ExecutionLedger --------------------------
(***************************************************************************)
(* What the execution path promises about real money, without saying how:  *)
(* an entry is claimed before it is sent, it is sent at most once, nothing *)
(* is claimed while an earlier entry is unresolved, a refused entry is     *)
(* never sent afterwards, and a ledger row moves only forward.             *)
(***************************************************************************)
CONSTANT Proposals

VARIABLES
    ledger,             \* the ledger row of each proposal
    sent                \* proposals whose entry request left the process

Open == {"PENDING", "SUBMITTED", "UNKNOWN"}

Init == ledger = [p \in Proposals |-> "NONE"] /\ sent = {}

\* One unresolved entry at a time.
Claim(p) ==
    /\ ledger[p] = "NONE"
    /\ \A q \in Proposals : ledger[q] \notin Open
    /\ ledger' = [ledger EXCEPT ![p] = "PENDING"]
    /\ UNCHANGED sent

\* The entry is sent once, under its claim.
Send(p) ==
    /\ ledger[p] = "PENDING"
    /\ p \notin sent
    /\ sent' = sent \cup {p}
    /\ UNCHANGED ledger

\* A fill is only recorded for an entry that was sent.
Confirm(p) ==
    /\ ledger[p] = "PENDING"
    /\ p \in sent
    /\ ledger' = [ledger EXCEPT ![p] = "SUBMITTED"]
    /\ UNCHANGED sent

Refuse(p) ==
    /\ ledger[p] = "PENDING"
    /\ ledger' = [ledger EXCEPT ![p] = "REJECTED"]
    /\ UNCHANGED sent

GiveUp(p) ==
    /\ ledger[p] \in {"PENDING", "SUBMITTED"}
    /\ ledger' = [ledger EXCEPT ![p] = "UNKNOWN"]
    /\ UNCHANGED sent

Settle(p) ==
    /\ ledger[p] = "SUBMITTED"
    /\ \E s \in {"FILLED_PROTECTED", "EMERGENCY_CLOSED"} :
           ledger' = [ledger EXCEPT ![p] = s]
    /\ UNCHANGED sent

Next ==
    \E p \in Proposals :
        Claim(p) \/ Send(p) \/ Confirm(p) \/ Refuse(p) \/ GiveUp(p) \/ Settle(p)

Spec == Init /\ [][Next]_<<ledger, sent>>
=============================================================================
