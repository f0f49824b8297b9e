----------------------------- MODULE OneDelivery -----------------------------
(***************************************************************************)
(* What the controlled issue bookkeeping promises for each dedupe key: it  *)
(* is reserved once, at most one GitHub request is made under it, after    *)
(* the reservation, and its outcome is recorded once and for good.         *)
(* (src/src/issue-bookkeeping.ts, "one dedupe_key, one delivery attempt")  *)
(***************************************************************************)
EXTENDS Integers

CONSTANT Keys

Outcomes == {"PERSISTED", "DELIVERY_BLOCKED", "OUTCOME_UNKNOWN"}

VARIABLES
    stage,    \* of each key: free, or its recorded outcome so far
    settled,  \* keys whose outcome is final
    sent      \* GitHub requests made under each key

vars == <<stage, settled, sent>>

Reserve(k) ==
    /\ stage[k] = "free"
    /\ stage' = [stage EXCEPT ![k] = "OUTCOME_UNKNOWN"]
    /\ UNCHANGED <<settled, sent>>

Send(k) ==
    /\ stage[k] = "OUTCOME_UNKNOWN" /\ k \notin settled
    /\ sent[k] = 0
    /\ sent' = [sent EXCEPT ![k] = 1]
    /\ UNCHANGED <<stage, settled>>

\* PERSISTED is only recorded of a request that was made.
Settle(k, outcome) ==
    /\ stage[k] = "OUTCOME_UNKNOWN" /\ k \notin settled
    /\ outcome = "DELIVERY_BLOCKED" \/ sent[k] = 1
    /\ stage' = [stage EXCEPT ![k] = outcome]
    /\ settled' = settled \cup {k}
    /\ UNCHANGED sent

Init ==
    /\ stage = [k \in Keys |-> "free"]
    /\ settled = {}
    /\ sent = [k \in Keys |-> 0]

Next == \E k \in Keys : \/ Reserve(k) \/ Send(k)
                        \/ \E outcome \in Outcomes : Settle(k, outcome)

Spec == Init /\ [][Next]_vars
=============================================================================
