---------------------------- MODULE ReceiptStream ----------------------------
(***************************************************************************)
(* The receipts of the research workflow and the machine that collects     *)
(* them.  Every event row gets a receipt_sequence from a trigger, in the   *)
(* transaction that inserts it; created_at is when the request started,    *)
(* which may be earlier than that of events inserted before.  The          *)
(* collecting machine reads page after page: it sends the cursor of its    *)
(* last answer, and sends it again when no answer arrives.                 *)
(*                                                                         *)
(* A cursor stands for the sequence it decodes to: zero for no cursor, for *)
(* the cursors of earlier epochs (rcpt1, rcpt2) and for a plain timestamp, *)
(* which all begin again at the start.                                     *)
(***************************************************************************)
EXTENDS ResearchWorkflow

CONSTANTS
    Limit,           \* RECEIPTS_MAX_LIMIT
    MaxLost          \* bound on answers that are lost or refused

ASSUME StreamAssumption == Limit \in Nat \ {0} /\ MaxLost \in Nat

VARIABLES
    since,           \* the cursor the collecting machine holds
    collected,       \* the events it has, duplicates dropped by receipt_id
    poll,            \* its request: waiting for the page, or its answer
    lost

streamVars == <<vars, since, collected, poll, lost>>

NoPoll == [step |-> "none", page |-> {}]

StreamInit == Init /\ since = 0 /\ collected = {} /\ poll = NoPoll /\ lost = 0

(* A mutant: events ordered by created_at, as before the receipt order. *)
SequenceByTime(i) ==
    LET created == [k \in DOMAIN events |-> at[events[k].req]]
    IN  Cardinality({k \in DOMAIN events :
            created[k] < created[i] \/ (created[k] = created[i] /\ k <= i)})

(* receipt_sequence of an event, named by its place among the inserts. *)
Sequence(i) == i

(* WHERE receipt_sequence > since ORDER BY receipt_sequence LIMIT ... *)
Page == {i \in DOMAIN events : Sequence(i) > since /\ Sequence(i) <= since + Limit}

(* The request arrives; the order is checked to cover every event. *)
Poll ==
    /\ poll.step = "none"
    /\ poll' = [NoPoll EXCEPT !.step = "checked"]
    /\ UNCHANGED <<vars, since, collected, lost>>

ReadPage ==
    /\ poll.step = "checked"
    /\ poll' = [step |-> "answer", page |-> Page]
    /\ UNCHANGED <<vars, since, collected, lost>>

(* next_since is the last row's sequence; an empty page repeats `since`. *)
TakeAnswer ==
    /\ poll.step = "answer"
    /\ poll' = NoPoll
    /\ collected' = collected \cup poll.page
    /\ since' = IF poll.page = {} THEN since
                ELSE CHOOSE n \in {Sequence(i) : i \in poll.page} :
                        \A i \in poll.page : Sequence(i) <= n
    /\ UNCHANGED <<vars, lost>>

(* STORE_UNAVAILABLE, or the answer does not arrive: the cursor stays. *)
LoseAnswer ==
    /\ poll.step # "none"
    /\ lost < MaxLost
    /\ lost' = lost + 1
    /\ poll' = NoPoll
    /\ UNCHANGED <<vars, since, collected>>

Collect == Poll \/ ReadPage \/ TakeAnswer \/ LoseAnswer

StreamNext ==
    \/ Next /\ UNCHANGED <<since, collected, poll, lost>>
    \/ Collect

StreamSpec == StreamInit /\ [][StreamNext]_streamVars

------------------------------------------------------------------------------

(***************************************************************************)
(* No receipt is skipped: whatever was inserted between two pages, by      *)
(* requests that began before or after, and whatever answers were lost,    *)
(* every event up to the cursor has been collected.                        *)
(***************************************************************************)
NothingIsSkipped ==
    \A i \in DOMAIN events : Sequence(i) <= since => i \in collected

==============================================================================
