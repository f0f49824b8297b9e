---------------------------- MODULE MCRunEnvelope ----------------------------
(* A small instance of RunEnvelope: one finding of two tasks under two       *)
(* timestamps, and the envelopes without a payload.                          *)
EXTENDS RunEnvelope, TLC

CallSymmetry == Permutations(Calls)

Finding(asOf) ==
    [channel |-> "COMPANY", id |-> "CMD", body |-> "R2", members |-> "m1",
     asOf |-> asOf, version |-> 1, date |-> 1, slot |-> 0]

Findings == {Finding(1), Finding(2)}

Bare(task, kind, detail) ==
    [task |-> task, kind |-> kind, cmd |-> NoCommand, detail |-> detail]

Report(task, asOf) ==
    [task |-> task, kind |-> "payload", cmd |-> Finding(asOf), detail |-> 0]

TaskEnvelopes ==
    {Report("facts", 1), Report("facts", 2), Report("research", 1),
     Bare("facts", "heartbeat", 0), Bare("facts", "blocked", 1),
     Bare("policy", "observation", 2), Bare("facts", "observation", 2)}

EmptyLedger == {<<>>}
==============================================================================
