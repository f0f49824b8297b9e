------------------------- MODULE MCResearchWorkflow -------------------------
(* Small instances of ResearchWorkflow. *)
EXTENDS ReceiptStream, TLC

CONSTANTS j1, o1, o2, o3, k1, k2

Claims(os) == [op : {"claim"}, job : {j1}, owner : os]
Ok(x) == [job |-> j1, kind |-> "ok", content |-> x]
Submits(os, gens, ks, ps, origins) ==
    [op : {"submit"}, job : {j1}, owner : os, gen : gens, key : ks, payload : ps, origin : origins]
Defers(os, gens, ks, times) ==
    [op : {"defer"}, job : {j1}, owner : os, gen : gens, key : ks, recheck : times]

Bad(k) == [job |-> j1, kind |-> k, content |-> "a"]

MCPayloads == {Ok("a"), Ok("b"), Bad("malformed"), Bad("oversize")}

\* Two formal owners race for one job: claims, takeovers, a submit and deferrals
\* each, some under a shared key.
QueueCalls == Claims({o1, o2})
              \cup Submits({o1}, {1}, {k1}, {Ok("a")}, {"CHATGPT"})
              \cup Submits({o2}, {2}, {k2}, {Ok("b")}, {"CHATGPT"})
              \cup Defers({o1}, {1}, {k1}, {1})
              \cup Defers({o2}, {1, 2}, {k1}, {2})

\* The formal owner o1 claims and repeats, under one key, good, different and
\* unacceptable payloads; o3 is not formal, so its result is stored as synthetic.
RetryCalls == Claims({o1, o3})
              \cup Submits({o1}, {1}, {k1}, MCPayloads, {"CHATGPT"})
              \cup Submits({o1}, {1}, {k1}, {Ok("a")}, {"REPLAY", "OTHER"})
              \cup Submits({o1}, {1}, {BadKey, k2}, {Ok("a")}, {"CHATGPT"})
              \cup Submits({o3}, {1}, {k1, k2}, {Ok("b")}, {"CHATGPT"})

AllCalls == QueueCalls \cup RetryCalls

\* One instance, three cases: the queue over time, with one storage failure;
\* retries within one tick, with two; the queue of two requests and the machine
\* that collects its receipts.
Issued == {call[r] : r \in Requests} \ {NoCall}
QueueCase == Issued \subseteq QueueCalls /\ faults <= 1
RetryCase == Issued \subseteq RetryCalls /\ clock = 0
StreamCase == /\ Issued \subseteq QueueCalls /\ faults = 0
              /\ \E r \in Requests : call[r] = NoCall
NobodyCollects == poll = NoPoll /\ since = 0 /\ lost = 0
OneCase == StreamCase \/ (NobodyCollects /\ (QueueCase \/ RetryCase))

\* Request ids are interchangeable.
RequestSymmetry == Permutations(Requests)
=============================================================================
