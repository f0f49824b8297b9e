--------------------------- MODULE MCAutomationRuns ---------------------------
(* Small instances of AutomationRuns. *)
EXTENDS AutomationRuns, TLC

CONSTANTS task, l1, l2, p1, p2

Event(t, run, phase, payload, at, zone) ==
    [task |-> t, run |-> run, phase |-> phase, payload |-> payload,
     outcome |-> IF phase = "STARTED" THEN "none" ELSE "all",
     occurred |-> [at |-> at, zone |-> zone]]

\* A run that is in the old table.
MCMigrated == {Event(task, l2, "STARTED", p1, 0, 0), Event(task, l2, "FINAL", p1, 0, 0)}
\* Both phases of a legacy run, one of them with two payloads; a start on its way to
\* begin_run; an end without its counts; a start under an id begin_run may draw.
MCEvents ==
    {Event(task, l1, "STARTED", p1, 0, 0), Event(task, l1, "FINAL", p1, 1, 0),
     Event(task, l1, "FINAL", p2, 1, 0), Event(task, ServerAuto, "STARTED", p1, 0, 0),
     [Event(task, l1, "FINAL", p1, 1, 0) EXCEPT !.outcome = "status"]}
    \cup {Event(task, c, "STARTED", p2, 0, 0) : c \in Calls}

\* At most one call starts a run under an id that begin_run may draw, and then the
\* instance has neither a history nor a receipt.
OneForeignStart ==
    LET starts == {c \in Calls : /\ call[c].req.kind = "event"
                                 /\ call[c].req.event.run \in Calls} IN
    starts = {} \/ (Cardinality(starts) = 1 /\ history = [q \in Readers |-> NoHistory]
                    /\ receipts = {})

\* Calls are interchangeable.
CallSymmetry == Permutations(Calls)
=============================================================================
