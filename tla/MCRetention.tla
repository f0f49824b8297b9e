----------------------------- MODULE MCRetention -----------------------------
(***************************************************************************)
(* Two documents that share the content object x.  The first is past the   *)
(* window in the second month.                                             *)
(***************************************************************************)
EXTENDS Retention

VersionMessage(id, doc, number, hash, ingested) ==
    [id |-> id, doc |-> doc, number |-> number, hash |-> hash,
     servable |-> TRUE, ingested |-> ingested]
ObjectMessage(id, hash) ==
    [id |-> id, doc |-> NoDoc, number |-> 0, hash |-> hash,
     servable |-> FALSE, ingested |-> 1]

SharedObject ==
    {ObjectMessage("x", "x"), VersionMessage("a1", 1, 1, "x", 1),
     VersionMessage("b1", 2, 1, "x", 2)}

(* A version that arrives after its document was purged. *)
NewVersion == SharedObject \cup {VersionMessage("a2", 1, 2, "y", 2)}

Nothing == {}

==============================================================================
