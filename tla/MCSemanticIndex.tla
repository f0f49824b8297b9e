--------------------------- MODULE MCSemanticIndex ---------------------------
(***************************************************************************)
(* One document with two versions, one of which has its bytes in R2 from   *)
(* the start.                                                              *)
(***************************************************************************)
EXTENDS SemanticIndex

VersionMessage(id, number, hash, servable) ==
    [id |-> id, doc |-> 1, number |-> number, hash |-> hash,
     servable |-> servable, ingested |-> 1]
Bytes(hash) ==
    [id |-> hash, doc |-> NoDoc, number |-> 0, hash |-> hash,
     servable |-> FALSE, ingested |-> 1]

StoredBytes == {Bytes("x")}

(* The first version has no readable text, the second one has. *)
TextLater == StoredBytes \cup {VersionMessage("a1", 1, "y", FALSE),
                              VersionMessage("a2", 2, "x", TRUE)}
==============================================================================
