--------------------------- MODULE MCPortfolioPlane ---------------------------
(* Small instances of PortfolioPlane. *)
EXTENDS PortfolioPlane, TLC

CONSTANTS a, b

Universe(codes, manifest) == [hash |-> codes, manifest |-> manifest, generated |-> 0]
Status(t, state, lrcca, u) ==
    [generated |-> t, state |-> state, lrcca |-> lrcca, hash |-> u.hash, manifest |-> u.manifest]

Both == Universe({a, b}, 1)
OnlyA == Universe({a}, 1)

MCUniverses == {Both, OnlyA}

\* Confirmed, degraded and unknown statuses of three moments; one that claims to
\* be complete without a confirmation is invalid; one confirmed at 1 is from the
\* future until then.
MCStatuses ==
    {Status(0, "LIVE_COMPLETE", 0, Both),
     Status(1, "PORTFOLIO_UNKNOWN", None, OnlyA),
     Status(1, "LIVE_COMPLETE", 1, OnlyA), Status(2, "LIVE_COMPLETE", 1, OnlyA),
     Status(2, "LIVE_COMPLETE", None, OnlyA)}

\* Posts are interchangeable.
PostSymmetry == Permutations(Posts)
=============================================================================
