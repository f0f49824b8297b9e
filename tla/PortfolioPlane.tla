---------------------------- MODULE PortfolioPlane ----------------------------
(***************************************************************************)
(* The private portfolio plane: LIVE posts the universe it holds           *)
(* (live-universe.ts) and the status that confirms it                      *)
(* (portfolio-status.ts); each status is also an observation from which    *)
(* the Worker derives the latest change of the portfolio                   *)
(* (portfolio-delta.ts).  The four values are keys of a D1-backed KV: one  *)
(* get or put is atomic, nothing spans two keys.  Readers combine universe *)
(* and status into what they present (index.ts, resolveLivePresentation).  *)
(*                                                                         *)
(* A content hash is a hash of the codes it covers, and injective: a hash  *)
(* is the set of codes itself.                                             *)
(***************************************************************************)
EXTENDS Integers, FiniteSets

CONSTANTS
    Codes,            \* instruments, market:code
    Universes,        \* the quote-universe/1 documents LIVE may post
    Statuses,         \* the portfolio-status/1 documents it may post
    Posts,            \* status posts, one request each
    Readers,          \* requests that present the portfolio
    None,             \* an absent key, document or time
    CompleteMaxAge,   \* LIVE_COMPLETE_MAX_AGE_SECONDS, in clock ticks
    LkgMaxAge,        \* LKG_VALID_MAX_AGE_SECONDS, in clock ticks
    MaxTime,          \* bound on the clock
    MaxFaults         \* bound on failed storage calls

States == {"LIVE_COMPLETE", "LKG_VALID", "PORTFOLIO_UNKNOWN"}
Hashes == SUBSET Codes
UniverseType == [hash : Hashes, manifest : Nat, generated : Nat]
StatusType == [generated : Nat, state : States, lrcca : Nat \cup {None},
               hash : Hashes, manifest : Nat]
BaselineType == [hash : Hashes, codes : SUBSET Codes, at : Nat, eligible : BOOLEAN,
                 lastState : States, lastHash : Hashes, lastAt : Nat]
DeltaType == [prev : Hashes, cur : Hashes, added : SUBSET Codes,
              removed : SUBSET Codes, at : Nat]
ObservationType == [state : States, hash : Hashes, codes : SUBSET Codes, at : Nat]

ASSUME PortfolioAssumption ==
    /\ Universes \subseteq UniverseType
    /\ Statuses \subseteq StatusType
    /\ None \notin Nat /\ None \notin Universes /\ None \notin Statuses
    /\ None \notin BaselineType \cup DeltaType \cup ObservationType
    /\ CompleteMaxAge \in Nat /\ LkgMaxAge \in Nat /\ CompleteMaxAge <= LkgMaxAge
    /\ MaxTime \in Nat /\ MaxFaults \in Nat

VARIABLES
    universe,  \* key live-portfolio/current
    status,    \* key live-portfolio/status
    baseline,  \* the reducer's private baseline key
    delta,     \* the latest delta key
    post,      \* the status posts in progress, see PostType
    view,      \* the readers, see ViewType
    clock, faults

kv == <<universe, status, baseline, delta>>
vars == <<universe, status, baseline, delta, post, view, clock, faults>>

PostPCs == {"idle", "universe", "baseline", "delta_put", "baseline_put", "success", "failed"}
PostType == [pc : PostPCs, doc : Statuses \cup {None}, obs : ObservationType \cup {None},
             prev : BaselineType \cup {None}, lone : BOOLEAN]
NoPost == [pc |-> "idle", doc |-> None, obs |-> None, prev |-> None, lone |-> TRUE]

ViewPCs == {"idle", "status", "shown", "failed"}
ViewType == [pc : ViewPCs, now : Nat, universe : Universes \cup {None},
             state : States, overlay : BOOLEAN]
NoView == [pc |-> "idle", now |-> 0, universe |-> None,
           state |-> "PORTFOLIO_UNKNOWN", overlay |-> FALSE]

----------------------------------------------------------------------------
(* portfolio-status.ts: what a status is worth at a given time *)

\* A baseline of trust needs a confirmation time.
ValidStatus(s) == s.state # "PORTFOLIO_UNKNOWN" => s.lrcca # None

Conservatism(state) == CASE state = "LIVE_COMPLETE" -> 0
                         [] state = "LKG_VALID" -> 1
                         [] state = "PORTFOLIO_UNKNOWN" -> 2

MostConservative(a, b) == IF Conservatism(b) > Conservatism(a) THEN b ELSE a

\* Mutant: the self-declared state wins.
TrustDeclared(declared, recomputed) == declared

Reconcile(declared, recomputed) == MostConservative(declared, recomputed)

\* derivePortfolioState: by the age of the last real confirmation.  A time in the
\* future is not trusted.
DerivedState(lrcca, present, now) ==
    IF ~ present \/ lrcca = None \/ lrcca > now THEN "PORTFOLIO_UNKNOWN"
    ELSE IF now - lrcca <= CompleteMaxAge THEN "LIVE_COMPLETE"
    ELSE IF now - lrcca <= LkgMaxAge THEN "LKG_VALID"
    ELSE "PORTFOLIO_UNKNOWN"

\* Mutant: only the manifest is compared.
SameManifest(u, s) == u # None /\ u.manifest = s.manifest

CrossChecked(u, s) == u # None /\ u.hash = s.hash /\ u.manifest = s.manifest

\* resolvePortfolioPresentation: declared state, recomputed state and the
\* cross-check of the two keys; the most conservative of them.
PortfolioState(u, s, now) ==
    IF s = None THEN "PORTFOLIO_UNKNOWN"
    ELSE LET state == Reconcile(s.state, DerivedState(s.lrcca, u # None, now)) IN
         IF CrossChecked(u, s) THEN state ELSE MostConservative(state, "LKG_VALID")

\* resolveLiveUniverseFreshness: the anchor is the status's confirmation time,
\* else the universe's own time.
Fresh(u, s, now) ==
    /\ u # None
    /\ LET anchor == IF s # None /\ s.lrcca # None THEN s.lrcca ELSE u.generated IN
       anchor <= now /\ now - anchor <= LkgMaxAge

Overlay(u, s, now) == Fresh(u, s, now) /\ PortfolioState(u, s, now) # "PORTFOLIO_UNKNOWN"

----------------------------------------------------------------------------
(* portfolio-delta.ts: the reducer *)

Older(b, o) == b # None /\ o.at < b.lastAt

SameTimeConflict(b, o) ==
    /\ b # None
    /\ o.at = b.lastAt
    /\ o.state # b.lastState \/ o.hash # b.lastHash

CompleteBaseline(o) ==
    [hash |-> o.hash, codes |-> o.codes, at |-> o.at, eligible |-> TRUE,
     lastState |-> "LIVE_COMPLETE", lastHash |-> o.hash, lastAt |-> o.at]

\* An incomplete observation keeps codes and hash but ends their eligibility.
BrokenBaseline(b, o) ==
    [b EXCEPT !.eligible = FALSE, !.lastState = o.state,
              !.lastHash = o.hash, !.lastAt = o.at]

ReducedBaseline(b, o) ==
    IF Older(b, o) THEN b
    ELSE IF o.state = "LIVE_COMPLETE" THEN CompleteBaseline(o)
    ELSE IF b = None THEN None
    ELSE BrokenBaseline(b, o)

\* Mutant: the baseline counts although continuity was broken.
HasDeltaAcrossGap(b, o) ==
    /\ o.state = "LIVE_COMPLETE" /\ b # None
    /\ ~ Older(b, o) /\ ~ SameTimeConflict(b, o)
    /\ b.hash # o.hash

\* An event needs two complete observations in a row with different hashes.
HasDelta(b, o) ==
    /\ o.state = "LIVE_COMPLETE" /\ b # None
    /\ b.eligible
    /\ ~ Older(b, o) /\ ~ SameTimeConflict(b, o)
    /\ b.hash # o.hash

DeltaOf(b, o) ==
    [prev |-> b.hash, cur |-> o.hash, added |-> o.codes \ b.codes,
     removed |-> b.codes \ o.codes, at |-> o.at]

----------------------------------------------------------------------------
(* Requests *)

InFlight == {p \in Posts : post[p].pc \notin {"idle", "success", "failed"}}

Fault == faults < MaxFaults /\ faults' = faults + 1
NoFault == faults' = faults

\* POST quote-universe: validated, then one put.
PostUniverse(u) ==
    /\ universe' = u
    /\ UNCHANGED <<status, baseline, delta, post, view, clock, faults>>

\* A post that ended keeps only its document.
Ended(p, pc) == [post EXCEPT ![p] = [NoPost EXCEPT !.pc = pc, !.doc = post[p].doc]]

\* The posts in flight stop being alone when another one starts.
Started(p, s) ==
    [q \in Posts |->
        IF q = p THEN [NoPost EXCEPT !.pc = "universe", !.doc = s, !.lone = InFlight = {}]
        ELSE [post[q] EXCEPT !.lone = @ /\ q \notin InFlight]]

\* POST portfolio-status: an invalid document is refused and the old one stays;
\* a valid one is put first.  The put may fail, with or without effect.
PostStatus(p, s) ==
    /\ post[p].pc = "idle"
    /\ \/ /\ ~ ValidStatus(s) /\ NoFault
          /\ post' = Ended(p, "failed") /\ status' = status
       \/ /\ ValidStatus(s) /\ NoFault
          /\ post' = Started(p, s) /\ status' = s
       \/ /\ ValidStatus(s) /\ Fault
          /\ post' = [post EXCEPT ![p].pc = "failed", ![p].doc = s]
          /\ status' \in {s, status}
    /\ UNCHANGED <<universe, baseline, delta, view, clock>>

\* Mutant: an observation is of the time of the last confirmation.
ObserveAsConfirmed(p, u) ==
    LET s == post[p].doc
        state == IF u = None THEN "PORTFOLIO_UNKNOWN" ELSE PortfolioState(u, s, clock) IN
    post' = [post EXCEPT ![p].pc = "baseline",
                         ![p].obs = [state |-> state, hash |-> s.hash, at |-> s.lrcca,
                                     codes |-> IF u = None THEN {} ELSE u.hash]]

\* recordPortfolioDeltaAfterStatusWrite: the universe is whatever the key holds
\* now; without one, or when it cannot be read, the observation is UNKNOWN.
ObserveAs(p, u) ==
    LET s == post[p].doc
        state == IF u = None THEN "PORTFOLIO_UNKNOWN" ELSE PortfolioState(u, s, clock) IN
    post' = [post EXCEPT ![p].pc = "baseline",
                         ![p].obs = [state |-> state, hash |-> s.hash, at |-> s.generated,
                                     codes |-> IF u = None THEN {} ELSE u.hash]]

ReadUniverse(p) ==
    /\ post[p].pc = "universe"
    /\ \/ NoFault /\ ObserveAs(p, universe)
       \/ Fault /\ ObserveAs(p, None)
    /\ UNCHANGED <<kv, view, clock>>

\* recordPortfolioUniverseObservation reads the baseline; the latest delta is
\* read too, but only to refuse a corrupt one.
ReadBaseline(p) ==
    LET o == post[p].obs IN
    /\ post[p].pc = "baseline"
    /\ post' = IF ReducedBaseline(baseline, o) = None THEN Ended(p, "success")
               ELSE [post EXCEPT ![p].prev = baseline,
                                 ![p].pc = IF HasDelta(baseline, o) THEN "delta_put"
                                           ELSE "baseline_put"]
    /\ UNCHANGED <<kv, view, clock, faults>>

PutDelta(p) ==
    /\ post[p].pc = "delta_put"
    /\ delta' = DeltaOf(post[p].prev, post[p].obs)
    /\ \/ NoFault /\ post' = [post EXCEPT ![p].pc = "baseline_put"]
       \/ Fault /\ post' = Ended(p, "failed")
    /\ UNCHANGED <<universe, status, baseline, view, clock>>

\* Done; a post that recorded an incomplete observation keeps that too.
Recorded(p) ==
    LET o == post[p].obs IN
    IF o.state = "LIVE_COMPLETE" \/ Older(post[p].prev, o) THEN Ended(p, "success")
    ELSE [post EXCEPT ![p].pc = "success", ![p].prev = None]

\* Mutant: the baseline goes first, the event after it.
PutBaselineFirst(p) ==
    /\ post[p].pc \in {"delta_put", "baseline_put"}
    /\ baseline' = ReducedBaseline(post[p].prev, post[p].obs)
    /\ \/ NoFault /\ post' = Recorded(p)
          /\ delta' = IF post[p].pc = "delta_put" THEN DeltaOf(post[p].prev, post[p].obs)
                      ELSE delta
       \/ Fault /\ post' = Ended(p, "failed") /\ delta' = delta
    /\ UNCHANGED <<universe, status, view, clock>>

\* The baseline advances after the event is stored.
PutBaseline(p) ==
    /\ post[p].pc = "baseline_put"
    /\ baseline' = ReducedBaseline(post[p].prev, post[p].obs)
    /\ \/ NoFault /\ post' = Recorded(p)
       \/ Fault /\ post' = Ended(p, "failed")
    /\ UNCHANGED <<universe, status, delta, view, clock>>

\* A read or put of the post throws without effect: 503, LIVE retries.
FailPost(p) ==
    /\ p \in InFlight /\ Fault
    /\ post' = Ended(p, "failed")
    /\ UNCHANGED <<kv, view, clock>>

\* resolveLivePresentation: `now`, then the universe, then the status.  A failed
\* read of the universe counts as absent where the caller tolerates it; a failed
\* read of the status always does.
ViewUniverse(v) ==
    /\ view[v].pc = "idle"
    /\ \/ NoFault /\ view' = [view EXCEPT ![v].pc = "status", ![v].now = clock,
                                          ![v].universe = universe]
       \/ Fault /\ view' = [view EXCEPT ![v].pc = "status", ![v].now = clock]
       \/ Fault /\ view' = [view EXCEPT ![v].pc = "failed"]
    /\ UNCHANGED <<kv, post, clock>>

Show(v, s) ==
    LET u == view[v].universe
        now == view[v].now IN
    view' = [view EXCEPT ![v].pc = "shown",
                         ![v].state = PortfolioState(u, s, now),
                         ![v].overlay = Overlay(u, s, now)]

ViewStatus(v) ==
    /\ view[v].pc = "status"
    /\ \/ NoFault /\ Show(v, status)
       \/ Fault /\ Show(v, None)
    /\ UNCHANGED <<kv, post, clock>>

Tick ==
    /\ clock < MaxTime /\ clock' = clock + 1
    /\ UNCHANGED <<kv, post, view, faults>>

----------------------------------------------------------------------------

Init ==
    /\ universe = None /\ status = None /\ baseline = None /\ delta = None
    /\ post = [p \in Posts |-> NoPost]
    /\ view = [v \in Readers |-> NoView]
    /\ clock = 0 /\ faults = 0

Next ==
    \/ Tick
    \/ \E u \in Universes : PostUniverse(u)
    \/ \E p \in Posts :
          \/ \E s \in Statuses : PostStatus(p, s)
          \/ ReadUniverse(p) \/ ReadBaseline(p) \/ PutDelta(p) \/ PutBaseline(p)
          \/ FailPost(p)
    \/ \E v \in Readers : ViewUniverse(v) \/ ViewStatus(v)

Spec == Init /\ [][Next]_vars

----------------------------------------------------------------------------
(* Properties *)

\* Every key holds a document of its schema, every request its own state.
TypeOK ==
    /\ universe \in Universes \cup {None}
    /\ status \in Statuses \cup {None}
    /\ baseline \in BaselineType \cup {None}
    /\ delta \in DeltaType \cup {None}
    /\ post \in [Posts -> PostType]
    /\ view \in [Readers -> ViewType]
    /\ clock \in Nat /\ faults \in Nat

\* Although the universe is read after the status was put, and may be another one
\* by then, a delta never pairs a hash with the codes of another universe: what it
\* reports as added and removed is the difference of the two portfolios it names.
DeltaIsTrue ==
    /\ baseline # None => baseline.codes = baseline.hash
    /\ delta # None =>
          /\ delta.added = delta.cur \ delta.prev
          /\ delta.removed = delta.prev \ delta.cur
          /\ delta.prev # delta.cur

\* Post q has recorded an incomplete observation over the baseline.
GapBy(q) == post[q].pc = "success" /\ post[q].obs # None

\* Post p is about to store an event that spans it.
Spans(p, q) ==
    /\ post[p].pc = "delta_put"
    /\ post[p].prev.at < post[q].obs.at /\ post[q].obs.at < post[p].obs.at

\* "The key guard against turning an LKG/UNKNOWN interval into a false portfolio
\* removal": once a post that overlapped no other has recorded an incomplete
\* observation, no later post reports a change between a complete observation
\* before it and one after it, whatever overlaps, fails or arrives late.
RecordedGapIsKept ==
    \A p, q \in Posts : GapBy(q) /\ post[q].lone => ~ Spans(p, q)

\* The baseline of a post that overlapped no other advances to another portfolio
\* only when that change is the stored event: a crash or failure between the two
\* puts repeats the event, it cannot lose it.
LoneAdvanceIsAnnounced ==
    [][\A p \in Posts :
          /\ post'[p] # post[p] /\ post[p].lone
          /\ baseline' # baseline
          /\ baseline # None /\ baseline'.eligible /\ baseline.eligible
          /\ baseline'.hash # baseline.hash /\ baseline'.lastAt > baseline.lastAt
          => delta' # None /\ delta'.prev = baseline.hash /\ delta'.cur = baseline'.hash]_vars

\* A portfolio presented as LIVE_COMPLETE was confirmed by LIVE as exactly that
\* universe, and recently: two keys read one after the other, with posts in
\* between, never combine into a confirmation that LIVE did not give.
CompleteViewIsConfirmed ==
    \A v \in Readers :
        view[v].pc = "shown" /\ view[v].state = "LIVE_COMPLETE" =>
            \E p \in Posts : LET s == post[p].doc IN
                /\ s # None /\ s.state = "LIVE_COMPLETE"
                /\ s.hash = view[v].universe.hash /\ s.manifest = view[v].universe.manifest
                /\ s.lrcca <= view[v].now /\ view[v].now - s.lrcca <= CompleteMaxAge

=============================================================================
