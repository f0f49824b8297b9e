------------------------- MODULE PortfolioPlaneProofs -------------------------
(***************************************************************************)
(* What the portfolio plane keeps, for any documents, posts and bounds.    *)
(* The invariant adds what a post in progress knows of the keys it has     *)
(* read: a post that overlapped no other still sees what it read, and what *)
(* any post has read since a recorded gap guards that gap.                 *)
(***************************************************************************)
EXTENDS PortfolioPlane, TLAPS

PutPCs == {"delta_put", "baseline_put"}

(* No event spans time t with this baseline.                               *)
Guards(b, t) == b # None /\ b.lastAt >= t /\ (b.eligible => b.at >= t)

PostKnows(p) ==
    /\ post[p].pc = "idle" =>
          post[p].doc = None /\ post[p].obs = None /\ post[p].prev = None
    /\ p \in InFlight => post[p].doc # None
    /\ post[p].pc \in {"baseline"} \cup PutPCs => post[p].obs # None
    /\ post[p].obs # None /\ post[p].obs.state = "LIVE_COMPLETE" =>
          post[p].obs.codes = post[p].obs.hash
    /\ post[p].prev # None => post[p].prev.codes = post[p].prev.hash
    /\ post[p].pc \in PutPCs => ReducedBaseline(post[p].prev, post[p].obs) # None
    /\ post[p].pc = "delta_put" => HasDelta(post[p].prev, post[p].obs)

(* A post that overlapped no other still sees what it read. *)
LoneKnows(p) ==
    /\ post[p].lone /\ p \in InFlight => InFlight = {p}
    /\ post[p].lone /\ post[p].pc \in PutPCs => post[p].prev = baseline
    /\ post[p].lone /\ post[p].pc = "baseline_put" /\ HasDelta(post[p].prev, post[p].obs) =>
          delta = DeltaOf(post[p].prev, post[p].obs)

(* What was recorded over the baseline, and what was read since, guard the gap. *)
GapIsGuarded(q) ==
    GapBy(q) /\ post[q].lone =>
        /\ Guards(baseline, post[q].obs.at)
        /\ \A p \in Posts : post[p].pc \in PutPCs => Guards(post[p].prev, post[q].obs.at)

StatusWasPosted == status # None => \E p \in Posts : post[p].doc = status

PlaneInv ==
    /\ TypeOK /\ DeltaIsTrue /\ CompleteViewIsConfirmed /\ StatusWasPosted
    /\ \A p \in Posts : PostKnows(p) /\ LoneKnows(p) /\ GapIsGuarded(p)

------------------------------------------------------------------------------
(* The reducer and the presentation *)

LEMMA StateIsOne ==
    ASSUME NEW u \in Universes \cup {None}, NEW s \in Statuses \cup {None}, NEW now \in Nat
    PROVE  PortfolioState(u, s, now) \in States
<1>1. DerivedState(s.lrcca, u # None, now) \in States
  BY DEF DerivedState, States
<1>2. ASSUME NEW a \in States, NEW b \in States PROVE MostConservative(a, b) \in States
  BY <1>2 DEF MostConservative
<1>3. s # None => s.state \in States
  BY PortfolioAssumption DEF StatusType
<1>4. "LKG_VALID" \in States /\ "PORTFOLIO_UNKNOWN" \in States
  BY DEF States
<1> QED
  BY <1>1, <1>2, <1>3, <1>4 DEF PortfolioState, Reconcile

(* What is LIVE_COMPLETE was declared, is recent and is of this universe.    *)
LEMMA CompleteIsConfirmed ==
    ASSUME NEW u \in Universes \cup {None}, NEW s \in Statuses \cup {None}, NEW now \in Nat,
           PortfolioState(u, s, now) = "LIVE_COMPLETE"
    PROVE  /\ s # None /\ s.state = "LIVE_COMPLETE" /\ CrossChecked(u, s)
           /\ s.lrcca \in Nat /\ s.lrcca <= now /\ now - s.lrcca <= CompleteMaxAge
<1>1. ASSUME NEW a \in States, NEW b \in States, MostConservative(a, b) = "LIVE_COMPLETE"
      PROVE  a = "LIVE_COMPLETE" /\ b = "LIVE_COMPLETE"
  BY <1>1 DEF MostConservative, Conservatism, States
<1>2. s # None
  BY DEF PortfolioState
<1>3. s.state \in States /\ s.lrcca \in Nat \cup {None}
  BY <1>2, PortfolioAssumption DEF StatusType
<1> DEFINE derived == DerivedState(s.lrcca, u # None, now)
           state == Reconcile(s.state, derived)
<1>4. derived \in States /\ "LKG_VALID" \in States
  BY DEF DerivedState, States
<1>5. state \in States
  BY <1>3, <1>4 DEF Reconcile, MostConservative
<1>6. PortfolioState(u, s, now) = IF CrossChecked(u, s) THEN state
                                  ELSE MostConservative(state, "LKG_VALID")
  BY <1>2 DEF PortfolioState
<1> HIDE DEF state, derived
<1>7. CrossChecked(u, s) /\ state = "LIVE_COMPLETE"
  BY <1>1, <1>4, <1>5, <1>6
<1>8. s.state = "LIVE_COMPLETE" /\ derived = "LIVE_COMPLETE"
  BY <1>1, <1>3, <1>4, <1>7 DEF state, Reconcile
<1>9. s.lrcca # None /\ ~ (s.lrcca > now) /\ now - s.lrcca <= CompleteMaxAge
  BY <1>8 DEF derived, DerivedState
<1> QED
  BY <1>2, <1>3, <1>7, <1>8, <1>9

LEMMA BrokenIs ==
    ASSUME NEW b \in BaselineType, NEW o \in ObservationType, NEW new,
           new = BrokenBaseline(b, o)
    PROVE  /\ new \in BaselineType /\ ~ new.eligible /\ new.lastAt = o.at
           /\ new.codes = b.codes /\ new.hash = b.hash
<1>1. new = [hash |-> b.hash, codes |-> b.codes, at |-> b.at, eligible |-> FALSE,
             lastState |-> o.state, lastHash |-> o.hash, lastAt |-> o.at]
  BY DEF BrokenBaseline, BaselineType
<1>2. /\ b.hash \in Hashes /\ b.codes \in SUBSET Codes /\ b.at \in Nat
      /\ o.state \in States /\ o.hash \in Hashes /\ o.at \in Nat
  BY DEF BaselineType, ObservationType
<1> QED
  BY <1>1, <1>2 DEF BaselineType

LEMMA CompleteIs ==
    ASSUME NEW o \in ObservationType
    PROVE  /\ CompleteBaseline(o) \in BaselineType
           /\ CompleteBaseline(o).eligible /\ CompleteBaseline(o).at = o.at
           /\ CompleteBaseline(o).lastAt = o.at /\ CompleteBaseline(o).hash = o.hash
           /\ CompleteBaseline(o).codes = o.codes
BY DEF CompleteBaseline, BaselineType, ObservationType, States

(* What the reducer makes of a baseline: a typed one that is true if the     *)
(* baseline and the observation are, and that guards what the old one did.   *)
LEMMA ReducedIs ==
    ASSUME NEW b \in BaselineType \cup {None}, NEW o \in ObservationType, NEW new,
           new = ReducedBaseline(b, o)
    PROVE  /\ new \in BaselineType \cup {None}
           /\ (b # None => b.codes = b.hash)
              /\ (o.state = "LIVE_COMPLETE" => o.codes = o.hash) =>
                 (new # None => new.codes = new.hash)
           /\ \A t \in Nat : Guards(b, t) => Guards(new, t)
           /\ ~ Older(b, o) /\ o.state # "LIVE_COMPLETE" /\ new # None => Guards(new, o.at)
<1>1. o.at \in Nat /\ None \notin BaselineType
  BY PortfolioAssumption DEF ObservationType
<1>2. b # None => b.lastAt \in Nat
  BY DEF BaselineType
<1>3. CASE Older(b, o)
  BY <1>3 DEF ReducedBaseline
<1>4. CASE ~ Older(b, o) /\ o.state = "LIVE_COMPLETE"
  <2>1. new = CompleteBaseline(o)
    BY <1>4 DEF ReducedBaseline
  <2> QED
    BY <1>1, <1>2, <1>4, <2>1, CompleteIs DEF Guards, Older
<1>5. CASE ~ Older(b, o) /\ o.state # "LIVE_COMPLETE" /\ b = None
  <2>1. new = None
    BY <1>5 DEF ReducedBaseline
  <2> QED
    BY <1>5, <2>1 DEF Guards
<1>6. CASE ~ Older(b, o) /\ o.state # "LIVE_COMPLETE" /\ b # None
  <2>1. new = BrokenBaseline(b, o) /\ b \in BaselineType
    BY <1>6 DEF ReducedBaseline
  <2>2. /\ new \in BaselineType /\ ~ new.eligible /\ new.lastAt = o.at
        /\ new.codes = b.codes /\ new.hash = b.hash
    BY <2>1, BrokenIs
  <2> QED
    BY <1>1, <1>2, <1>6, <2>2 DEF Guards, Older
<1> QED
  BY <1>3, <1>4, <1>5, <1>6

------------------------------------------------------------------------------
(* The steps of a post *)

LEMMA PostsAre ==
    ASSUME PlaneInv, NEW p \in Posts
    PROVE  /\ post[p] \in PostType /\ post \in [Posts -> PostType]
           /\ post[p].pc \in PostPCs /\ post[p].doc \in Statuses \cup {None}
           /\ post[p].obs \in ObservationType \cup {None}
           /\ post[p].prev \in BaselineType \cup {None} /\ post[p].lone \in BOOLEAN
           /\ post[p].obs # None => post[p].obs.at \in Nat
           /\ PostKnows(p) /\ LoneKnows(p) /\ GapIsGuarded(p)
<1>1. post \in [Posts -> PostType] /\ post[p] \in PostType
  BY DEF PlaneInv, TypeOK
<1>2. /\ post[p].pc \in PostPCs /\ post[p].doc \in Statuses \cup {None}
      /\ post[p].obs \in ObservationType \cup {None}
      /\ post[p].prev \in BaselineType \cup {None} /\ post[p].lone \in BOOLEAN
  BY <1>1 DEF PostType
<1> QED
  BY <1>1, <1>2 DEF PlaneInv, ObservationType

(* A step of a post in flight keeps the invariant if what the post knows     *)
(* afterwards is true and the new baseline guards what the old one did.      *)
LEMMA PostStepKeeps ==
    ASSUME PlaneInv, NEW p \in Posts, p \in InFlight, NEW new \in PostType,
           post' = [post EXCEPT ![p] = new],
           UNCHANGED <<universe, status, view, clock>>, faults' \in Nat,
           new.doc = post[p].doc, new.pc # "idle",
           new.pc \notin {"success", "failed"} => new.lone = post[p].lone,
           baseline' \in BaselineType \cup {None}, delta' \in DeltaType \cup {None},
           DeltaIsTrue', PostKnows(p)',
           new.lone /\ new.pc \in PutPCs => new.prev = baseline',
           new.lone /\ new.pc = "baseline_put" /\ HasDelta(new.prev, new.obs) =>
              delta' = DeltaOf(new.prev, new.obs),
           new.pc = "success" /\ new.obs # None /\ new.lone =>
              post[p].lone /\ Guards(baseline', new.obs.at),
           \A t \in Nat :
              Guards(baseline, t) /\ (post[p].pc \in PutPCs => Guards(post[p].prev, t)) =>
                  Guards(baseline', t) /\ (new.pc \in PutPCs => Guards(new.prev, t))
    PROVE  PlaneInv'
<1>1. /\ post \in [Posts -> PostType] /\ post' \in [Posts -> PostType] /\ post'[p] = new
      /\ \A q \in Posts \ {p} : post'[q] = post[q]
  BY DEF PlaneInv, TypeOK
<1>2. TypeOK'
  BY <1>1 DEF PlaneInv, TypeOK
<1>3. \A q \in Posts : post'[q].doc = post[q].doc
  BY <1>1
<1>4. CompleteViewIsConfirmed' /\ StatusWasPosted'
  BY <1>3 DEF PlaneInv, CompleteViewIsConfirmed, StatusWasPosted
<1>5. InFlight' \subseteq InFlight /\ (new.pc \notin {"success", "failed"} => p \in InFlight')
  BY <1>1 DEF InFlight
<1>6. PutPCs \cap {"idle", "success", "failed"} = {}
  BY DEF PutPCs
<1>7. ASSUME NEW q \in Posts \ {p} PROVE PostKnows(q)' /\ LoneKnows(q)' /\ GapIsGuarded(q)'
  <2>1. post'[q] = post[q] /\ post[q].obs # None => post[q].obs.at \in Nat
    BY <1>1, PostsAre
  <2>2. PostKnows(q)'
    <3>1. PostKnows(q) /\ post'[q] = post[q]
      BY <1>1, PostsAre
    <3>2. q \in InFlight' => q \in InFlight
      BY <1>5
    <3> QED
      BY <3>1, <3>2 DEF PostKnows
  <2>3. LoneKnows(q)'
    <3>1. LoneKnows(q) /\ post'[q] = post[q]
      BY <1>1, PostsAre
    <3>2. q \in InFlight => ~ post[q].lone
      BY <3>1 DEF LoneKnows
    <3>3. post[q].pc \in PutPCs => q \in InFlight
      BY <1>6 DEF InFlight
    <3> QED
      BY <1>5, <1>6, <3>1, <3>2, <3>3 DEF LoneKnows, PutPCs
  <2>4. ASSUME GapBy(q)', post'[q].lone
        PROVE  /\ Guards(baseline', post'[q].obs.at)
               /\ \A r \in Posts : post'[r].pc \in PutPCs =>
                                      Guards(post'[r].prev, post'[q].obs.at)
    <3>1. post'[q] = post[q] /\ GapBy(q) /\ post[q].lone
      BY <1>1, <2>4 DEF GapBy
    <3>2. post[q].obs.at \in Nat
      BY <3>1, PostsAre DEF GapBy
    <3>3. /\ Guards(baseline, post[q].obs.at)
          /\ \A r \in Posts : post[r].pc \in PutPCs => Guards(post[r].prev, post[q].obs.at)
      BY <3>1, PostsAre DEF GapIsGuarded
    <3> DEFINE t == post[q].obs.at
    <3> HIDE DEF t
    <3>4. t \in Nat /\ Guards(baseline, t)
          /\ \A r \in Posts : post[r].pc \in PutPCs => Guards(post[r].prev, t)
      BY <3>2, <3>3 DEF t
    <3>5. Guards(baseline', t) /\ (new.pc \in PutPCs => Guards(new.prev, t))
      BY <3>4
    <3>6. \A r \in Posts : post'[r].pc \in PutPCs => Guards(post'[r].prev, t)
      BY <1>1, <3>4, <3>5
    <3> QED
      BY <3>1, <3>5, <3>6 DEF t
  <2> QED
    BY <2>2, <2>3, <2>4 DEF GapIsGuarded, Guards
<1>8. LoneKnows(p)'
  <2>1. post[p].lone => InFlight = {p}
    BY PostsAre DEF LoneKnows
  <2>2. p \in InFlight' /\ post'[p].lone => InFlight' = {p}
    BY <1>1, <1>5, <2>1 DEF InFlight
  <2> QED
    BY <1>1, <2>2 DEF LoneKnows, HasDelta, Older, SameTimeConflict, DeltaOf
<1>9. GapIsGuarded(p)'
  <2> SUFFICES ASSUME new.pc = "success", new.obs # None, new.lone
               PROVE  /\ Guards(baseline', new.obs.at)
                      /\ \A r \in Posts : post'[r].pc \in PutPCs =>
                                             Guards(post'[r].prev, new.obs.at)
    BY <1>1 DEF GapIsGuarded, GapBy, Guards
  <2>1. InFlight = {p}
    BY PostsAre DEF LoneKnows
  <2>2. \A r \in Posts : post'[r].pc \notin PutPCs
    <3>1. \A r \in Posts \ {p} : post[r].pc \in {"idle", "success", "failed"}
      BY <2>1 DEF InFlight
    <3> QED
      BY <1>1, <1>6, <3>1
  <2> QED
    BY <2>2
<1> QED
  BY <1>2, <1>4, <1>7, <1>8, <1>9 DEF PlaneInv

EndedPost(doc, pc) == [NoPost EXCEPT !.pc = pc, !.doc = doc]

LEMMA EndedIs ==
    ASSUME NEW doc \in Statuses \cup {None}, NEW pc \in {"success", "failed"}, NEW new,
           new = EndedPost(doc, pc)
    PROVE  /\ new \in PostType /\ new.pc = pc /\ new.doc = doc
           /\ new.obs = None /\ new.prev = None
<1>1. new = [pc |-> pc, doc |-> doc, obs |-> None, prev |-> None, lone |-> TRUE]
  BY DEF NoPost, EndedPost
<1>2. pc \in PostPCs
  BY DEF PostPCs
<1>3. new \in PostType
  BY <1>1, <1>2 DEF PostType
<1> QED
  BY <1>1, <1>3

(* A post ends and keeps nothing but its document.                           *)
LEMMA EndKeeps ==
    ASSUME PlaneInv, NEW p \in Posts, p \in InFlight, NEW pc \in {"success", "failed"},
           post' = Ended(p, pc), UNCHANGED <<universe, status, view, clock>>, faults' \in Nat,
           baseline' \in BaselineType \cup {None}, delta' \in DeltaType \cup {None},
           DeltaIsTrue',
           \A t \in Nat :
              Guards(baseline, t) /\ (post[p].pc \in PutPCs => Guards(post[p].prev, t)) =>
                  Guards(baseline', t)
    PROVE  PlaneInv'
<1> DEFINE new == EndedPost(post[p].doc, pc)
<1>1. /\ new \in PostType /\ new.pc = pc /\ new.doc = post[p].doc
      /\ new.obs = None /\ new.prev = None
  BY EndedIs, PostsAre
<1>2. post' = [post EXCEPT ![p] = new]
  BY DEF Ended, EndedPost
<1> HIDE DEF new
<1>3. post'[p] = new
  BY <1>2, PostsAre
<1>4. pc \notin PutPCs \cup {"idle", "baseline"} /\ pc # "idle" /\ p \notin InFlight'
  BY <1>1, <1>3 DEF PutPCs, InFlight
<1>5. PostKnows(p)'
  BY <1>1, <1>3, <1>4 DEF PostKnows, PutPCs
<1>6. new.pc \notin PutPCs /\ new.pc # "baseline_put" /\ new.pc \in {"success", "failed"}
  BY <1>1, <1>4
<1> QED
  BY <1>1, <1>2, <1>4, <1>5, <1>6, PostStepKeeps

LEMMA FaultCount ==
    ASSUME PlaneInv, Fault \/ NoFault
    PROVE  faults' \in Nat
BY DEF PlaneInv, TypeOK, Fault, NoFault

LEMMA FailPostStep ==
    ASSUME PlaneInv, NEW p \in Posts, FailPost(p)
    PROVE  PlaneInv'
<1>1. /\ p \in InFlight /\ post' = Ended(p, "failed") /\ faults' \in Nat
      /\ UNCHANGED <<universe, status, baseline, delta, view, clock>>
  BY FaultCount DEF FailPost, kv
<1>2. /\ baseline' \in BaselineType \cup {None} /\ delta' \in DeltaType \cup {None}
      /\ DeltaIsTrue'
  BY <1>1 DEF PlaneInv, TypeOK, DeltaIsTrue
<1> QED
  BY <1>1, <1>2, EndKeeps

(* The observation of a post pairs a hash with codes of another universe only *)
(* where it is not complete.                                                 *)
LEMMA ObservesTruly ==
    ASSUME PlaneInv, NEW p \in Posts, post[p].pc = "universe",
           NEW u \in Universes \cup {None}, ObserveAs(p, u), Fault \/ NoFault,
           UNCHANGED <<kv, view, clock>>
    PROVE  PlaneInv'
<1> DEFINE s == post[p].doc
           state == IF u = None THEN "PORTFOLIO_UNKNOWN" ELSE PortfolioState(u, s, clock)
           codes == IF u = None THEN {} ELSE u.hash
           obs == [state |-> state, hash |-> s.hash, at |-> s.generated, codes |-> codes]
           new == [post[p] EXCEPT !.pc = "baseline", !.obs = obs]
<1>1. /\ p \in InFlight /\ post[p] \in PostType /\ s \in Statuses /\ PostKnows(p)
      /\ clock \in Nat
  BY PostsAre DEF InFlight, PostKnows, PlaneInv, TypeOK
<1>2. state \in States
  BY <1>1, StateIsOne DEF States
<1>3. s.hash \in Hashes /\ s.generated \in Nat /\ codes \in SUBSET Codes
  BY <1>1, PortfolioAssumption DEF StatusType, UniverseType, Hashes
<1>4. state = "LIVE_COMPLETE" => codes = s.hash
  <2>1. u # None /\ PortfolioState(u, s, clock) = "LIVE_COMPLETE" => CrossChecked(u, s)
    BY <1>1, CompleteIsConfirmed
  <2> QED
    BY <2>1 DEF CrossChecked
<1>5. post' = [post EXCEPT ![p] = new]
  BY DEF ObserveAs
<1> HIDE DEF s, state, codes
<1>6. /\ obs \in ObservationType /\ obs # None
      /\ (obs.state = "LIVE_COMPLETE" => obs.codes = obs.hash)
  BY <1>2, <1>3, <1>4, PortfolioAssumption DEF ObservationType
<1> HIDE DEF obs
<1>7. /\ new \in PostType /\ new.pc = "baseline" /\ new.doc = s /\ new.obs = obs
      /\ new.prev = post[p].prev /\ new.lone = post[p].lone
  BY <1>1, <1>6 DEF PostType, PostPCs, s
<1> HIDE DEF new
<1>8. post'[p] = new
  BY <1>5, PostsAre
<1>9. s # None /\ new.pc \notin PutPCs
  BY <1>1, <1>7, PortfolioAssumption DEF PutPCs
<1>10. PostKnows(p)'
  BY <1>1, <1>6, <1>7, <1>8, <1>9 DEF PostKnows, PutPCs
<1>11. /\ baseline' \in BaselineType \cup {None} /\ delta' \in DeltaType \cup {None}
       /\ DeltaIsTrue' /\ UNCHANGED <<universe, status, baseline, view, clock>>
       /\ new.doc = post[p].doc /\ faults' \in Nat
  BY <1>7, FaultCount DEF PlaneInv, TypeOK, DeltaIsTrue, kv, s
<1> QED
  BY <1>1, <1>5, <1>7, <1>9, <1>10, <1>11, PostStepKeeps

LEMMA ReadUniverseStep ==
    ASSUME PlaneInv, NEW p \in Posts, ReadUniverse(p)
    PROVE  PlaneInv'
<1>1. universe \in Universes \cup {None} /\ None \in Universes \cup {None}
  BY DEF PlaneInv, TypeOK
<1> QED
  BY <1>1, ObservesTruly DEF ReadUniverse

LEMMA ReadBaselineStep ==
    ASSUME PlaneInv, NEW p \in Posts, ReadBaseline(p)
    PROVE  PlaneInv'
<1> DEFINE o == post[p].obs
           pc == IF HasDelta(baseline, o) THEN "delta_put" ELSE "baseline_put"
           new == [post[p] EXCEPT !.prev = baseline, !.pc = pc]
<1>1. /\ p \in InFlight /\ post[p] \in PostType /\ PostKnows(p) /\ post[p].pc = "baseline"
      /\ UNCHANGED <<universe, status, baseline, delta, view, clock>> /\ faults' \in Nat
  BY PostsAre DEF InFlight, ReadBaseline, kv, PlaneInv, TypeOK
<1>2. /\ baseline' \in BaselineType \cup {None} /\ delta' \in DeltaType \cup {None}
      /\ DeltaIsTrue'
  BY <1>1 DEF PlaneInv, TypeOK, DeltaIsTrue
<1>3. CASE ReducedBaseline(baseline, o) = None
  <2>1. post' = Ended(p, "success")
    BY <1>3 DEF ReadBaseline
  <2> QED
    BY <1>1, <1>2, <2>1, EndKeeps
<1>4. CASE ReducedBaseline(baseline, o) # None
  <2>1. post' = [post EXCEPT ![p] = new]
    BY <1>4 DEF ReadBaseline
  <2>2. /\ pc \in {"delta_put", "baseline_put"} /\ (pc = "delta_put" <=> HasDelta(baseline, o))
    OBVIOUS
  <2> HIDE DEF pc
  <2>3. /\ new \in PostType /\ new.pc = pc /\ new.doc = post[p].doc /\ new.obs = o
        /\ new.prev = baseline /\ new.lone = post[p].lone
    BY <1>1, <1>2, <2>2 DEF PostType, PostPCs
  <2> HIDE DEF new
  <2>4. post'[p] = new
    BY <2>1, PostsAre
  <2>5. baseline # None => baseline.codes = baseline.hash
    BY DEF PlaneInv, DeltaIsTrue
  <2>6. PostKnows(p)'
    <3>1. /\ post'[p].doc # None /\ post'[p].obs # None /\ post'[p].pc # "idle"
          /\ post'[p].obs.state = "LIVE_COMPLETE" => post'[p].obs.codes = post'[p].obs.hash
      BY <1>1, <2>2, <2>3, <2>4 DEF PostKnows
    <3>2. /\ ReducedBaseline(post'[p].prev, post'[p].obs) # None
          /\ (post'[p].pc = "delta_put" => HasDelta(post'[p].prev, post'[p].obs))
          /\ (post'[p].prev # None => post'[p].prev.codes = post'[p].prev.hash)
      BY <1>4, <2>2, <2>3, <2>4, <2>5
    <3> QED
      BY <3>1, <3>2 DEF PostKnows, HasDelta, Older, SameTimeConflict, ReducedBaseline,
                        CompleteBaseline, BrokenBaseline
  <2>7. new.pc \notin {"idle", "success", "failed"}
    BY <2>2, <2>3
  <2>8. new.lone /\ new.pc = "baseline_put" /\ HasDelta(new.prev, new.obs) =>
           delta' = DeltaOf(new.prev, new.obs)
    BY <2>2, <2>3
  <2>9. \A t \in Nat :
           Guards(baseline, t) /\ (post[p].pc \in PutPCs => Guards(post[p].prev, t)) =>
               Guards(baseline', t) /\ (new.pc \in PutPCs => Guards(new.prev, t))
    BY <1>1, <2>3
  <2> QED
    BY <1>1, <1>2, <2>1, <2>3, <2>6, <2>7, <2>8, <2>9, PostStepKeeps
<1> QED
  BY <1>3, <1>4

LEMMA DeltaIs ==
    ASSUME NEW b \in BaselineType, NEW o \in ObservationType, HasDelta(b, o),
           b.codes = b.hash, o.codes = o.hash
    PROVE  /\ DeltaOf(b, o) \in DeltaType
           /\ DeltaOf(b, o).added = DeltaOf(b, o).cur \ DeltaOf(b, o).prev
           /\ DeltaOf(b, o).removed = DeltaOf(b, o).prev \ DeltaOf(b, o).cur
           /\ DeltaOf(b, o).prev # DeltaOf(b, o).cur
<1>1. /\ b.hash \in Hashes /\ b.codes \in SUBSET Codes
      /\ o.hash \in Hashes /\ o.codes \in SUBSET Codes /\ o.at \in Nat
  BY DEF BaselineType, ObservationType
<1>2. b.hash # o.hash
  BY DEF HasDelta
<1> QED
  BY <1>1, <1>2 DEF DeltaOf, DeltaType

LEMMA PutDeltaStep ==
    ASSUME PlaneInv, NEW p \in Posts, PutDelta(p)
    PROVE  PlaneInv'
<1> DEFINE b == post[p].prev
           o == post[p].obs
           new == [post[p] EXCEPT !.pc = "baseline_put"]
<1>1. /\ p \in InFlight /\ post[p] \in PostType /\ PostKnows(p) /\ LoneKnows(p)
      /\ post[p].pc = "delta_put" /\ post[p].pc \in PutPCs /\ delta' = DeltaOf(b, o)
      /\ UNCHANGED <<universe, status, baseline, view, clock>> /\ faults' \in Nat
  BY PostsAre, FaultCount DEF InFlight, PutDelta, PutPCs
<1>2. b \in BaselineType /\ o \in ObservationType /\ HasDelta(b, o)
      /\ o.codes = o.hash /\ b.codes = b.hash
  <2>1. o # None /\ HasDelta(b, o)
    BY <1>1 DEF PostKnows
  <2>2. b # None /\ o.state = "LIVE_COMPLETE"
    BY <2>1 DEF HasDelta
  <2> QED
    BY <1>1, <2>1, <2>2, PostsAre DEF PostKnows
<1>3. /\ baseline' \in BaselineType \cup {None} /\ delta' \in DeltaType \cup {None}
      /\ DeltaIsTrue'
  <2>1. /\ delta' \in DeltaType /\ delta'.added = delta'.cur \ delta'.prev
        /\ delta'.removed = delta'.prev \ delta'.cur /\ delta'.prev # delta'.cur
    BY <1>1, <1>2, DeltaIs
  <2> QED
    BY <1>1, <2>1 DEF PlaneInv, TypeOK, DeltaIsTrue
<1>4. CASE post' = Ended(p, "failed")
  <2>1. \A t \in Nat :
           Guards(baseline, t) /\ (post[p].pc \in PutPCs => Guards(post[p].prev, t)) =>
               Guards(baseline', t)
    BY <1>1
  <2> QED
    BY <1>1, <1>3, <1>4, <2>1, EndKeeps
<1>5. CASE post' = [post EXCEPT ![p].pc = "baseline_put"]
  <2>1. post' = [post EXCEPT ![p] = new]
    BY <1>5
  <2>2. /\ new \in PostType /\ new.pc = "baseline_put" /\ new.doc = post[p].doc /\ new.obs = o
        /\ new.prev = b /\ new.lone = post[p].lone
    BY <1>1 DEF PostType, PostPCs
  <2> HIDE DEF new
  <2>3. post'[p] = new
    BY <2>1, PostsAre
  <2>4. PostKnows(p)'
    <3>1. /\ post[p].doc # None /\ o # None /\ ReducedBaseline(b, o) # None
          /\ (o.state = "LIVE_COMPLETE" => o.codes = o.hash)
          /\ (b # None => b.codes = b.hash)
      BY <1>1 DEF PostKnows
    <3> HIDE DEF b, o
    <3>2. /\ post'[p].doc # None /\ post'[p].obs # None /\ post'[p].pc = "baseline_put"
          /\ (post'[p].obs.state = "LIVE_COMPLETE" => post'[p].obs.codes = post'[p].obs.hash)
          /\ (post'[p].prev # None => post'[p].prev.codes = post'[p].prev.hash)
          /\ ReducedBaseline(post'[p].prev, post'[p].obs) # None
      BY <2>2, <2>3, <3>1
    <3> QED
      BY <3>2 DEF PostKnows, ReducedBaseline, Older, CompleteBaseline, BrokenBaseline
  <2>5. new.lone /\ new.pc \in PutPCs => new.prev = baseline'
    BY <1>1, <2>2 DEF LoneKnows
  <2>6. /\ new.pc \notin {"idle", "success", "failed"} /\ new.doc = post[p].doc
        /\ new.lone = post[p].lone
        /\ new.lone /\ new.pc = "baseline_put" /\ HasDelta(new.prev, new.obs) =>
              delta' = DeltaOf(new.prev, new.obs)
    BY <1>1, <2>2
  <2>7. \A t \in Nat :
           Guards(baseline, t) /\ (post[p].pc \in PutPCs => Guards(post[p].prev, t)) =>
               Guards(baseline', t) /\ (new.pc \in PutPCs => Guards(new.prev, t))
    BY <1>1, <2>2
  <2> QED
    BY <1>1, <1>3, <2>1, <2>2, <2>4, <2>5, <2>6, <2>7, PostStepKeeps
<1> QED
  BY <1>4, <1>5 DEF PutDelta

(* The baseline advances; a post that put an incomplete observation over a    *)
(* baseline has recorded the gap.                                            *)
LEMMA PutBaselineStep ==
    ASSUME PlaneInv, NEW p \in Posts, PutBaseline(p)
    PROVE  PlaneInv'
<1> DEFINE b == post[p].prev
           o == post[p].obs
           new == [post[p] EXCEPT !.pc = "success", !.prev = None]
<1>1. /\ p \in InFlight /\ post[p] \in PostType /\ PostKnows(p) /\ LoneKnows(p)
      /\ post[p].pc = "baseline_put" /\ post[p].pc \in PutPCs
      /\ baseline' = ReducedBaseline(b, o)
      /\ UNCHANGED <<universe, status, delta, view, clock>> /\ faults' \in Nat
  BY PostsAre, FaultCount DEF InFlight, PutBaseline, PutPCs
<1>2. b \in BaselineType \cup {None} /\ o \in ObservationType /\ baseline' # None
  BY <1>1, PostsAre DEF PostKnows
<1>3. /\ baseline' \in BaselineType \cup {None} /\ delta' \in DeltaType \cup {None}
      /\ DeltaIsTrue'
      /\ \A t \in Nat : Guards(b, t) => Guards(baseline', t)
      /\ ~ Older(b, o) /\ o.state # "LIVE_COMPLETE" => Guards(baseline', o.at)
  <2>1. /\ baseline' \in BaselineType \cup {None}
        /\ (b # None => b.codes = b.hash)
           /\ (o.state = "LIVE_COMPLETE" => o.codes = o.hash) =>
              (baseline' # None => baseline'.codes = baseline'.hash)
        /\ \A t \in Nat : Guards(b, t) => Guards(baseline', t)
        /\ ~ Older(b, o) /\ o.state # "LIVE_COMPLETE" /\ baseline' # None =>
              Guards(baseline', o.at)
    <3> HIDE DEF b, o
    <3> QED
      BY <1>1, <1>2, ReducedIs
  <2>2. (b # None => b.codes = b.hash) /\ (o.state = "LIVE_COMPLETE" => o.codes = o.hash)
    BY <1>1 DEF PostKnows, PutPCs
  <2>3. delta' \in DeltaType \cup {None} /\ DeltaIsTrue'
    BY <1>1, <2>1, <2>2 DEF PlaneInv, TypeOK, DeltaIsTrue
  <2> QED
    BY <1>2, <2>1, <2>3
<1>4. \A t \in Nat :
         Guards(baseline, t) /\ (post[p].pc \in PutPCs => Guards(post[p].prev, t)) =>
             Guards(baseline', t)
  BY <1>1, <1>3
<1>5. ASSUME NEW pc \in {"success", "failed"}, post' = Ended(p, pc) PROVE PlaneInv'
  BY <1>1, <1>3, <1>4, <1>5, EndKeeps
<1>6. CASE /\ o.state # "LIVE_COMPLETE" /\ ~ Older(b, o)
           /\ post' = [post EXCEPT ![p].pc = "success", ![p].prev = None]
  <2>1. post' = [post EXCEPT ![p] = new]
    BY <1>6
  <2>2. /\ new \in PostType /\ new.pc = "success" /\ new.doc = post[p].doc /\ new.obs = o
        /\ new.prev = None /\ new.lone = post[p].lone
    BY <1>1 DEF PostType, PostPCs
  <2> HIDE DEF new
  <2>3. post'[p] = new
    BY <2>1, PostsAre
  <2>4. new.pc \notin PutPCs /\ p \notin InFlight'
    BY <2>2, <2>3 DEF PutPCs, InFlight
  <2>5. PostKnows(p)'
    BY <1>6, <2>2, <2>3, <2>4 DEF PostKnows, PutPCs
  <2>6. Guards(baseline', new.obs.at) /\ new.pc # "idle" /\ new.pc # "baseline_put"
    BY <1>3, <1>6, <2>2
  <2>7. \A t \in Nat :
           Guards(baseline, t) /\ (post[p].pc \in PutPCs => Guards(post[p].prev, t)) =>
               Guards(baseline', t) /\ (new.pc \in PutPCs => Guards(new.prev, t))
    BY <1>4, <2>4
  <2> HIDE DEF b, o
  <2> QED
    BY <1>1, <1>3, <2>1, <2>2, <2>4, <2>5, <2>6, <2>7, PostStepKeeps
<1> QED
  BY <1>5, <1>6 DEF PutBaseline, Recorded

(* A post that begins, or fails at once, leaves the others what they know.   *)
LEMMA StartKeeps ==
    ASSUME PlaneInv, NEW p \in Posts, post[p].pc = "idle", NEW new \in PostType,
           post' \in [Posts -> PostType], post'[p] = new, new.obs = None, new.prev = None,
           new.pc = "failed" \/ (/\ new.pc = "universe" /\ new.doc # None
                                 /\ new.lone => InFlight = {}),
           \A q \in Posts \ {p} :
              /\ post'[q].pc = post[q].pc /\ post'[q].doc = post[q].doc
              /\ post'[q].obs = post[q].obs /\ post'[q].prev = post[q].prev
              /\ post'[q].lone => post[q].lone
              /\ post'[q].lone /\ q \in InFlight => new.pc = "failed",
           UNCHANGED <<universe, baseline, delta, view, clock>>, faults' \in Nat,
           status' = status \/ (status' = new.doc /\ new.doc # None)
    PROVE  PlaneInv'
<1>1. post[p].doc = None /\ p \notin InFlight
  BY PostsAre DEF PostKnows, InFlight
<1>2. TypeOK' /\ DeltaIsTrue'
  <2>1. new.doc \in Statuses \cup {None}
    BY DEF PostType
  <2> QED
    BY <2>1 DEF PlaneInv, TypeOK, DeltaIsTrue
<1>3. \A q \in Posts : post[q].doc # None => post'[q].doc = post[q].doc
  BY <1>1
<1>4. CompleteViewIsConfirmed' /\ StatusWasPosted'
  <2>1. CompleteViewIsConfirmed'
    BY <1>3 DEF PlaneInv, CompleteViewIsConfirmed
  <2>2. StatusWasPosted'
    BY <1>3 DEF PlaneInv, StatusWasPosted
  <2> QED
    BY <2>1, <2>2
<1>5. PutPCs \cap {"idle", "universe", "failed", "success"} = {}
  BY DEF PutPCs
<1>6. /\ \A q \in Posts \ {p} : q \in InFlight' <=> q \in InFlight
      /\ p \in InFlight' <=> new.pc = "universe"
  BY DEF InFlight
<1>7. ASSUME NEW q \in Posts PROVE PostKnows(q)'
  <2>1. CASE q = p
    BY <1>5, <1>6, <2>1 DEF PostKnows
  <2>2. CASE q # p
    <3>1. PostKnows(q) /\ (q \in InFlight' <=> q \in InFlight)
      BY <1>6, <2>2, PostsAre
    <3>2. /\ post'[q].prev = post[q].prev /\ post'[q].obs = post[q].obs
          /\ post'[q].pc = post[q].pc /\ post'[q].doc = post[q].doc
      BY <2>2
    <3>4. /\ post'[q].pc = "idle" =>
                post'[q].doc = None /\ post'[q].obs = None /\ post'[q].prev = None
          /\ q \in InFlight' => post'[q].doc # None
          /\ post'[q].pc \in {"baseline"} \cup PutPCs => post'[q].obs # None
          /\ post'[q].obs # None /\ post'[q].obs.state = "LIVE_COMPLETE" =>
                post'[q].obs.codes = post'[q].obs.hash
          /\ post'[q].prev # None => post'[q].prev.codes = post'[q].prev.hash
      BY <3>1, <3>2 DEF PostKnows
    <3>5. /\ post'[q].pc \in PutPCs => ReducedBaseline(post'[q].prev, post'[q].obs) # None
          /\ post'[q].pc = "delta_put" => HasDelta(post'[q].prev, post'[q].obs)
      BY <3>1, <3>2 DEF PostKnows
    <3> QED
      BY <3>4, <3>5 DEF PostKnows, HasDelta, Older, SameTimeConflict, ReducedBaseline,
                        CompleteBaseline, BrokenBaseline
  <2> QED
    BY <2>1, <2>2
<1>8. ASSUME NEW q \in Posts PROVE LoneKnows(q)'
  <2>1. CASE q = p
    <3>1. post'[p].lone /\ p \in InFlight' => InFlight = {}
      BY <1>6
    <3>2. InFlight = {} /\ p \in InFlight' => InFlight' = {p}
      BY <1>6 DEF InFlight
    <3>3. post'[p].pc \notin PutPCs /\ post'[p].pc # "baseline_put"
      BY <1>5
    <3> QED
      BY <2>1, <3>1, <3>2, <3>3 DEF LoneKnows
  <2>2. CASE q # p
    <3>1. LoneKnows(q) /\ (post[q].pc \in PutPCs => q \in InFlight)
      BY <1>5, PostsAre DEF InFlight
    <3>2. post'[q].lone /\ q \in InFlight' => InFlight' = {q}
      BY <1>6, <2>2, <3>1 DEF LoneKnows, InFlight
    <3> QED
      BY <2>2, <3>1, <3>2 DEF LoneKnows, HasDelta, Older, SameTimeConflict, DeltaOf
  <2> QED
    BY <2>1, <2>2
<1>9. ASSUME NEW q \in Posts PROVE GapIsGuarded(q)'
  <2>1. CASE q = p
    BY <2>1 DEF GapIsGuarded, GapBy
  <2>2. CASE q # p
    <3>1. GapIsGuarded(q)
      BY PostsAre
    <3>2. ASSUME GapBy(q)', post'[q].lone
          PROVE  /\ Guards(baseline', post'[q].obs.at)
                 /\ \A r \in Posts : post'[r].pc \in PutPCs =>
                                        Guards(post'[r].prev, post'[q].obs.at)
      <4>1. GapBy(q) /\ post[q].lone /\ post'[q].obs = post[q].obs
        BY <2>2, <3>2 DEF GapBy
      <4>2. /\ Guards(baseline, post[q].obs.at)
            /\ \A r \in Posts : post[r].pc \in PutPCs => Guards(post[r].prev, post[q].obs.at)
        BY <3>1, <4>1 DEF GapIsGuarded
      <4>3. \A r \in Posts : post'[r].pc \in PutPCs =>
                                post[r].pc \in PutPCs /\ post'[r].prev = post[r].prev
        BY <1>5
      <4> QED
        BY <4>1, <4>2, <4>3
    <3> QED
      BY <3>2 DEF GapIsGuarded, Guards
  <2> QED
    BY <2>1, <2>2
<1> QED
  BY <1>2, <1>4, <1>7, <1>8, <1>9 DEF PlaneInv

(* The other posts keep all but that they were alone.                        *)
CrossedPost(r, alone) == [r EXCEPT !.lone = @ /\ alone]

LEMMA CrossedIs ==
    ASSUME NEW r \in PostType, NEW alone \in BOOLEAN, NEW new, new = CrossedPost(r, alone)
    PROVE  /\ new \in PostType /\ new.pc = r.pc /\ new.doc = r.doc /\ new.obs = r.obs
           /\ new.prev = r.prev /\ (new.lone => r.lone /\ alone)
<1> DEFINE lone == r.lone /\ alone
<1>1. new = [r EXCEPT !.lone = lone]
  BY DEF CrossedPost
<1>2. lone \in BOOLEAN /\ (lone => r.lone /\ alone)
  OBVIOUS
<1> HIDE DEF lone
<1>3. new \in PostType /\ new.pc = r.pc /\ new.doc = r.doc /\ new.obs = r.obs
      /\ new.prev = r.prev /\ new.lone = lone
  BY <1>1, <1>2 DEF PostType
<1> QED
  BY <1>2, <1>3

StartedPost(s, lone) == [NoPost EXCEPT !.pc = "universe", !.doc = s, !.lone = lone]

LEMMA StartedIs ==
    ASSUME NEW s \in Statuses, NEW lone \in BOOLEAN, NEW new, new = StartedPost(s, lone)
    PROVE  /\ new \in PostType /\ new.pc = "universe" /\ new.doc = s /\ new.obs = None
           /\ new.prev = None /\ new.lone = lone
<1>1. new = [pc |-> "universe", doc |-> s, obs |-> None, prev |-> None, lone |-> lone]
  BY DEF StartedPost, NoPost
<1>2. "universe" \in PostPCs
  BY DEF PostPCs
<1> QED
  BY <1>1, <1>2 DEF PostType

LEMMA PostStatusStep ==
    ASSUME PlaneInv, NEW p \in Posts, NEW s \in Statuses, PostStatus(p, s)
    PROVE  PlaneInv'
<1>1. /\ post[p].pc = "idle" /\ UNCHANGED <<universe, baseline, delta, view, clock>>
      /\ faults' \in Nat /\ s # None /\ post \in [Posts -> PostType] /\ post[p] \in PostType
  BY FaultCount, PostsAre, PortfolioAssumption DEF PostStatus
<1>2. post[p].doc = None /\ post[p].obs = None /\ post[p].prev = None /\ p \notin InFlight
  BY <1>1, PostsAre DEF PostKnows, InFlight
<1>3. ASSUME NEW new \in PostType, post' = [post EXCEPT ![p] = new], new.pc = "failed",
             new.obs = None, new.prev = None,
             status' = status \/ (status' = new.doc /\ new.doc # None)
      PROVE  PlaneInv'
  <2>1. post' \in [Posts -> PostType] /\ post'[p] = new
        /\ \A q \in Posts \ {p} : post'[q] = post[q]
    BY <1>1, <1>3
  <2>2. \A q \in Posts \ {p} :
           /\ post'[q].pc = post[q].pc /\ post'[q].doc = post[q].doc
           /\ post'[q].obs = post[q].obs /\ post'[q].prev = post[q].prev
           /\ post'[q].lone => post[q].lone
           /\ post'[q].lone /\ q \in InFlight => new.pc = "failed"
    BY <1>3, <2>1
  <2> QED
    BY <1>1, <1>3, <2>1, <2>2, StartKeeps
<1>4. CASE post' = Ended(p, "failed") /\ status' = status
  <2> DEFINE new == EndedPost(post[p].doc, "failed")
  <2>1. /\ new \in PostType /\ new.pc = "failed" /\ new.doc = post[p].doc
        /\ new.obs = None /\ new.prev = None
    BY <1>1, PostsAre, EndedIs
  <2>2. post' = [post EXCEPT ![p] = new]
    BY <1>4 DEF Ended, EndedPost
  <2> HIDE DEF new
  <2> QED
    BY <1>3, <1>4, <2>1, <2>2
<1>5. CASE /\ post' = [post EXCEPT ![p].pc = "failed", ![p].doc = s]
           /\ status' \in {s, status}
  <2> DEFINE new == [post[p] EXCEPT !.pc = "failed", !.doc = s]
  <2>1. post' = [post EXCEPT ![p] = new]
    BY <1>5
  <2>2. /\ new \in PostType /\ new.pc = "failed" /\ new.doc = s
        /\ new.obs = None /\ new.prev = None
    BY <1>1, <1>2 DEF PostType, PostPCs
  <2> HIDE DEF new
  <2> QED
    BY <1>1, <1>3, <1>5, <2>1, <2>2
<1>6. CASE post' = Started(p, s) /\ status' = s
  <2> DEFINE alone == InFlight = {}
             new == StartedPost(s, alone)
  <2>1. /\ new \in PostType /\ new.pc = "universe" /\ new.doc = s /\ new.obs = None
        /\ new.prev = None /\ (new.lone <=> alone)
    <3> HIDE DEF alone
    <3>1. alone \in BOOLEAN
      BY DEF alone
    <3> QED
      BY <3>1, StartedIs
  <2>2. post' = [q \in Posts |-> IF q = p THEN new ELSE CrossedPost(post[q], q \notin InFlight)]
    BY <1>6 DEF Started, StartedPost, CrossedPost
  <2> HIDE DEF new
  <2>3. ASSUME NEW q \in Posts \ {p}
        PROVE  /\ post'[q] \in PostType
               /\ post'[q].pc = post[q].pc /\ post'[q].doc = post[q].doc
               /\ post'[q].obs = post[q].obs /\ post'[q].prev = post[q].prev
               /\ post'[q].lone => post[q].lone /\ q \notin InFlight
    <3> DEFINE apart == q \notin InFlight
               next == post'[q]
    <3>1. next = CrossedPost(post[q], apart) /\ post[q] \in PostType
      BY <1>1, <2>2
    <3>2. apart \in BOOLEAN
      OBVIOUS
    <3> HIDE DEF apart, next
    <3>3. /\ next \in PostType /\ next.pc = post[q].pc /\ next.doc = post[q].doc
          /\ next.obs = post[q].obs /\ next.prev = post[q].prev
          /\ (next.lone => post[q].lone /\ apart)
      BY <3>1, <3>2, CrossedIs
    <3> QED
      BY <3>3 DEF apart, next
  <2>4. post' \in [Posts -> PostType] /\ post'[p] = new
    <3>1. DOMAIN post' = Posts /\ post'[p] = new
      BY <2>2
    <3>2. \A q \in Posts : post'[q] \in PostType
      BY <2>1, <2>3, <3>1
    <3>3. post' = [q \in Posts |-> post'[q]]
      BY <2>2
    <3> QED
      BY <3>1, <3>2, <3>3
  <2>5. \A q \in Posts \ {p} :
           /\ post'[q].pc = post[q].pc /\ post'[q].doc = post[q].doc
           /\ post'[q].obs = post[q].obs /\ post'[q].prev = post[q].prev
           /\ post'[q].lone => post[q].lone
           /\ post'[q].lone /\ q \in InFlight => new.pc = "failed"
    BY <2>3
  <2>6. new.doc # None /\ (new.lone => InFlight = {}) /\ status' = new.doc
    BY <1>1, <1>6, <2>1
  <2> HIDE DEF alone
  <2> QED
    BY <1>1, <2>1, <2>4, <2>5, <2>6, StartKeeps
<1> QED
  BY <1>4, <1>5, <1>6 DEF PostStatus

------------------------------------------------------------------------------
(* The steps beside the posts *)

LEMMA PostsStay ==
    ASSUME PlaneInv, UNCHANGED <<status, baseline, delta, post>>
    PROVE  /\ StatusWasPosted' /\ DeltaIsTrue'
           /\ \A p \in Posts : PostKnows(p)' /\ LoneKnows(p)' /\ GapIsGuarded(p)'
<1>1. StatusWasPosted' /\ DeltaIsTrue'
  BY DEF PlaneInv, StatusWasPosted, DeltaIsTrue
<1>2. ASSUME NEW p \in Posts PROVE PostKnows(p)'
  BY DEF PlaneInv, PostKnows, InFlight, HasDelta, Older, SameTimeConflict, ReducedBaseline,
         CompleteBaseline, BrokenBaseline
<1>3. ASSUME NEW p \in Posts PROVE LoneKnows(p)'
  BY DEF PlaneInv, LoneKnows, InFlight, HasDelta, Older, SameTimeConflict, DeltaOf
<1>4. ASSUME NEW p \in Posts PROVE GapIsGuarded(p)'
  BY DEF PlaneInv, GapIsGuarded, GapBy, Guards
<1> QED
  BY <1>1, <1>2, <1>3, <1>4

(* A reader that shows a portfolio as LIVE_COMPLETE shows it as posted.       *)
LEMMA ViewKeeps ==
    ASSUME PlaneInv, NEW v \in Readers, NEW new \in ViewType, view' = [view EXCEPT ![v] = new],
           UNCHANGED <<universe, status, baseline, delta, post, clock>>, faults' \in Nat,
           new.pc = "shown" /\ new.state = "LIVE_COMPLETE" =>
              \E p \in Posts : LET s == post[p].doc IN
                 /\ s # None /\ s.state = "LIVE_COMPLETE"
                 /\ s.hash = new.universe.hash /\ s.manifest = new.universe.manifest
                 /\ s.lrcca <= new.now /\ new.now - s.lrcca <= CompleteMaxAge
    PROVE  PlaneInv'
<1>1. /\ view \in [Readers -> ViewType] /\ view' \in [Readers -> ViewType] /\ view'[v] = new
      /\ \A w \in Readers \ {v} : view'[w] = view[w]
  BY DEF PlaneInv, TypeOK
<1>2. TypeOK'
  BY <1>1 DEF PlaneInv, TypeOK
<1>3. CompleteViewIsConfirmed'
  BY <1>1 DEF PlaneInv, CompleteViewIsConfirmed
<1> QED
  BY <1>2, <1>3, PostsStay DEF PlaneInv

LEMMA ViewUniverseStep ==
    ASSUME PlaneInv, NEW v \in Readers, ViewUniverse(v)
    PROVE  PlaneInv'
<1>1. /\ view[v] \in ViewType /\ view \in [Readers -> ViewType] /\ clock \in Nat
      /\ universe \in Universes \cup {None} /\ faults' \in Nat
      /\ UNCHANGED <<universe, status, baseline, delta, post, clock>>
  BY FaultCount DEF PlaneInv, TypeOK, ViewUniverse, kv
<1>2. CASE view' = [view EXCEPT ![v].pc = "status", ![v].now = clock, ![v].universe = universe]
  <2> DEFINE new == [view[v] EXCEPT !.pc = "status", !.now = clock, !.universe = universe]
  <2>1. view' = [view EXCEPT ![v] = new]
    BY <1>2
  <2>2. new \in ViewType /\ new.pc = "status"
    BY <1>1 DEF ViewType, ViewPCs
  <2> HIDE DEF new
  <2> QED
    BY <1>1, <2>1, <2>2, ViewKeeps
<1>3. CASE view' = [view EXCEPT ![v].pc = "status", ![v].now = clock]
  <2> DEFINE new == [view[v] EXCEPT !.pc = "status", !.now = clock]
  <2>1. view' = [view EXCEPT ![v] = new]
    BY <1>3
  <2>2. new \in ViewType /\ new.pc = "status"
    BY <1>1 DEF ViewType, ViewPCs
  <2> HIDE DEF new
  <2> QED
    BY <1>1, <2>1, <2>2, ViewKeeps
<1>4. CASE view' = [view EXCEPT ![v].pc = "failed"]
  <2> DEFINE new == [view[v] EXCEPT !.pc = "failed"]
  <2>1. view' = [view EXCEPT ![v] = new]
    BY <1>4
  <2>2. new \in ViewType /\ new.pc = "failed"
    BY <1>1 DEF ViewType, ViewPCs
  <2> HIDE DEF new
  <2> QED
    BY <1>1, <2>1, <2>2, ViewKeeps
<1> QED
  BY <1>2, <1>3, <1>4 DEF ViewUniverse

LEMMA ShowStep ==
    ASSUME PlaneInv, NEW v \in Readers, NEW s \in {status, None}, Show(v, s),
           UNCHANGED <<kv, post, clock>>, faults' \in Nat
    PROVE  PlaneInv'
<1> DEFINE u == view[v].universe
           now == view[v].now
           state == PortfolioState(u, s, now)
           overlay == Overlay(u, s, now)
           new == [view[v] EXCEPT !.pc = "shown", !.state = state, !.overlay = overlay]
<1>1. /\ view[v] \in ViewType /\ view \in [Readers -> ViewType]
      /\ s \in Statuses \cup {None} /\ overlay \in BOOLEAN
      /\ UNCHANGED <<universe, status, baseline, delta, post, clock>>
  BY DEF PlaneInv, TypeOK, kv, Overlay, Fresh
<1>2. u \in Universes \cup {None} /\ now \in Nat
  BY <1>1 DEF ViewType
<1>3. state \in States
  BY <1>1, <1>2, StateIsOne
<1>4. state = "LIVE_COMPLETE" =>
         /\ s # None /\ s.state = "LIVE_COMPLETE" /\ CrossChecked(u, s)
         /\ s.lrcca \in Nat /\ s.lrcca <= now /\ now - s.lrcca <= CompleteMaxAge
  BY <1>1, <1>2, CompleteIsConfirmed
<1>5. view' = [view EXCEPT ![v] = new]
  BY DEF Show
<1> HIDE DEF state, overlay
<1>6. new \in ViewType /\ new.pc = "shown" /\ new.state = state /\ new.universe = u
      /\ new.now = now
  BY <1>1, <1>3 DEF ViewType, ViewPCs
<1> HIDE DEF new
<1>7. state = "LIVE_COMPLETE" => \E p \in Posts : post[p].doc = s /\ s # None
  BY <1>4 DEF PlaneInv, StatusWasPosted
<1>8. new.pc = "shown" /\ new.state = "LIVE_COMPLETE" =>
         \E p \in Posts : LET t == post[p].doc IN
            /\ t # None /\ t.state = "LIVE_COMPLETE"
            /\ t.hash = new.universe.hash /\ t.manifest = new.universe.manifest
            /\ t.lrcca <= new.now /\ new.now - t.lrcca <= CompleteMaxAge
  BY <1>4, <1>6, <1>7 DEF CrossChecked
<1> QED
  BY <1>1, <1>5, <1>6, <1>8, ViewKeeps

LEMMA ViewStatusStep ==
    ASSUME PlaneInv, NEW v \in Readers, ViewStatus(v)
    PROVE  PlaneInv'
<1>1. UNCHANGED <<kv, post, clock>> /\ faults' \in Nat
  BY FaultCount DEF ViewStatus
<1> QED
  BY <1>1, ShowStep DEF ViewStatus

(* A new universe, the clock, and no step at all.                            *)
LEMMA OtherStep ==
    ASSUME PlaneInv, UNCHANGED <<status, baseline, delta, post, view>>,
           universe' \in Universes \cup {None}, clock' \in Nat, faults' = faults
    PROVE  PlaneInv'
<1>1. TypeOK' /\ CompleteViewIsConfirmed'
  BY DEF PlaneInv, TypeOK, CompleteViewIsConfirmed
<1> QED
  BY <1>1, PostsStay DEF PlaneInv

------------------------------------------------------------------------------
(* The invariant and what follows from it *)

LEMMA PlaneInit == Init => PlaneInv
<1> SUFFICES ASSUME Init PROVE PlaneInv
  OBVIOUS
<1>1. NoPost \in PostType /\ NoView \in ViewType /\ MaxTime \in Nat
  BY PortfolioAssumption DEF NoPost, PostType, PostPCs, NoView, ViewType, ViewPCs, States
<1>2. TypeOK
  BY <1>1 DEF Init, TypeOK
<1>3. DeltaIsTrue /\ StatusWasPosted
  BY DEF Init, DeltaIsTrue, StatusWasPosted
<1>4. CompleteViewIsConfirmed
  BY DEF Init, CompleteViewIsConfirmed, NoView
<1>5. \A p \in Posts :
         /\ post[p].pc = "idle" /\ post[p].doc = None /\ post[p].obs = None
         /\ post[p].prev = None
  BY DEF Init, NoPost
<1>6. ASSUME NEW p \in Posts PROVE PostKnows(p) /\ LoneKnows(p) /\ GapIsGuarded(p)
  BY <1>5 DEF PostKnows, LoneKnows, GapIsGuarded, GapBy, InFlight, PutPCs
<1> QED
  BY <1>2, <1>3, <1>4, <1>6 DEF PlaneInv

LEMMA PlaneNext == PlaneInv /\ [Next]_vars => PlaneInv'
<1> SUFFICES ASSUME PlaneInv, [Next]_vars PROVE PlaneInv'
  OBVIOUS
<1>1. universe \in Universes \cup {None} /\ clock \in Nat
  BY DEF PlaneInv, TypeOK
<1>2. CASE Tick
  <2>1. clock' \in Nat
    BY <1>1, <1>2 DEF Tick
  <2> QED
    BY <1>1, <1>2, <2>1, OtherStep DEF Tick, kv
<1>3. ASSUME NEW u \in Universes, PostUniverse(u) PROVE PlaneInv'
  BY <1>1, <1>3, OtherStep DEF PostUniverse
<1>4. ASSUME NEW p \in Posts, NEW s \in Statuses, PostStatus(p, s) PROVE PlaneInv'
  BY <1>4, PostStatusStep
<1>5. ASSUME NEW p \in Posts,
             ReadUniverse(p) \/ ReadBaseline(p) \/ PutDelta(p) \/ PutBaseline(p) \/ FailPost(p)
      PROVE  PlaneInv'
  BY <1>5, ReadUniverseStep, ReadBaselineStep, PutDeltaStep, PutBaselineStep, FailPostStep
<1>6. ASSUME NEW v \in Readers, ViewUniverse(v) \/ ViewStatus(v) PROVE PlaneInv'
  BY <1>6, ViewUniverseStep, ViewStatusStep
<1>7. CASE UNCHANGED vars
  BY <1>1, <1>7, OtherStep DEF vars
<1> QED
  BY <1>2, <1>3, <1>4, <1>5, <1>6, <1>7 DEF Next

(* What the posts, the keys and the readers know of each other, however the   *)
(* puts and gets of the posts interleave, fail or stop half-way.              *)
THEOREM PlaneInvariant == Spec => []PlaneInv
<1> QED
  BY PlaneInit, PlaneNext, PTL DEF Spec

(* Every key holds a document of its schema, every request its own state.     *)
THEOREM PlaneTypeCorrect == Spec => []TypeOK
<1>1. PlaneInv => TypeOK
  BY DEF PlaneInv
<1> QED
  BY <1>1, PlaneInvariant, PTL

(* A stored delta is the difference of the two portfolios it names, although  *)
(* the universe is read after the status that names it was put.               *)
THEOREM DeltasAreTrue == Spec => []DeltaIsTrue
<1>1. PlaneInv => DeltaIsTrue
  BY DEF PlaneInv
<1> QED
  BY <1>1, PlaneInvariant, PTL

(* A portfolio shown as LIVE_COMPLETE was confirmed as that universe, and      *)
(* recently, although readers take the two keys one after the other.          *)
THEOREM CompleteViewsAreConfirmed == Spec => []CompleteViewIsConfirmed
<1>1. PlaneInv => CompleteViewIsConfirmed
  BY DEF PlaneInv
<1> QED
  BY <1>1, PlaneInvariant, PTL

LEMMA InvGap == PlaneInv => RecordedGapIsKept
<1> SUFFICES ASSUME PlaneInv, NEW p \in Posts, NEW q \in Posts, GapBy(q), post[q].lone,
                    Spans(p, q)
             PROVE  FALSE
  BY DEF RecordedGapIsKept
<1>1. post[p].pc = "delta_put" /\ post[p].prev.at < post[q].obs.at
  BY DEF Spans
<1>2. Guards(post[p].prev, post[q].obs.at)
  BY <1>1, PostsAre DEF GapIsGuarded, PutPCs
<1>3. post[p].prev.eligible
  BY <1>1, PostsAre DEF PostKnows, HasDelta
<1>4. post[p].prev.at >= post[q].obs.at
  BY <1>2, <1>3 DEF Guards
<1>5. post[p].prev.at \in Nat /\ post[q].obs.at \in Nat
  <2>1. post[p].prev \in BaselineType
    BY <1>2, PostsAre DEF Guards
  <2>2. post[q].obs.at \in Nat
    BY PostsAre DEF GapBy
  <2> QED
    BY <2>1, <2>2 DEF BaselineType
<1> QED
  BY <1>1, <1>4, <1>5

(* Once a post that overlapped no other has recorded an incomplete            *)
(* observation, no event spans it, whatever overlaps, fails or arrives late.  *)
THEOREM RecordedGapsAreKept == Spec => []RecordedGapIsKept
<1> QED
  BY PlaneInvariant, InvGap, PTL

(* Only the last put of a post moves the baseline.                           *)
LEMMA BaselineMoves ==
    ASSUME PlaneInv, [Next]_vars, baseline' # baseline
    PROVE  \E p \in Posts : /\ post[p].pc = "baseline_put" /\ delta' = delta
                            /\ baseline' = ReducedBaseline(post[p].prev, post[p].obs)
                            /\ \A q \in Posts \ {p} : post'[q] = post[q]
<1>1. PICK p \in Posts : PutBaseline(p)
  BY DEF Next, Tick, PostUniverse, PostStatus, ReadUniverse, ReadBaseline, PutDelta, FailPost,
         ViewUniverse, ViewStatus, kv, vars
<1>2. post \in [Posts -> PostType]
  BY DEF PlaneInv, TypeOK
<1>3. \A q \in Posts \ {p} : post'[q] = post[q]
  BY <1>1, <1>2 DEF PutBaseline, Recorded, Ended
<1> QED
  BY <1>1, <1>3 DEF PutBaseline

LEMMA LoneAdvance ==
    ASSUME PlaneInv, [Next]_vars, NEW p \in Posts, post'[p] # post[p], post[p].lone,
           baseline' # baseline, baseline # None, baseline'.eligible, baseline.eligible,
           baseline'.hash # baseline.hash, baseline'.lastAt > baseline.lastAt
    PROVE  delta' # None /\ delta'.prev = baseline.hash /\ delta'.cur = baseline'.hash
<1> DEFINE b == post[p].prev
           o == post[p].obs
<1>1. /\ post[p].pc = "baseline_put" /\ delta' = delta
      /\ baseline' = ReducedBaseline(b, o)
  BY BaselineMoves
<1>2. b = baseline /\ (HasDelta(b, o) => delta = DeltaOf(b, o))
  BY <1>1, PostsAre DEF LoneKnows, PutPCs
<1>3. b \in BaselineType /\ o \in ObservationType /\ b # None
  BY <1>1, <1>2, PostsAre DEF PostKnows, PutPCs
<1> HIDE DEF b, o
<1>4. ~ Older(b, o)
  BY <1>1, <1>2 DEF ReducedBaseline
<1>5. o.state = "LIVE_COMPLETE"
  <2> SUFFICES ASSUME o.state # "LIVE_COMPLETE" PROVE FALSE
    OBVIOUS
  <2>1. baseline' = BrokenBaseline(b, o)
    BY <1>1, <1>3, <1>4 DEF ReducedBaseline
  <2>2. ~ baseline'.eligible
    BY <1>3, <2>1, BrokenIs
  <2> QED
    BY <2>2
<1>6. baseline' = CompleteBaseline(o)
  BY <1>1, <1>4, <1>5 DEF ReducedBaseline
<1>7. baseline'.hash = o.hash /\ baseline'.lastAt = o.at
  BY <1>3, <1>6, CompleteIs
<1>8. o.at \in Nat /\ b.lastAt \in Nat
  BY <1>3 DEF ObservationType, BaselineType
<1>9. HasDelta(b, o)
  BY <1>2, <1>3, <1>4, <1>5, <1>7, <1>8 DEF HasDelta, SameTimeConflict
<1>10. delta' = DeltaOf(b, o)
  BY <1>1, <1>2, <1>9
<1>11. DeltaOf(b, o).prev = b.hash /\ DeltaOf(b, o).cur = o.hash /\ DeltaOf(b, o) \in DeltaType
  BY <1>3 DEF DeltaOf, DeltaType, BaselineType, ObservationType
<1> QED
  BY <1>2, <1>7, <1>10, <1>11, PortfolioAssumption

(* A lone post's advance to another portfolio is the stored event: a failure  *)
(* between the two puts repeats the event and cannot lose it.                 *)
THEOREM LoneAdvancesAreAnnounced == Spec => LoneAdvanceIsAnnounced
<1>1. PlaneInv /\ [Next]_vars =>
        [\A p \in Posts :
            /\ post'[p] # post[p] /\ post[p].lone
            /\ baseline' # baseline
            /\ baseline # None /\ baseline'.eligible /\ baseline.eligible
            /\ baseline'.hash # baseline.hash /\ baseline'.lastAt > baseline.lastAt
            => delta' # None /\ delta'.prev = baseline.hash /\ delta'.cur = baseline'.hash]_vars
  BY LoneAdvance
<1> QED
  BY <1>1, PlaneInvariant, PTL DEF Spec, LoneAdvanceIsAnnounced
=============================================================================
