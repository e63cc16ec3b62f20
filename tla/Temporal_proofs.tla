-------------------------- MODULE Temporal_proofs ---------------------------
(***************************************************************************)
(* Proofs about Temporal: types, that neither clock adjustments nor        *)
(* restarts nor retries age an organism or take age from it, that the      *)
(* records of one session agree on what became of an anchor, and that they *)
(* replay to the engine's state.                                           *)
(***************************************************************************)
EXTENDS TemporalReplay, WellFoundedInduction, TLAPS

\* A state whose trusted catch-up is paid for by monotonic time, up to m.
Paid(t, m) ==
    /\ t.mapping.mono <= m
    /\ t.anchor.eligible => t.mapping.known
    /\ TickLength * (t.age - t.active) <= t.mapping.mono + Tolerance * t.caught

\* A sample not older than the clock mapping of t, and taken by time m.
SampleOf(t, s, m) == t.mapping.mono <= s.mono /\ s.mono <= m

\* A state never committed, or one whose clock the records l hold.
Recorded(l, t) == t.version = 0 \/ \E i \in 1..Len(l) : Clock(l[i].new) = Clock(t)

StatesPaid   == Paid(st, mono) /\ Paid(snap.st, snap.mono)
FlightFresh  ==
    \A f \in flight : SampleOf(f.prior, f.sample, mono) /\ f.sample.quality = "good"
PlansFresh   == \A p \in plan \cup dropped : SampleOf(p.prior, p.sample, mono)
PreparedFresh == \A q \in prepared : SampleOf(st, q.sample, mono)
StatesRecorded == Recorded(log, st) /\ Recorded(log, snap.st)

IInv ==
    /\ TypeOK /\ NoStaleAdvance
    /\ StatesPaid /\ FlightFresh /\ PlansFresh /\ PreparedFresh
    /\ StatesRecorded

-----------------------------------------------------------------------------
(* Arithmetic *)

\* Whole ticks of a gap do not exceed it.
LEMMA TicksOfGap ==
    ASSUME NEW g \in Nat, NEW k \in Nat \ {0}
    PROVE  g \div k \in Nat /\ k * (g \div k) <= g
  BY SMTT(30)

\* A longer gap has no fewer whole ticks.
LEMMA MoreTicks ==
    ASSUME NEW g \in Nat, NEW h \in Nat, g <= h, NEW k \in Nat \ {0}
    PROVE  g \div k \in Nat /\ h \div k \in Nat /\ g \div k <= h \div k
<1>1. k * (g \div k) <= g /\ g \div k \in Nat
  BY TicksOfGap
<1>2. h \div k \in Nat /\ h < k * (h \div k) + k
  BY SMTT(30)
<1> DEFINE a == g \div k
           b == h \div k
<1>3. k * a < k * b + k
  BY <1>1, <1>2, SMTT(30)
<1> HIDE DEF a, b
<1>4. a \in Nat /\ b \in Nat
  BY <1>1, <1>2 DEF a, b
<1>5. a <= b
  BY <1>3, <1>4, SMTT(30)
<1> QED
  BY <1>4, <1>5 DEF a, b

\* Multiplication distributes over the age gained.
LEMMA Distributes ==
    ASSUME NEW k \in Nat, NEW a \in Int, NEW b \in Int, NEW d \in Int
    PROVE  k * (a + d - b) = k * (a - b) + k * d
  BY SMTT(30)

-----------------------------------------------------------------------------
(* Types of the operators *)

LEMMA RecoveredType ==
    ASSUME NEW e \in Evidence, NEW age \in Nat
    PROVE  Recovered(e, age) \in Evidence
  BY DEF Recovered, Evidence

\* A gap that counts lies within the trusted range.
LEMMA CatchUpGap ==
    ASSUME NEW p \in Plan, CatchesUp(p)
    PROVE  /\ Gap(p.prior, p.sample) \in Nat
           /\ p.sample.quality = "good" /\ p.prior.anchor.eligible
           /\ p.prior.mapping.known =>
                Gap(p.prior, p.sample) <= Ran(p.prior, p.sample) + Tolerance
  BY TemporalAssumption
     DEF CatchesUp, Trusted, Comparable, Near, Gap, Ran, Plan, State, Anchor, Mapping, Sample

\* Age never decreases, and grows by no more than the gap.
LEMMA NextAgeBounds ==
    ASSUME NEW p \in Plan
    PROVE  /\ NextAge(p) \in Nat
           /\ p.prior.age <= NextAge(p)
           /\ CatchesUp(p) =>
                TickLength * (NextAge(p) - p.prior.age) <= Gap(p.prior, p.sample)
           /\ ~CatchesUp(p) => NextAge(p) = p.prior.age
<1> p.prior.age \in Nat
  BY DEF Plan, State
<1>1. CASE CatchesUp(p)
  <2> DEFINE d == Gap(p.prior, p.sample) \div TickLength
  <2>1. d \in Nat /\ TickLength * d <= Gap(p.prior, p.sample)
    BY <1>1, CatchUpGap, TicksOfGap, TemporalAssumption
  <2>2. NextAge(p) = p.prior.age + d
    BY <1>1 DEF NextAge
  <2> HIDE DEF d
  <2>3. NextAge(p) - p.prior.age = d
    BY <2>1, <2>2
  <2> QED
    BY <1>1, <2>1, <2>2, <2>3
<1>2. CASE ~CatchesUp(p)
  BY <1>2 DEF NextAge
<1> QED
  BY <1>1, <1>2

LEMMA MappedType ==
    ASSUME NEW m \in Mapping, NEW s \in Sample
    PROVE  Mapped(m, s) \in Mapping
  BY DEF Mapped, Mapping, Sample

LEMMA NextRecordType == TypeOK => NextRecord \in Nat
  BY DEF TypeOK, NextRecord

\* An anchor is made of its parts.
LEMMA AnchorType ==
    ASSUME NEW i \in Nat, NEW w \in Nat, NEW b \in BOOLEAN
    PROVE  [id |-> i, wall |-> w, eligible |-> b] \in Anchor
  BY Zenon DEF Anchor

LEMMA AdvancedType ==
    ASSUME TypeOK, NEW f \in Advance
    PROVE  Advanced(f) \in State
<1>1. Mapped(st.mapping, f.sample) \in Mapping
  BY MappedType DEF TypeOK, State, Advance
<1>2. [id |-> NextRecord, wall |-> f.sample.wall, eligible |-> TRUE] \in Anchor
  BY NextRecordType DEF Anchor, Advance, Sample
<1>3. /\ f.prior.age + 1 \in Nat /\ f.prior.active + 1 \in Nat /\ f.seq \in Nat
      /\ st.version + 1 \in Nat /\ st.evidence \in Evidence /\ st.caught \in Nat
  <2>1. st \in State /\ f.prior \in State /\ f.seq \in Nat
    BY DEF TypeOK, Advance
  <2> QED
    BY <2>1 DEF State
<1> QED
  BY <1>1, <1>2, <1>3, Zenon DEF Advanced, State

LEMMA ReconciledType ==
    ASSUME TypeOK, NEW p \in Plan, NEW s \in Sample
    PROVE  Reconciled(p, s) \in State
<1>1. Mapped(st.mapping, s) \in Mapping
  BY MappedType DEF TypeOK, State
<1>2. NextAge(p) \in Nat
  BY NextAgeBounds
<1>3. Recovered(st.evidence, NextAge(p)) \in Evidence
  BY <1>2, RecoveredType DEF TypeOK, State
<1>4. CatchesUp(p) \in BOOLEAN
  BY DEF CatchesUp, Plan, Trusted, Comparable
<1>5. [id       |-> NextRecord,
       wall     |-> IF p.sample.quality = "missing" THEN 0 ELSE p.sample.wall,
       eligible |-> CatchesUp(p)] \in Anchor
  <2> DEFINE w == IF p.sample.quality = "missing" THEN 0 ELSE p.sample.wall
  <2>1. w \in Nat
    BY DEF Plan, Sample
  <2> HIDE DEF w
  <2>2. [id |-> NextRecord, wall |-> w, eligible |-> CatchesUp(p)] \in Anchor
    BY <2>1, <1>4, NextRecordType, AnchorType, Zenon
  <2> QED
    BY <2>2, Zenon DEF w
<1>6. /\ st.active \in Nat /\ st.seq \in Nat /\ st.version + 1 \in Nat
      /\ (IF CatchesUp(p) THEN st.caught + 1 ELSE st.caught) \in Nat
  <2>1. /\ st.active \in Nat /\ st.seq \in Nat /\ st.version \in Nat /\ st.caught \in Nat
    BY DEF TypeOK, State
  <2>2. \A m \in Nat : m + 1 \in Nat
    OBVIOUS
  <2> QED
    BY <2>1, <2>2, Zenon
<1> QED
  BY <1>1, <1>2, <1>3, <1>5, <1>6, Zenon DEF Reconciled, State

LEMMA NowType ==
    ASSUME TypeOK, NEW q \in Qualities
    PROVE  Now(q) \in Sample /\ Now(q).mono = mono /\ Now(q).quality = q
  BY DEF TypeOK, Now, Sample

LEMMA PayloadType ==
    ASSUME NEW p \in Plan
    PROVE  PayloadOf(p) \in Payload /\ PayloadOf(p).sample = p.sample
<1>1. NextAge(p) \in Nat
  BY NextAgeBounds
<1>2. Recovered(p.prior.evidence, NextAge(p)) \in Evidence
  BY <1>1, RecoveredType DEF Plan, State
<1> QED
  BY <1>1, <1>2 DEF PayloadOf, Payload, Plan

-----------------------------------------------------------------------------
(* Why catching up is paid for *)

\* A tick adds one to both ages and does not move the mapping back.
LEMMA AdvancePaid ==
    ASSUME TypeOK, NEW f \in Advance, f.prior = st, Paid(st, mono),
           SampleOf(f.prior, f.sample, mono), f.sample.quality = "good"
    PROVE  Paid(Advanced(f), mono)
<1>1. st \in State /\ f.sample \in Sample
  BY DEF TypeOK, Advance
<1>2. /\ st.age \in Nat /\ st.active \in Nat /\ st.mapping \in Mapping
      /\ st.caught \in Nat /\ f.sample.mono \in Nat
  BY <1>1 DEF State, Sample
<1>3. /\ Advanced(f).age - Advanced(f).active = st.age - st.active
      /\ Advanced(f).caught = st.caught
  BY <1>2 DEF Advanced
<1>4. /\ Advanced(f).mapping.known /\ Advanced(f).mapping.mono = f.sample.mono
  BY DEF Advanced, Mapped
<1>5. st.mapping.mono \in Nat /\ st.mapping.mono <= f.sample.mono /\ f.sample.mono <= mono
  BY <1>2 DEF Mapping, SampleOf
<1>6. TickLength * (st.age - st.active) <= f.sample.mono + Tolerance * st.caught
  <2>1. TickLength * (st.age - st.active) \in Int /\ Tolerance * st.caught \in Int
    BY <1>2, TemporalAssumption
  <2>2. TickLength * (st.age - st.active) <= st.mapping.mono + Tolerance * st.caught
    BY DEF Paid
  <2> QED
    BY <2>1, <2>2, <1>2, <1>5
<1> QED
  BY <1>3, <1>4, <1>5, <1>6 DEF Paid

\* A reconciliation that catches up adds at most the monotonic time since the
\* mapping and the tolerance; any other adds nothing.
LEMMA ReconcilePaid ==
    ASSUME TypeOK, NEW p \in Plan, p.prior = st, Paid(st, mono),
           SampleOf(p.prior, p.sample, mono)
    PROVE  Paid(Reconciled(p, p.sample), mono)
<1> DEFINE new  == Reconciled(p, p.sample)
           base == TickLength * (st.age - st.active)
           past == Tolerance * st.caught
<1>1. st \in State /\ p.sample \in Sample
  BY DEF TypeOK, Plan
<1>2. /\ st.age \in Nat /\ st.active \in Nat /\ st.mapping \in Mapping
      /\ st.caught \in Nat /\ p.sample.mono \in Nat
  BY <1>1 DEF State, Sample
<1>3. st.mapping.mono \in Nat /\ st.mapping.mono <= p.sample.mono /\ p.sample.mono <= mono
  BY <1>2 DEF Mapping, SampleOf
<1>4. base \in Int /\ past \in Int /\ base <= st.mapping.mono + past
  BY <1>2, TemporalAssumption DEF Paid
<1>5. /\ new.age = NextAge(p) /\ new.active = st.active
      /\ new.mapping = Mapped(st.mapping, p.sample)
      /\ new.anchor.eligible = CatchesUp(p)
      /\ new.caught = IF CatchesUp(p) THEN st.caught + 1 ELSE st.caught
  BY Zenon DEF Reconciled
<1> SUFFICES Paid(new, mono)
  OBVIOUS
<1>6. mono \in Nat
  BY DEF TypeOK
<1> HIDE DEF new
<1>7. CASE CatchesUp(p)
  <2> DEFINE g == Gap(st, p.sample)
             d == NextAge(p) - st.age
  <2>1. g \in Nat /\ p.sample.quality = "good" /\ st.mapping.known
        /\ g <= p.sample.mono - st.mapping.mono + Tolerance
    BY <1>7, CatchUpGap DEF Paid, Ran
  <2>2. d \in Nat /\ TickLength * d <= g
    BY <1>2, <1>7, NextAgeBounds
  <2>3. new.mapping.known /\ new.mapping.mono = p.sample.mono
    BY <1>5, <2>1 DEF Mapped
  <2>4. new.age - new.active = st.age + d - st.active
    BY <1>2, <1>5, NextAgeBounds
  <2>5. TickLength * (st.age + d - st.active) = base + TickLength * d
    <3>1. d \in Int /\ st.age \in Int /\ st.active \in Int /\ TickLength \in Nat
      BY <1>2, <2>2, TemporalAssumption
    <3>2. base = TickLength * (st.age - st.active)
      OBVIOUS
    <3> HIDE DEF d, base
    <3>3. PICK k \in Nat, a, b, c \in Int :
              k = TickLength /\ a = st.age /\ b = st.active /\ c = d
      BY <3>1
    <3>4. k * (a + c - b) = k * (a - b) + k * c
      BY Distributes
    <3> QED
      BY <3>2, <3>3, <3>4, Zenon
  <2>6. Tolerance * new.caught = past + Tolerance
    BY <1>2, <1>5, <1>7, TemporalAssumption, SMTT(30)
  <2>7. TickLength * d \in Int
    BY <2>2, TemporalAssumption
  <2> HIDE DEF g, d, base, past
  <2>8. base + TickLength * d <= p.sample.mono + (past + Tolerance)
    BY <1>2, <1>3, <1>4, <2>1, <2>2, <2>7, TemporalAssumption
  <2> QED
    BY <1>3, <2>3, <2>4, <2>5, <2>6, <2>8 DEF Paid
<1>8. CASE ~CatchesUp(p)
  <2>1. new.age = st.age /\ new.caught = st.caught /\ ~new.anchor.eligible
    BY <1>5, <1>8, NextAgeBounds
  <2>2. new.mapping.mono \in Nat /\ st.mapping.mono <= new.mapping.mono
        /\ new.mapping.mono <= mono
    BY <1>2, <1>3, <1>5, <1>6 DEF Mapped, Paid, Mapping
  <2>3. TickLength * (new.age - new.active) = base /\ Tolerance * new.caught = past
    BY <1>5, <2>1
  <2> HIDE DEF base, past
  <2>4. base <= new.mapping.mono + past
    BY <1>3, <1>4, <2>2
  <2> QED
    BY <2>1, <2>2, <2>3, <2>4 DEF Paid
<1> QED
  BY <1>7, <1>8

-----------------------------------------------------------------------------
(* Records *)

LEMMA RecordedGrows ==
    ASSUME NEW l \in Seq(Record), NEW r \in Record, NEW t, Recorded(l, t)
    PROVE  Recorded(Append(l, r), t)
<1>1. CASE t.version = 0
  BY <1>1 DEF Recorded
<1>2. CASE \E i \in 1..Len(l) : Clock(l[i].new) = Clock(t)
  <2>1. PICK i \in 1..Len(l) : Clock(l[i].new) = Clock(t)
    BY <1>2
  <2>2. i \in 1..Len(Append(l, r)) /\ Append(l, r)[i] = l[i]
    BY <2>1
  <2> QED
    BY <2>1, <2>2 DEF Recorded
<1> QED
  BY <1>1, <1>2 DEF Recorded

LEMMA RecordedLast ==
    ASSUME NEW l \in Seq(Record), NEW r \in Record
    PROVE  Recorded(Append(l, r), r.new)
<1>1. Len(l) + 1 \in 1..Len(Append(l, r)) /\ Append(l, r)[Len(l) + 1] = r
  OBVIOUS
<1> QED
  BY <1>1 DEF Recorded

-----------------------------------------------------------------------------
(* The invariant is inductive *)

LEMMA GenesisType == Genesis \in State /\ Paid(Genesis, 0)
  BY TemporalAssumption DEF Genesis, State, Anchor, Mapping, Evidence, Paid

LEMMA InitIInv == Init => IInv
<1> SUFFICES ASSUME Init PROVE IInv
  OBVIOUS
<1>1. TypeOK
  BY GenesisType DEF Init, TypeOK
<1>2. NoStaleAdvance /\ FlightFresh /\ PlansFresh /\ PreparedFresh
  BY DEF Init, NoStaleAdvance, FlightFresh, PlansFresh, PreparedFresh
<1>3. StatesPaid
  BY GenesisType DEF Init, StatesPaid
<1>4. StatesRecorded
  BY DEF Init, StatesRecorded, Recorded, Genesis
<1> QED
  BY <1>1, <1>2, <1>3, <1>4 DEF IInv

\* Only monotonic time grows: everything taken before is still old enough.
LEMMA BeginTickStep == IInv /\ BeginTick => IInv'
<1> SUFFICES ASSUME IInv, BeginTick PROVE IInv'
  OBVIOUS
<1> USE TemporalAssumption DEF IInv, BeginTick, durable, downtime, environment
<1> DEFINE s == [wall |-> wall, mono |-> mono, quality |-> "good"]
<1>1. st \in State /\ s \in Sample /\ mono \in Nat /\ seq \in Nat
  BY DEF TypeOK, Sample, Qualities
<1>2. mono + Dt \in Nat /\ mono <= mono + Dt
  BY <1>1
<1>3. [prior |-> st, sample |-> s, seq |-> seq + 1] \in Advance
  BY <1>1 DEF Advance
<1>4. TypeOK'
  BY <1>1, <1>2, <1>3 DEF TypeOK
<1>5. StatesPaid'
  <2>1. \A t \in State : Paid(t, mono) => Paid(t, mono + Dt)
    BY <1>1, <1>2 DEF Paid, State, Mapping
  <2> QED
    BY <1>1, <2>1 DEF TypeOK, StatesPaid
<1>6. PlansFresh' /\ PreparedFresh'
  BY <1>1, <1>2 DEF TypeOK, PlansFresh, PreparedFresh, SampleOf, Plan, Payload, Sample
<1>7. FlightFresh'
  BY <1>1, <1>2 DEF FlightFresh, StatesPaid, Paid, SampleOf
<1>8. NoStaleAdvance' /\ StatesRecorded'
  BY DEF NoStaleAdvance, StatesRecorded
<1> QED
  BY <1>4, <1>5, <1>6, <1>7, <1>8

\* Evidence is beside the clock.
LEMMA ObserveStep == IInv /\ Observe => IInv'
<1> SUFFICES ASSUME IInv, Observe PROVE IInv'
  OBVIOUS
<1> USE TemporalAssumption DEF IInv
<1>1. PICK e \in Evidence : st' = [st EXCEPT !.evidence = e]
  <2>1. PICK status \in {"hidden", "ACTIVE", "UNCERTAIN"}, end \in Ends :
          st' = [st EXCEPT !.evidence =
                    [changes |-> st.evidence.changes + 1, status |-> status, end |-> end]]
    BY DEF Observe
  <2>2. st.evidence.changes + 1 \in Nat /\ end \in Nat
    <3>1. st.evidence \in Evidence
      BY DEF TypeOK, State
    <3> QED
      BY <3>1 DEF Evidence
  <2>3. [changes |-> st.evidence.changes + 1, status |-> status, end |-> end] \in Evidence
    BY <2>2 DEF Evidence
  <2> QED
    BY <2>1, <2>3
<1>2. /\ st' \in State /\ st'.mapping = st.mapping /\ st'.anchor = st.anchor
      /\ st'.age = st.age /\ st'.active = st.active /\ st'.caught = st.caught
      /\ Clock(st') = Clock(st) /\ st'.version = st.version
  BY <1>1 DEF TypeOK, State, Clock
<1> USE DEF Observe, durable, downtime, environment
<1>3. TypeOK'
  BY <1>2 DEF TypeOK
<1>4. StatesPaid' /\ FlightFresh' /\ PlansFresh' /\ PreparedFresh'
  BY <1>2 DEF StatesPaid, Paid, FlightFresh, PlansFresh, PreparedFresh, SampleOf
<1>5. NoStaleAdvance' /\ StatesRecorded'
  BY <1>2 DEF NoStaleAdvance, StatesRecorded, Recorded
<1> QED
  BY <1>3, <1>4, <1>5

LEMMA CommitTickStep == IInv /\ CommitTick => IInv'
<1> SUFFICES ASSUME IInv, CommitTick PROVE IInv'
  OBVIOUS
<1> USE DEF IInv
<1>1. PICK f \in flight :
        /\ f.prior = st
        /\ log' = Append(log, [kind |-> "tick", prior |-> st, new |-> Advanced(f)])
        /\ st' = Advanced(f)
  BY DEF CommitTick
<1> DEFINE r == [kind |-> "tick", prior |-> st, new |-> Advanced(f)]
<1>2. f \in Advance
  BY DEF TypeOK
<1>3. st' \in State
  BY <1>1, <1>2, AdvancedType
<1>4. r \in Record /\ r.new = st' /\ log \in Seq(Record) /\ log' = Append(log, r)
  BY <1>1, <1>3 DEF Record, TypeOK
<1> HIDE DEF r
<1>5. /\ flight' = {} /\ prepared' = {} /\ phase' = "idle"
      /\ UNCHANGED <<snap, seq, mono, plan, dropped, wall, restarts, jumps, loaded>>
  BY DEF CommitTick, environment
<1>6. TypeOK'
  BY <1>3, <1>4, <1>5 DEF TypeOK
<1>7. StatesPaid'
  BY <1>1, <1>2, <1>5, AdvancePaid DEF StatesPaid, FlightFresh
<1>8. NoStaleAdvance' /\ FlightFresh' /\ PreparedFresh' /\ PlansFresh'
  BY <1>5 DEF NoStaleAdvance, FlightFresh, PreparedFresh, PlansFresh
<1>9. StatesRecorded'
  BY <1>4, <1>5, RecordedGrows, RecordedLast DEF StatesRecorded
<1> QED
  BY <1>6, <1>7, <1>8, <1>9

LEMMA AbortTickStep == IInv /\ AbortTick => IInv'
  BY DEF IInv, AbortTick, durable, downtime, environment, TypeOK, StatesPaid, FlightFresh,
         PlansFresh, PreparedFresh, StatesRecorded, NoStaleAdvance

LEMMA SnapshotStep == IInv /\ Snapshot => IInv'
<1> SUFFICES ASSUME IInv, Snapshot PROVE IInv'
  OBVIOUS
<1> USE DEF IInv, Snapshot, downtime, environment
<1>1. TypeOK'
  BY DEF TypeOK
<1>2. StatesPaid' /\ StatesRecorded'
  BY DEF StatesPaid, StatesRecorded
<1>3. NoStaleAdvance' /\ FlightFresh' /\ PlansFresh' /\ PreparedFresh'
  BY DEF NoStaleAdvance, FlightFresh, PlansFresh, PreparedFresh
<1> QED
  BY <1>1, <1>2, <1>3

\* A plan's sample is the one kept for the anchor, or taken now.
LEMMA ReconcileStep ==
    ASSUME IInv, NEW quality \in Offered, NEW contracts \in BOOLEAN,
           Reconcile(quality, contracts)
    PROVE  IInv'
<1> USE DEF IInv
<1> DEFINE p == PlanFor(quality, contracts)
           s == StickySample(quality)
<1>1. s \in Sample /\ SampleOf(st, s, mono)
  <2>1. CASE prepared = {}
    <3>1. s = Now(quality)
      BY <2>1 DEF StickySample
    <3>2. st.mapping.mono <= mono /\ mono \in Nat
      BY DEF StatesPaid, Paid, TypeOK
    <3> QED
      BY <3>1, <3>2, NowType, TemporalAssumption DEF SampleOf
  <2>2. CASE prepared # {}
    <3>1. PICK q \in prepared : s = q.sample
      <4>1. (CHOOSE first \in prepared : TRUE) \in prepared
        BY <2>2
      <4> QED
        BY <2>2, <4>1 DEF StickySample
    <3> QED
      BY <3>1 DEF TypeOK, Payload, PreparedFresh
  <2> QED
    BY <2>1, <2>2
<1>2. p = [prior |-> st, sample |-> s, contracts |-> contracts]
  BY DEF PlanFor
<1> HIDE DEF s
<1>3. p \in Plan /\ p.prior = st /\ p.sample = s
  BY <1>1, <1>2 DEF Plan, TypeOK
<1>4. PayloadOf(p) \in Payload /\ PayloadOf(p).sample = s
  BY <1>3, PayloadType
<1>5. /\ plan' = {p} /\ prepared' = prepared \cup {PayloadOf(p)}
      /\ UNCHANGED <<log, snap, st, phase, seq, mono, flight, dropped, wall, restarts,
                     jumps, loaded>>
  BY DEF Reconcile, durable, environment
<1> HIDE DEF p
<1>6. TypeOK'
  BY <1>3, <1>4, <1>5 DEF TypeOK
<1>7. PlansFresh' /\ PreparedFresh'
  BY <1>1, <1>3, <1>4, <1>5 DEF PlansFresh, PreparedFresh
<1>8. NoStaleAdvance' /\ StatesPaid' /\ FlightFresh' /\ StatesRecorded'
  BY <1>5 DEF NoStaleAdvance, StatesPaid, FlightFresh, StatesRecorded
<1> QED
  BY <1>6, <1>7, <1>8

LEMMA AbandonReconciliationStep == IInv /\ AbandonReconciliation => IInv'
<1> SUFFICES ASSUME IInv, AbandonReconciliation PROVE IInv'
  OBVIOUS
<1> USE DEF IInv, AbandonReconciliation, durable, environment
<1>1. TypeOK'
  BY DEF TypeOK
<1>2. PlansFresh'
  BY DEF PlansFresh
<1>3. NoStaleAdvance' /\ StatesPaid' /\ FlightFresh' /\ PreparedFresh' /\ StatesRecorded'
  BY DEF NoStaleAdvance, StatesPaid, FlightFresh, PreparedFresh, StatesRecorded
<1> QED
  BY <1>1, <1>2, <1>3

LEMMA ApplyReconciliationStep == IInv /\ ApplyReconciliation => IInv'
<1> SUFFICES ASSUME IInv, ApplyReconciliation PROVE IInv'
  OBVIOUS
<1> USE DEF IInv
<1>1. PICK p \in plan :
        /\ p.prior = st
        /\ \E s \in CallerSamples(p) :
              log' = Append(log, [kind |-> "downtime", prior |-> st, new |-> Reconciled(p, s)])
        /\ st' = Reconciled(p, p.sample)
  BY DEF ApplyReconciliation, Applies
<1>a. PICK s \in CallerSamples(p) :
        log' = Append(log, [kind |-> "downtime", prior |-> st, new |-> Reconciled(p, s)])
  BY <1>1
<1>2. p \in Plan /\ p.sample \in Sample
  BY DEF TypeOK, Plan
<1>3. s \in Sample
  BY <1>2, NowType DEF CallerSamples, Qualities
<1>4. Reconciled(p, p.sample) \in State /\ Reconciled(p, s) \in State
  BY <1>2, <1>3, ReconciledType
<1> DEFINE r == [kind |-> "downtime", prior |-> st, new |-> Reconciled(p, s)]
<1>5. r \in Record /\ log \in Seq(Record) /\ log' = Append(log, r)
  BY <1>a, <1>4 DEF Record, TypeOK
<1>6. r.new.version = st'.version /\ Clock(r.new) = Clock(st')
  BY <1>1 DEF Clock, Reconciled
<1> HIDE DEF r
<1>7. /\ plan' = {} /\ prepared' = {}
      /\ UNCHANGED <<snap, phase, seq, mono, flight, dropped, wall, restarts, jumps, loaded>>
  BY DEF ApplyReconciliation, environment
<1>8. TypeOK'
  BY <1>1, <1>4, <1>5, <1>7 DEF TypeOK
<1>9. StatesPaid'
  BY <1>1, <1>2, <1>7, ReconcilePaid DEF StatesPaid, PlansFresh
<1>10. NoStaleAdvance' /\ FlightFresh' /\ PlansFresh' /\ PreparedFresh'
  BY <1>7 DEF NoStaleAdvance, FlightFresh, PlansFresh, PreparedFresh
<1>11. StatesRecorded'
  <2>1. Recorded(log', r.new) /\ Recorded(log', snap.st)
    BY <1>5, RecordedGrows, RecordedLast DEF StatesRecorded
  <2> QED
    BY <1>6, <1>7, <2>1 DEF StatesRecorded, Recorded
<1> QED
  BY <1>8, <1>9, <1>10, <1>11

\* The record of an abandoned plan is a record like any other; the engine's state
\* stays.
LEMMA ApplyDroppedStep == IInv /\ ApplyDropped => IInv'
<1> SUFFICES ASSUME IInv, ApplyDropped PROVE IInv'
  OBVIOUS
<1> USE DEF IInv
<1>1. PICK p \in dropped :
        log' = Append(log, [kind |-> "downtime", prior |-> st,
                            new |-> Reconciled(p, p.sample)])
  BY DEF ApplyDropped
<1>2. p \in Plan /\ p.sample \in Sample
  BY DEF TypeOK, Plan
<1>3. Reconciled(p, p.sample) \in State
  BY <1>2, ReconciledType
<1> DEFINE r == [kind |-> "downtime", prior |-> st, new |-> Reconciled(p, p.sample)]
<1>4. r \in Record /\ log \in Seq(Record) /\ log' = Append(log, r)
  BY <1>1, <1>3 DEF Record, TypeOK
<1> HIDE DEF r
<1>5. UNCHANGED <<snap, st, phase, seq, mono, flight, downtime, environment, loaded>>
  BY DEF ApplyDropped
<1> USE DEF downtime, environment
<1>6. TypeOK'
  BY <1>4, <1>5 DEF TypeOK
<1>7. StatesRecorded'
  BY <1>4, <1>5, RecordedGrows DEF StatesRecorded
<1>8. NoStaleAdvance' /\ StatesPaid' /\ FlightFresh' /\ PlansFresh' /\ PreparedFresh'
  BY <1>5 DEF NoStaleAdvance, StatesPaid, FlightFresh, PlansFresh, PreparedFresh
<1> QED
  BY <1>6, <1>7, <1>8

\* No part of the invariant reads the wall clock.
LEMMA ClockStep == IInv /\ (Elapse \/ ClockJump) => IInv'
<1> SUFFICES ASSUME IInv, Elapse \/ ClockJump PROVE IInv'
  OBVIOUS
<1> USE DEF IInv
<1>1. wall' \in Nat /\ jumps' \in Nat
  BY TemporalAssumption DEF TypeOK, Elapse, ClockJump
<1>2. UNCHANGED <<log, snap, st, phase, seq, mono, flight, plan, dropped, prepared,
                  loaded, restarts>>
  BY DEF Elapse, ClockJump, durable, downtime
<1>3. TypeOK'
  BY <1>1, <1>2 DEF TypeOK
<1>4. /\ NoStaleAdvance' /\ StatesPaid' /\ FlightFresh' /\ PlansFresh' /\ PreparedFresh'
      /\ StatesRecorded'
  BY <1>2 DEF NoStaleAdvance, StatesPaid, FlightFresh, PlansFresh, PreparedFresh,
             StatesRecorded
<1> QED
  BY <1>3, <1>4

\* The snapshot was paid for when it was taken, with its own monotonic time.
LEMMA RestartStep == IInv /\ Restart => IInv'
<1> SUFFICES ASSUME IInv, Restart PROVE IInv'
  OBVIOUS
<1> USE DEF IInv, Restart, durable
<1>1. snap.st \in State /\ snap.mono \in Nat /\ snap.st.seq \in Nat
      /\ log \in Seq(Record)
  BY DEF TypeOK, State
<1>2. TypeOK'
  BY <1>1 DEF TypeOK
<1>3. /\ NoStaleAdvance' /\ StatesPaid' /\ FlightFresh' /\ PlansFresh' /\ PreparedFresh'
      /\ StatesRecorded'
  BY DEF NoStaleAdvance, StatesPaid, FlightFresh, PlansFresh, PreparedFresh,
         StatesRecorded
<1> QED
  BY <1>2, <1>3

LEMMA StutterStep == IInv /\ UNCHANGED vars => IInv'
  BY DEF IInv, vars, durable, downtime, environment, TypeOK, NoStaleAdvance, StatesPaid,
         FlightFresh, PlansFresh, PreparedFresh, StatesRecorded

LEMMA StepIInv == IInv /\ [Next]_vars => IInv'
<1> SUFFICES ASSUME IInv, [Next]_vars PROVE IInv'
  OBVIOUS
<1>1. CASE BeginTick
  BY <1>1, BeginTickStep
<1>2. CASE Observe
  BY <1>2, ObserveStep
<1>3. CASE CommitTick
  BY <1>3, CommitTickStep
<1>4. CASE AbortTick
  BY <1>4, AbortTickStep
<1>5. CASE Snapshot
  BY <1>5, SnapshotStep
<1>6. ASSUME NEW quality \in Offered, NEW contracts \in BOOLEAN,
             Reconcile(quality, contracts)
      PROVE  IInv'
  BY <1>6, ReconcileStep
<1>7. CASE AbandonReconciliation
  BY <1>7, AbandonReconciliationStep
<1>8. CASE ApplyReconciliation
  BY <1>8, ApplyReconciliationStep
<1>9. CASE ApplyDropped
  BY <1>9, ApplyDroppedStep
<1>10. CASE Elapse \/ ClockJump
  BY <1>10, ClockStep
<1>11. CASE Restart
  BY <1>11, RestartStep
<1>12. CASE UNCHANGED vars
  BY <1>12, StutterStep
<1> QED
  BY <1>1, <1>2, <1>3, <1>4, <1>5, <1>6, <1>7, <1>8, <1>9, <1>10, <1>11, <1>12 DEF Next

LEMMA Inductive == Spec => []IInv
  BY InitIInv, StepIInv, PTL DEF Spec

-----------------------------------------------------------------------------
(* One outcome for every anchor *)

\* The records of this session's reconciliations of the anchor id.
RecordsOf(id) ==
    {i \in loaded.at + 1..Len(log) : log[i].kind = "downtime" /\ log[i].prior.anchor.id = id}

\* An anchor is the position of a record: the next one is nobody's yet.
AnchorsPast ==
    /\ loaded.at <= Len(log)
    /\ st.anchor.id <= Len(log) /\ snap.st.anchor.id <= Len(log)
    /\ \A p \in plan \cup dropped : p.prior.anchor.id <= Len(log)
    /\ \A i \in 1..Len(log) : log[i].prior.anchor.id <= Len(log)

\* A session prepares one payload for an anchor: its sample is kept, and a plan
\* with the same sample and another payload is refused.
OnePayload == \A q, r \in prepared : q = r

\* The plans that can still be applied have that payload, those abandoned as well.
PlansPrepared ==
    \A p \in plan \cup dropped :
        p.prior.anchor.id = st.anchor.id => PayloadOf(p) \in prepared

RecordsPrepared ==
    \A i \in RecordsOf(st.anchor.id) :
        \E q \in prepared : log[i].new.age = q.age /\ log[i].new.evidence = q.evidence

OutcomeInv ==
    AnchorsPast /\ OnePayload /\ PlansPrepared /\ RecordsPrepared /\ OneOutcomePerAnchor

LEMMA AnchorIds == \A t \in State : t.anchor.id \in Nat
  BY DEF State, Anchor

LEMMA InitOutcome == Init => OutcomeInv
<1> SUFFICES ASSUME Init PROVE OutcomeInv
  OBVIOUS
<1>1. /\ Len(log) = 0 /\ loaded.at = 0 /\ st.anchor.id = 0 /\ snap.st.anchor.id = 0
      /\ prepared = {} /\ plan = {} /\ dropped = {}
  BY DEF Init, Genesis
<1> QED
  BY <1>1 DEF OutcomeInv, AnchorsPast, OnePayload, PlansPrepared, RecordsPrepared,
             RecordsOf, OneOutcomePerAnchor

\* A record of a tick, or of a reconciliation with the prepared payload.
LEMMA OneMoreRecord ==
    ASSUME IInv, OutcomeInv, NEW r \in Record, log' = Append(log, r), loaded' = loaded,
           r.prior = st,
           r.kind = "downtime" =>
               \E q \in prepared : r.new.age = q.age /\ r.new.evidence = q.evidence
    PROVE  /\ OneOutcomePerAnchor'
           /\ \A i \in loaded.at + 1..Len(log') :
                  log'[i].kind = "downtime" /\ log'[i].prior.anchor.id = st.anchor.id =>
                      \E q \in prepared : /\ log'[i].new.age = q.age
                                          /\ log'[i].new.evidence = q.evidence
           /\ \A i \in 1..Len(log') : log'[i].prior.anchor.id <= Len(log)
           /\ Len(log') = Len(log) + 1 /\ log' \in Seq(Record)
<1>1. log \in Seq(Record) /\ loaded.at \in Nat /\ Len(log) \in Nat /\ loaded.at <= Len(log)
  BY DEF IInv, TypeOK, OutcomeInv, AnchorsPast
<1> DEFINE n == Len(log) + 1
<1>2. /\ log' \in Seq(Record) /\ Len(log') = n /\ log'[n] = r
      /\ \A i \in 1..Len(log) : log'[i] = log[i]
      /\ \A i \in 1..n : i = n \/ i \in 1..Len(log)
      /\ \A i \in loaded.at + 1..n : i = n \/ i \in loaded.at + 1..Len(log)
      /\ \A i \in loaded.at + 1..Len(log) : i \in 1..Len(log)
  BY <1>1
<1> HIDE DEF n
<1>3. \A i \in 1..Len(log') : log'[i].prior.anchor.id <= Len(log)
  BY <1>2 DEF OutcomeInv, AnchorsPast
<1>4. ASSUME NEW i \in loaded.at + 1..Len(log'), log'[i].kind = "downtime",
             log'[i].prior.anchor.id = st.anchor.id
      PROVE  \E q \in prepared : log'[i].new.age = q.age /\ log'[i].new.evidence = q.evidence
  <2>1. CASE i = n
    BY <1>2, <1>4, <2>1
  <2>2. CASE i # n
    <3>1. i \in RecordsOf(st.anchor.id) /\ log'[i] = log[i]
      BY <1>2, <1>4, <2>2 DEF RecordsOf
    <3> QED
      BY <3>1 DEF OutcomeInv, RecordsPrepared
  <2> QED
    BY <2>1, <2>2
<1>5. ASSUME NEW i \in loaded'.at + 1..Len(log'), NEW j \in loaded'.at + 1..Len(log'),
             log'[i].kind = "downtime", log'[j].kind = "downtime",
             log'[i].prior.anchor.id = log'[j].prior.anchor.id
      PROVE  log'[i].new.age = log'[j].new.age /\ log'[i].new.evidence = log'[j].new.evidence
  <2>1. CASE log'[i].prior.anchor.id = st.anchor.id
    <3>1. PICK q \in prepared : log'[i].new.age = q.age /\ log'[i].new.evidence = q.evidence
      BY <1>4, <1>5, <2>1
    <3>2. PICK s \in prepared : log'[j].new.age = s.age /\ log'[j].new.evidence = s.evidence
      BY <1>4, <1>5, <2>1
    <3>3. q = s
      BY DEF OutcomeInv, OnePayload
    <3> QED
      BY <3>1, <3>2, <3>3
  <2>2. CASE log'[i].prior.anchor.id # st.anchor.id
    <3>1. i # n /\ j # n
      BY <1>2, <1>5, <2>2
    <3>2. /\ i \in loaded.at + 1..Len(log) /\ j \in loaded.at + 1..Len(log)
          /\ log'[i] = log[i] /\ log'[j] = log[j]
      BY <1>2, <3>1
    <3> QED
      BY <1>5, <3>2 DEF OutcomeInv, OneOutcomePerAnchor
  <2> QED
    BY <2>1, <2>2
<1>6. OneOutcomePerAnchor'
  BY ONLY <1>5, Zenon DEF OneOutcomePerAnchor
<1> QED
  BY <1>2, <1>3, <1>4, <1>6 DEF n

\* What is recorded of a plan that applies is what its payload says.
LEMMA PlanRecord ==
    ASSUME IInv, OutcomeInv, NEW p \in plan \cup dropped, p.prior = st, NEW s
    PROVE  \E q \in prepared : /\ Reconciled(p, s).age = q.age
                               /\ Reconciled(p, s).evidence = q.evidence
<1>1. PayloadOf(p) \in prepared
  BY DEF OutcomeInv, PlansPrepared
<1>2. /\ Reconciled(p, s).age = NextAge(p)
      /\ Reconciled(p, s).evidence = Recovered(st.evidence, NextAge(p))
  BY Zenon DEF Reconciled
<1>3. /\ PayloadOf(p).age = NextAge(p)
      /\ PayloadOf(p).evidence = Recovered(st.evidence, NextAge(p))
  BY Zenon DEF PayloadOf
<1> QED
  BY <1>1, <1>2, <1>3

\* A record moves the anchor to a position no plan and no record names.
LEMMA NewAnchor ==
    ASSUME IInv, OutcomeInv, OneOutcomePerAnchor', Len(log') = Len(log) + 1,
           \A i \in 1..Len(log') : log'[i].prior.anchor.id <= Len(log),
           loaded' = loaded, snap' = snap, dropped' = dropped, plan' \subseteq plan,
           prepared' = {}, st'.anchor.id = Len(log) + 1, log' \in Seq(Record)
    PROVE  OutcomeInv'
<1>1. /\ loaded.at \in Nat /\ Len(log) \in Nat /\ snap.st.anchor.id \in Nat
      /\ \A p \in plan \cup dropped : p.prior.anchor.id \in Nat
  BY AnchorIds DEF IInv, TypeOK, Plan
<1>a. \A k \in Nat : k <= Len(log) => k <= Len(log')
  BY <1>1
<1>2. AnchorsPast'
  <2>1. /\ loaded.at <= Len(log) /\ snap.st.anchor.id <= Len(log)
        /\ \A p \in plan \cup dropped : p.prior.anchor.id <= Len(log)
    BY DEF OutcomeInv, AnchorsPast
  <2>2. \A p \in plan' \cup dropped' : p \in plan \cup dropped
    OBVIOUS
  <2>3. \A p \in plan' \cup dropped' : p.prior.anchor.id <= Len(log')
    BY <1>1, <1>a, <2>1, <2>2
  <2>4. loaded'.at <= Len(log') /\ snap'.st.anchor.id <= Len(log')
    BY <1>1, <1>a, <2>1
  <2>5. ASSUME NEW i \in 1..Len(log') PROVE log'[i].prior.anchor.id <= Len(log')
    <3>1. log'[i] \in Record
      OBVIOUS
    <3>2. log'[i].prior.anchor.id \in Nat
      BY <3>1, AnchorIds DEF Record
    <3>3. log'[i].prior.anchor.id <= Len(log)
      OBVIOUS
    <3> QED
      BY <1>a, <3>2, <3>3
  <2>6. st'.anchor.id <= Len(log')
    BY <1>1
  <2> QED
    BY <2>3, <2>4, <2>5, <2>6 DEF AnchorsPast
<1>3. OnePayload'
  BY DEF OnePayload
<1>4. PlansPrepared'
  BY <1>1 DEF OutcomeInv, AnchorsPast, PlansPrepared
<1>5. RecordsPrepared'
  <2> SUFFICES ASSUME NEW i \in RecordsOf(st.anchor.id)' PROVE FALSE
    BY DEF RecordsPrepared
  <2>1. i \in 1..Len(log') /\ log'[i].prior.anchor.id = Len(log) + 1
    BY <1>1 DEF RecordsOf
  <2>2. log'[i].prior.anchor.id <= Len(log)
    BY <2>1
  <2> QED
    BY <1>1, <2>1, <2>2
<1> QED
  BY <1>2, <1>3, <1>4, <1>5 DEF OutcomeInv

LEMMA CommitTickOutcome == ASSUME IInv, OutcomeInv, CommitTick PROVE OutcomeInv'
<1>1. PICK f \in flight :
        /\ f.prior = st
        /\ log' = Append(log, [kind |-> "tick", prior |-> st, new |-> Advanced(f)])
        /\ st' = Advanced(f)
  BY DEF CommitTick
<1> DEFINE r == [kind |-> "tick", prior |-> st, new |-> Advanced(f)]
<1>2. r \in Record /\ r.prior = st /\ r.kind # "downtime" /\ log' = Append(log, r)
  BY <1>1, AdvancedType DEF IInv, TypeOK, Record
<1> HIDE DEF r
<1>3. /\ loaded' = loaded /\ snap' = snap /\ plan' = plan /\ dropped' = dropped
      /\ prepared' = {} /\ st'.anchor.id = Len(log) + 1
  BY <1>1 DEF CommitTick, Advanced, NextRecord
<1> QED
  BY <1>2, <1>3, OneMoreRecord, NewAnchor

LEMMA ApplyReconciliationOutcome ==
    ASSUME IInv, OutcomeInv, ApplyReconciliation PROVE OutcomeInv'
<1>1. PICK p \in plan :
        /\ p.prior = st /\ st' = Reconciled(p, p.sample)
        /\ \E s \in CallerSamples(p) :
              log' = Append(log, [kind |-> "downtime", prior |-> st, new |-> Reconciled(p, s)])
  BY DEF ApplyReconciliation, Applies
<1>2. PICK s \in CallerSamples(p) :
        log' = Append(log, [kind |-> "downtime", prior |-> st, new |-> Reconciled(p, s)])
  BY <1>1
<1> DEFINE r == [kind |-> "downtime", prior |-> st, new |-> Reconciled(p, s)]
<1>3. r \in Record /\ r.prior = st /\ r.new = Reconciled(p, s) /\ log' = Append(log, r)
  <2>1. p \in Plan /\ p.sample \in Sample
    BY DEF IInv, TypeOK, Plan
  <2>2. s \in Sample
    BY <2>1, NowType DEF IInv, CallerSamples, Qualities
  <2>3. Reconciled(p, s) \in State
    BY <2>1, <2>2, ReconciledType DEF IInv
  <2> QED
    BY <1>2, <2>3 DEF IInv, TypeOK, Record
<1> HIDE DEF r
<1>4. \E q \in prepared : r.new.age = q.age /\ r.new.evidence = q.evidence
  BY <1>1, <1>3, PlanRecord
<1>5. /\ loaded' = loaded /\ snap' = snap /\ plan' = {} /\ dropped' = dropped
      /\ prepared' = {} /\ st'.anchor.id = Len(log) + 1
  BY <1>1 DEF ApplyReconciliation, Reconciled, NextRecord
<1> QED
  BY <1>3, <1>4, <1>5, OneMoreRecord, NewAnchor

\* The engine refuses an abandoned plan behind the commit of its record: the anchor
\* stays, and so does what is prepared for it.
LEMMA ApplyDroppedOutcome ==
    ASSUME IInv, OutcomeInv, ApplyDropped PROVE OutcomeInv'
<1>1. PICK p \in dropped :
        /\ p.prior = st
        /\ log' = Append(log, [kind |-> "downtime", prior |-> st,
                               new |-> Reconciled(p, p.sample)])
  BY DEF ApplyDropped, Applies
<1> DEFINE r == [kind |-> "downtime", prior |-> st, new |-> Reconciled(p, p.sample)]
<1>2. /\ r \in Record /\ r.prior = st /\ r.new = Reconciled(p, p.sample)
      /\ log' = Append(log, r)
  <2>1. p \in Plan /\ p.sample \in Sample
    BY DEF IInv, TypeOK, Plan
  <2>2. Reconciled(p, p.sample) \in State
    BY <2>1, ReconciledType DEF IInv
  <2> QED
    BY <1>1, <2>2 DEF IInv, TypeOK, Record
<1> HIDE DEF r
<1>3. \E q \in prepared : r.new.age = q.age /\ r.new.evidence = q.evidence
  BY <1>1, <1>2, PlanRecord
<1>4. /\ loaded' = loaded /\ snap' = snap /\ st' = st /\ plan' = plan
      /\ dropped' = dropped /\ prepared' = prepared
  BY DEF ApplyDropped, downtime
<1>5. /\ OneOutcomePerAnchor' /\ Len(log') = Len(log) + 1
      /\ \A i \in 1..Len(log') : log'[i].prior.anchor.id <= Len(log)
      /\ \A i \in loaded.at + 1..Len(log') :
             log'[i].kind = "downtime" /\ log'[i].prior.anchor.id = st.anchor.id =>
                 \E q \in prepared : /\ log'[i].new.age = q.age
                                     /\ log'[i].new.evidence = q.evidence
  BY <1>2, <1>3, <1>4, OneMoreRecord
<1>6. AnchorsPast'
  <2>1. Len(log) \in Nat /\ loaded.at \in Nat
    BY DEF IInv, TypeOK
  <2>2. /\ st.anchor.id \in Nat /\ snap.st.anchor.id \in Nat
        /\ \A i \in 1..Len(log') : log'[i].prior.anchor.id \in Nat
        /\ \A o \in plan \cup dropped : o.prior.anchor.id \in Nat
    <3>1. st \in State /\ snap.st \in State
      BY DEF IInv, TypeOK
    <3>2. ASSUME NEW i \in 1..Len(log') PROVE log'[i].prior.anchor.id \in Nat
      <4>1. log'[i] \in Record
        BY <1>2 DEF IInv, TypeOK
      <4> QED
        BY <4>1, AnchorIds DEF Record
    <3>3. ASSUME NEW o \in plan \cup dropped PROVE o.prior.anchor.id \in Nat
      BY AnchorIds DEF IInv, TypeOK, Plan
    <3> QED
      BY <3>1, <3>2, <3>3, AnchorIds
  <2>3. PICK n \in Nat : n = Len(log) /\ Len(log') = n + 1
    BY <1>5, <2>1
  <2>4. \A x \in Nat : x <= n => x <= n + 1
    OBVIOUS
  <2>5. /\ loaded.at <= n /\ st.anchor.id <= n /\ snap.st.anchor.id <= n
        /\ \A o \in plan \cup dropped : o.prior.anchor.id <= n
        /\ \A i \in 1..Len(log') : log'[i].prior.anchor.id <= n
    BY <1>5, <2>3, Zenon DEF OutcomeInv, AnchorsPast
  <2>6. /\ loaded.at <= n + 1 /\ st.anchor.id <= n + 1 /\ snap.st.anchor.id <= n + 1
        /\ \A o \in plan \cup dropped : o.prior.anchor.id <= n + 1
        /\ \A i \in 1..Len(log') : log'[i].prior.anchor.id <= n + 1
    BY <2>1, <2>2, <2>4, <2>5, Zenon
  <2> QED
    BY <1>4, <2>3, <2>6, Zenon DEF AnchorsPast
<1>7. OnePayload' /\ PlansPrepared'
  BY <1>4 DEF OutcomeInv, OnePayload, PlansPrepared
<1>8. RecordsPrepared'
  BY <1>4, <1>5 DEF RecordsPrepared, RecordsOf
<1> QED
  BY <1>5, <1>6, <1>7, <1>8 DEF OutcomeInv

\* The first sample is kept, and the second plan with it is the first or refused.
LEMMA ReconcileOutcome ==
    ASSUME IInv, OutcomeInv, NEW quality \in Offered, NEW contracts \in BOOLEAN,
           Reconcile(quality, contracts)
    PROVE  OutcomeInv'
<1> DEFINE p == PlanFor(quality, contracts)
<1>1. /\ plan' = {p} /\ prepared' = prepared \cup {PayloadOf(p)}
      /\ \A first \in prepared : first.sample = p.sample => first = PayloadOf(p)
      /\ UNCHANGED <<log, snap, st, dropped, loaded>>
  BY DEF Reconcile, durable
<1>2. p.prior = st /\ p.sample = StickySample(quality)
  BY DEF PlanFor
<1> HIDE DEF p
<1>3. \A q \in prepared : q = PayloadOf(p)
  <2> SUFFICES ASSUME NEW q \in prepared PROVE q = PayloadOf(p)
    OBVIOUS
  <2>1. (CHOOSE first \in prepared : TRUE) \in prepared
    OBVIOUS
  <2>2. StickySample(quality) = (CHOOSE first \in prepared : TRUE).sample
    BY DEF StickySample
  <2>3. q = (CHOOSE first \in prepared : TRUE)
    BY <2>1 DEF OutcomeInv, OnePayload
  <2> QED
    BY <1>1, <1>2, <2>2, <2>3
<1>4. OnePayload'
  BY <1>1, <1>3 DEF OnePayload
<1>5. AnchorsPast' /\ OneOutcomePerAnchor'
  BY <1>1, <1>2 DEF OutcomeInv, AnchorsPast, OneOutcomePerAnchor
<1>6. PlansPrepared' /\ RecordsPrepared'
  BY <1>1 DEF OutcomeInv, PlansPrepared, RecordsPrepared, RecordsOf
<1> QED
  BY <1>4, <1>5, <1>6 DEF OutcomeInv

\* The steps that leave the records, the anchor and what is prepared as they are.
LEMMA OtherOutcome ==
    ASSUME IInv, OutcomeInv, UNCHANGED <<log, loaded, prepared>>, st'.anchor = st.anchor,
           snap'.st \in {snap.st, st}, plan' \cup dropped' \subseteq plan \cup dropped
    PROVE  OutcomeInv'
<1>1. AnchorsPast'
  BY DEF OutcomeInv, AnchorsPast
<1>2. OnePayload' /\ PlansPrepared' /\ RecordsPrepared' /\ OneOutcomePerAnchor'
  BY DEF OutcomeInv, OnePayload, PlansPrepared, RecordsPrepared, RecordsOf,
         OneOutcomePerAnchor
<1> QED
  BY <1>1, <1>2 DEF OutcomeInv

\* A session starts behind every record: none of them is its own.
LEMMA RestartOutcome == ASSUME IInv, OutcomeInv, Restart PROVE OutcomeInv'
<1>1. /\ log' = log /\ snap' = snap /\ st' = snap.st /\ loaded'.at = Len(log)
      /\ plan' = {} /\ dropped' = {} /\ prepared' = {}
  BY DEF Restart, durable
<1>2. Len(log) \in Nat /\ Len(log) + 1..Len(log) = {}
  BY DEF IInv, TypeOK
<1>3. AnchorsPast'
  BY <1>1, <1>2 DEF OutcomeInv, AnchorsPast
<1>4. OnePayload' /\ PlansPrepared' /\ RecordsPrepared' /\ OneOutcomePerAnchor'
  BY <1>1, <1>2 DEF OnePayload, PlansPrepared, RecordsPrepared, RecordsOf,
                    OneOutcomePerAnchor
<1> QED
  BY <1>3, <1>4 DEF OutcomeInv

LEMMA OutcomeStep == ASSUME IInv, OutcomeInv, [Next]_vars PROVE OutcomeInv'
<1>1. CASE CommitTick
  BY <1>1, CommitTickOutcome
<1>2. CASE ApplyReconciliation
  BY <1>2, ApplyReconciliationOutcome
<1>3. CASE ApplyDropped
  BY <1>3, ApplyDroppedOutcome
<1>4. ASSUME NEW quality \in Offered, NEW contracts \in BOOLEAN,
             Reconcile(quality, contracts)
      PROVE  OutcomeInv'
  BY <1>4, ReconcileOutcome
<1>5. CASE Restart
  BY <1>5, RestartOutcome
<1>6. CASE Observe
  <2>1. PICK e : st' = [st EXCEPT !.evidence = e]
    BY <1>6 DEF Observe
  <2>2. st'.anchor = st.anchor
    BY <2>1 DEF IInv, TypeOK, State
  <2> QED
    BY <1>6, <2>2, OtherOutcome DEF Observe, durable, downtime
<1>7. CASE AbandonReconciliation
  <2>1. dropped' \subseteq plan /\ plan' = {}
    BY <1>7 DEF AbandonReconciliation
  <2> QED
    BY <1>7, <2>1, OtherOutcome DEF AbandonReconciliation, durable
<1>8. CASE Snapshot
  <2>1. snap'.st = st
    BY <1>8 DEF Snapshot
  <2> QED
    BY <1>8, <2>1, OtherOutcome DEF Snapshot, downtime
<1>9. CASE BeginTick \/ AbortTick \/ Elapse \/ ClockJump \/ UNCHANGED vars
  <2>1. UNCHANGED <<log, loaded, prepared, st, snap, plan, dropped>>
    BY <1>9 DEF BeginTick, AbortTick, Elapse, ClockJump, vars, durable, downtime
  <2> QED
    BY <2>1, OtherOutcome
<1> QED
  BY <1>1, <1>2, <1>3, <1>4, <1>5, <1>6, <1>7, <1>8, <1>9 DEF Next

-----------------------------------------------------------------------------
(* Replay of a session *)

\* The state before record n + 1 of a session that started with t.
Base(t, records, n) == IF n = 0 THEN t ELSE records[n].new

\* Every record was made for the state the one before it left behind.
Chained(t, records) ==
    \A n \in 1..Len(records) : records[n].prior = Base(t, records, n - 1)

\* The records of this session, and the engine's state at their end; no caller holds
\* a plan it could apply late.
ChainInv ==
    /\ dropped = {}
    /\ loaded.at <= Len(log)
    /\ \A n \in loaded.at + 1..Len(log) :
           log[n].prior = IF n = loaded.at + 1 THEN loaded.st ELSE log[n - 1].new
    /\ st = IF Len(log) = loaded.at THEN loaded.st ELSE log[Len(log)].new

\* Induction up to m over a set: what a property at n is, is in S.
LEMMA UpTo ==
    ASSUME NEW S, NEW m \in Nat, 0 \in S,
           \A n \in Nat : n < m /\ n \in S => n + 1 \in S
    PROVE  \A n \in 0..m : n \in S
  <1> SUFFICES ASSUME NEW n \in 0..m, n \notin S
               PROVE  FALSE
    OBVIOUS
  <1> DEFINE R == {p \in Nat \X Nat : p[1] < p[2]}
             Missing == {k \in 0..m : k \notin S}
  <1>1. IsWellFoundedOn(R, Nat)
    BY NatLessThanWellFounded DEF OpToRel
  <1>2. Missing \subseteq Nat /\ Missing # {}
    OBVIOUS
  <1> HIDE DEF Missing, R
  <1>3. PICK k \in Missing : \A j \in Missing : ~ (<<j, k>> \in R)
    BY <1>1, <1>2, WFMin
  <1> USE DEF Missing
  <1>4. k \in Nat /\ k # 0 /\ k - 1 \in Nat /\ k - 1 < m
    BY <1>3
  <1>5. <<k - 1, k>> \in R
    BY <1>4 DEF R
  <1>6. k - 1 \in S
    BY <1>3, <1>4, <1>5
  <1>7. k \in S
    BY <1>4, <1>6
  <1> QED BY <1>3, <1>7

\* The recursive definition of replay has a solution, extended record by record.
LEMMA ReplayedByRecord ==
    ASSUME NEW t, NEW records, Len(records) \in Nat
    PROVE  \E upto :
              /\ upto[0] = Replayed(t)
              /\ \A n \in 1..Len(records) : upto[n] = After(upto[n - 1], records[n])
              /\ ReplayFrom(t, records) = upto[Len(records)]
  <1> DEFINE Step(g, n) == IF n = 0 THEN Replayed(t) ELSE After(g[n - 1], records[n])
             Solved == {m \in Nat : \E g : g = [n \in 0..m |-> Step(g, n)]}
  <1>1. PICK last \in Nat : last = Len(records)
    OBVIOUS
  <1>2. 0 \in Solved
    <2>1. PICK g : g = [n \in 0..0 |-> Replayed(t)]
      OBVIOUS
    <2>2. g = [n \in 0..0 |-> Step(g, n)]
      BY <2>1
    <2> QED BY <2>2
  <1>3. \A m \in Nat : m < last /\ m \in Solved => m + 1 \in Solved
    <2> SUFFICES ASSUME NEW m \in Nat, m \in Solved
                 PROVE  m + 1 \in Solved
      OBVIOUS
    <2>1. PICK g : g = [n \in 0..m |-> Step(g, n)]
      OBVIOUS
    <2>2. PICK h : h = [n \in 0..(m + 1) |-> IF n \in 0..m THEN g[n] ELSE Step(g, n)]
      OBVIOUS
    <2>3. \A n \in 0..(m + 1) : n # 0 => n - 1 \in 0..m
      OBVIOUS
    <2>4. \A n \in 0..m : h[n] = g[n] /\ g[n] = Step(g, n)
      BY <2>1, <2>2
    <2>5. \A n \in 0..(m + 1) : Step(h, n) = Step(g, n)
      BY <2>3, <2>4
    <2>6. \A n \in 0..(m + 1) : h[n] = Step(g, n)
      BY <2>2, <2>4
    <2> HIDE DEF Step
    <2>7. h = [n \in 0..(m + 1) |-> Step(h, n)]
      BY <2>2, <2>5, <2>6
    <2> QED BY <2>7
  <1> HIDE DEF Solved
  <1>4. last \in Solved
    <2>1. last \in 0..last
      OBVIOUS
    <2> QED BY <1>2, <1>3, <2>1, UpTo
  <1> USE DEF Solved
  <1>5. PICK g : g = [n \in 0..last |-> Step(g, n)]
    BY <1>4
  <1> DEFINE upto == CHOOSE f : f = [n \in 0..Len(records) |->
                          IF n = 0 THEN Replayed(t) ELSE After(f[n - 1], records[n])]
  <1>6. upto = [n \in 0..last |-> Step(upto, n)]
    BY <1>1, <1>5
  <1>7. ReplayFrom(t, records) = upto[Len(records)]
    BY DEF ReplayFrom
  <1> HIDE DEF upto, Step
  <1>8. \A n \in 0..last : upto[n] = Step(upto, n)
    BY <1>6
  <1> USE DEF Step
  <1>9. upto[0] = Replayed(t) /\ \A n \in 1..last : upto[n] = After(upto[n - 1], records[n])
    BY <1>8
  <1> QED BY <1>1, <1>7, <1>9

\* A replayed state at the place of state b in its chain: what Follows compares agrees.
At(r, b) ==
    /\ r.ok /\ r.hash = b
    /\ r.st \in State /\ r.st.version = b.version /\ r.st.age = b.age

LEMMA AfterAt ==
    ASSUME NEW r, NEW record \in Record, At(r, record.prior)
    PROVE  At(After(r, record), record.new)
  <1>1. record.new \in State /\ record.prior \in State
    BY DEF Record
  <1>2. r.ok /\ Follows(r, record)
    BY DEF At, Follows
  <1>3. PICK next : next = IF record.kind = "tick" THEN AfterTick(r.st, record.new)
                           ELSE AfterDowntime(r.st, record.prior, record.new)
    OBVIOUS
  <1>4. After(r, record) = [ok |-> TRUE, hash |-> record.new, st |-> next]
    BY <1>2, <1>3 DEF After
  <1>5. ASSUME NEW t \in State, NEW new \in State
        PROVE  /\ AfterTick(t, new) \in State
               /\ AfterTick(t, new).version = new.version
               /\ AfterTick(t, new).age = new.age
    BY <1>5 DEF AfterTick, State
  <1>6. ASSUME NEW t \in State, NEW prior \in State, NEW new \in State
        PROVE  /\ AfterDowntime(t, prior, new) \in State
               /\ AfterDowntime(t, prior, new).version = new.version
               /\ AfterDowntime(t, prior, new).age = new.age
    BY <1>6 DEF AfterDowntime, State
  <1>7. next \in State /\ next.version = record.new.version /\ next.age = record.new.age
    BY <1>1, <1>3, <1>5, <1>6 DEF At
  <1> QED BY <1>4, <1>7 DEF At

\* Records that follow one another replay to the state behind the last of them.
LEMMA ChainReplays ==
    ASSUME NEW t \in State, NEW records \in Seq(Record), Chained(t, records)
    PROVE  At(ReplayFrom(t, records), Base(t, records, Len(records)))
  <1>1. PICK last \in Nat : last = Len(records)
    OBVIOUS
  <1>2. PICK upto : /\ upto[0] = Replayed(t)
                    /\ \A n \in 1..last : upto[n] = After(upto[n - 1], records[n])
                    /\ ReplayFrom(t, records) = upto[last]
    BY <1>1, ReplayedByRecord
  <1>3. \A n \in 1..last : records[n] \in Record /\ records[n].prior = Base(t, records, n - 1)
    BY <1>1 DEF Chained
  <1> DEFINE Passed == {n \in Nat : n <= last => At(upto[n], Base(t, records, n))}
  <1>4. 0 \in Passed
    BY <1>2 DEF At, Base, Replayed
  <1>5. \A n \in Nat : n < last /\ n \in Passed => n + 1 \in Passed
    <2> SUFFICES ASSUME NEW n \in Nat, n < last, At(upto[n], Base(t, records, n))
                 PROVE  At(upto[n + 1], Base(t, records, n + 1))
      OBVIOUS
    <2>1. PICK m \in 1..last : m = n + 1 /\ m - 1 = n
      OBVIOUS
    <2>2. upto[m] = After(upto[n], records[m]) /\ records[m].prior = Base(t, records, n)
      BY <1>2, <1>3, <2>1
    <2>3. At(upto[m], records[m].new)
      BY <1>3, <2>2, AfterAt
    <2>4. Base(t, records, m) = records[m].new
      BY DEF Base
    <2> QED BY <2>1, <2>3, <2>4
  <1> HIDE DEF Passed
  <1>6. last \in Passed
    <2>1. last \in 0..last
      OBVIOUS
    <2> QED BY <1>4, <1>5, <2>1, UpTo
  <1> USE DEF Passed
  <1> QED BY <1>1, <1>2, <1>6

LEMMA InitChain == Init => ChainInv
  BY DEF Init, ChainInv

\* A record made for the engine's state, which it leaves as the record says.
LEMMA ChainGrows ==
    ASSUME TypeOK, ChainInv, NEW kind, NEW new,
           log' = Append(log, [kind |-> kind, prior |-> st, new |-> new]),
           st' = new, UNCHANGED <<loaded, dropped>>
    PROVE  ChainInv'
  <1>1. PICK n \in Nat, at \in Nat, record \in {[kind |-> kind, prior |-> st, new |-> new]} :
            n = Len(log) /\ at = loaded.at
    BY DEF TypeOK
  <1>2. /\ Len(log') = n + 1 /\ log'[n + 1] = record
        /\ \A i \in 1..n : log'[i] = log[i]
    BY <1>1 DEF TypeOK
  <1>3. loaded' = loaded /\ dropped' = {} /\ at <= n + 1
    BY <1>1 DEF ChainInv
  <1>4. ASSUME NEW i \in at + 1..n + 1
        PROVE  log'[i].prior = IF i = at + 1 THEN loaded.st ELSE log'[i - 1].new
    <2>1. CASE i = n + 1
      <3>1. log'[i].prior = st
        BY <1>1, <1>2, <2>1
      <3>2. st = IF n = at THEN loaded.st ELSE log[n].new
        BY <1>1 DEF ChainInv
      <3>3. n # at => log'[i - 1] = log[n]
        BY <1>1, <1>2, <2>1
      <3>4. n = at <=> i = at + 1
        BY <2>1
      <3> QED BY <3>1, <3>2, <3>3, <3>4
    <2>2. CASE i # n + 1
      <3>1. i \in at + 1..n /\ i \in 1..n
        BY <2>2
      <3>2. log'[i] = log[i] /\ (i # at + 1 => log'[i - 1] = log[i - 1])
        BY <1>2, <3>1
      <3> QED BY <1>1, <3>1, <3>2 DEF ChainInv
    <2> QED BY <2>1, <2>2
  <1>5. st' = log'[Len(log')].new /\ Len(log') # at
    BY <1>1, <1>2, <1>3 DEF ChainInv
  <1> QED BY <1>1, <1>2, <1>3, <1>4, <1>5 DEF ChainInv

LEMMA ChainStep ==
    ASSUME MaxEvidence = 0, Liberties = {}, IInv, ChainInv, [Next]_vars
    PROVE  ChainInv'
  <1> TypeOK
    BY DEF IInv
  <1>1. ASSUME UNCHANGED <<log, st, loaded, dropped>> PROVE ChainInv'
    BY <1>1 DEF ChainInv
  <1>2. ASSUME Observe PROVE FALSE
    <2>1. st.evidence.changes \in Nat
      BY DEF TypeOK, State, Evidence
    <2> QED BY <1>2, <2>1 DEF Observe
  <1>3. CASE CommitTick
    <2>1. PICK f \in flight :
              /\ log' = Append(log, [kind |-> "tick", prior |-> st, new |-> Advanced(f)])
              /\ st' = Advanced(f)
      BY <1>3 DEF CommitTick
    <2> QED BY <1>3, <2>1, ChainGrows DEF CommitTick
  <1>4. CASE AbandonReconciliation
    <2>1. dropped' = {} /\ UNCHANGED <<log, st, loaded>>
      BY <1>4 DEF AbandonReconciliation, durable
    <2> QED BY <1>1, <2>1 DEF ChainInv
  <1>5. CASE ApplyReconciliation
    <2>1. PICK p \in plan :
              /\ \E s \in CallerSamples(p) :
                    log' = Append(log, [kind |-> "downtime", prior |-> st,
                                        new |-> Reconciled(p, s)])
              /\ st' = Reconciled(p, p.sample)
      BY <1>5 DEF ApplyReconciliation
    <2>2. CallerSamples(p) = {p.sample}
      BY DEF CallerSamples
    <2>3. log' = Append(log, [kind |-> "downtime", prior |-> st,
                              new |-> Reconciled(p, p.sample)])
      BY <2>1, <2>2
    <2> QED BY <1>5, <2>1, <2>3, ChainGrows DEF ApplyReconciliation
  <1>6. ASSUME ApplyDropped PROVE FALSE
    BY <1>6 DEF ApplyDropped, ChainInv
  <1>7. CASE Restart
    <2>1. /\ st' = snap.st /\ dropped' = {} /\ log' = log
          /\ loaded' = [st |-> snap.st, at |-> Len(log)]
      BY <1>7 DEF Restart, durable
    <2>2. Len(log) \in Nat
      BY DEF TypeOK
    <2> QED BY <2>1, <2>2 DEF ChainInv
  <1>8. CASE UNCHANGED vars
    BY <1>1, <1>8 DEF vars, durable, downtime
  <1>9. CASE BeginTick \/ AbortTick \/ Snapshot \/ Elapse \/ ClockJump
    BY <1>1, <1>9 DEF BeginTick, AbortTick, Snapshot, Elapse, ClockJump, durable, downtime
  <1>10. ASSUME NEW quality \in Offered, NEW contracts \in BOOLEAN,
                Reconcile(quality, contracts)
         PROVE  ChainInv'
    BY <1>1, <1>10 DEF Reconcile, durable
  <1> QED BY <1>2, <1>3, <1>4, <1>5, <1>6, <1>7, <1>8, <1>9, <1>10 DEF Next

LEMMA ChainTail ==
    ASSUME TypeOK, ChainInv
    PROVE  TailReplays
  <1>1. PICK t \in State, at \in Nat, n \in Nat :
            t = loaded.st /\ at = loaded.at /\ n = Len(log) /\ at <= n
    BY DEF TypeOK, ChainInv
  <1>2. PICK records : records = SubSeq(log, at + 1, n)
    OBVIOUS
  <1>3. /\ records \in Seq(Record) /\ Len(records) = n - at
        /\ \A k \in 1..n - at : records[k] = log[at + k]
    <2>1. log \in Seq(Record) /\ n = Len(log)
      BY <1>1 DEF TypeOK
    <2>2. at \in Nat /\ n \in Nat /\ at <= n
      BY <1>1
    <2> QED BY ONLY <1>2, <2>1, <2>2
  <1>4. ASSUME NEW k \in 1..n - at
        PROVE  records[k].prior = Base(t, records, k - 1)
    <2>1. PICK i \in at + 1..n : i = at + k
      OBVIOUS
    <2>2. log[i].prior = IF i = at + 1 THEN t ELSE log[i - 1].new
      BY <1>1 DEF ChainInv
    <2>3. k # 1 => records[k - 1] = log[i - 1]
      BY <1>3, <2>1
    <2>4. records[k] = log[i] /\ (i = at + 1 <=> k = 1)
      BY <1>3, <2>1
    <2> QED BY <2>2, <2>3, <2>4 DEF Base
  <1>5. Chained(t, records)
    BY <1>3, <1>4 DEF Chained
  <1>6. Base(t, records, Len(records)) = st
    <2>1. st = IF n = at THEN t ELSE log[n].new
      BY <1>1 DEF ChainInv
    <2>2. n # at => records[n - at] = log[n]
      BY <1>1, <1>3
    <2> QED BY <1>1, <1>3, <2>1, <2>2 DEF Base
  <1>7. At(ReplayFrom(t, records), st)
    BY <1>3, <1>5, <1>6, ChainReplays
  <1>8. Since = records
    BY <1>1, <1>2 DEF Since
  <1> QED BY <1>1, <1>7, <1>8 DEF TailReplays, Reproduces, At

-----------------------------------------------------------------------------
(* Theorems *)

\* Every variable of the engine and of the runtime around it keeps its type:
\* in particular no gap the wall clock shows makes an age negative.
THEOREM TypeCorrect == Spec => []TypeOK
<1>1. IInv => TypeOK
  BY DEF IInv
<1> QED
  BY <1>1, Inductive, PTL

\* classify_downtime_trust and the sticky sample together: whatever is done to
\* the wall clock, and however ticks, reconciliations, crashes and restarts
\* interleave, downtime ages an organism by no more than its monotonic time and
\* one tolerance for each trusted reconciliation.
THEOREM DowntimePaid == Spec => []DowntimeWithinMonotonic
<1>1. IInv => DowntimeWithinMonotonic
  BY DEF IInv, StatesPaid, Paid, DowntimeWithinMonotonic
<1> QED
  BY <1>1, Inductive, PTL

\* The clock in a restart snapshot is the one some record committed: a tick that
\* rolled back leaves no trace in it.
THEOREM SnapshotAlwaysRecorded == Spec => []SnapshotRecorded
<1>1. IInv => SnapshotRecorded
  BY DEF IInv, StatesRecorded, Recorded, SnapshotRecorded
<1> QED
  BY <1>1, Inductive, PTL

\* Every way out of a tick, commit, error or crash, clears the prepared advance.
THEOREM AdvanceEndsWithTick == Spec => []NoStaleAdvance
<1>1. IInv => NoStaleAdvance
  BY DEF IInv
<1> QED
  BY <1>1, Inductive, PTL

\* A step that is not a restart makes no organism younger, and active age comes
\* from the commit of a tick alone.
LEMMA AgeStep ==
    ASSUME IInv, [Next]_vars, restarts' = restarts
    PROVE  /\ st'.age >= st.age
           /\ st'.active = st.active \/ (phase = "tick" /\ flight # {})
<1>1. st \in State /\ st.age \in Nat /\ restarts \in Nat
  BY DEF IInv, TypeOK, State
<1>2. CASE st' = st
  BY <1>1, <1>2
<1>3. CASE Observe
  <2>1. PICK e : st' = [st EXCEPT !.evidence = e]
    BY <1>3 DEF Observe
  <2>2. st'.age = st.age /\ st'.active = st.active
    BY <1>1, <2>1 DEF State
  <2> QED
    BY <1>1, <2>2
<1>4. CASE CommitTick
  <2>1. PICK f \in flight : f.prior = st /\ st' = Advanced(f)
    BY <1>4 DEF CommitTick
  <2>2. st'.age = st.age + 1
    BY <2>1 DEF Advanced
  <2> QED
    BY <1>1, <1>4, <2>1, <2>2 DEF CommitTick
<1>5. CASE ApplyReconciliation
  <2>1. PICK p \in plan : p.prior = st /\ st' = Reconciled(p, p.sample)
    BY <1>5 DEF ApplyReconciliation, Applies
  <2>2. p \in Plan
    BY DEF IInv, TypeOK
  <2>3. st'.age = NextAge(p) /\ st'.active = st.active
    BY <2>1 DEF Reconciled
  <2>4. NextAge(p) \in Nat /\ st.age <= NextAge(p)
    BY <2>1, <2>2, NextAgeBounds
  <2> QED
    BY <1>1, <2>3, <2>4
<1>6. CASE Restart
  BY <1>1, <1>6 DEF Restart
<1>7. CASE ~(CommitTick \/ Observe \/ ApplyReconciliation \/ Restart)
  <2>1. st' = st
    BY <1>7 DEF Next, vars, BeginTick, AbortTick, Snapshot, Reconcile, AbandonReconciliation,
                ApplyDropped, Elapse, ClockJump
  <2> QED
    BY <1>1, <2>1
<1> QED
  BY <1>3, <1>4, <1>5, <1>6, <1>7

\* "Wall never rewinds age", for every schedule: apply_downtime_plan_to_state
\* refuses a plan made for another state, and a plan never names a lower age.
THEOREM AgeKept == Spec => AgeNeverRewinds
<1>1. IInv /\ [Next]_vars
        => [restarts' = restarts => /\ st'.age >= st.age
                                    /\ st'.active = st.active
                                         \/ (phase = "tick" /\ flight # {})]_vars
  BY AgeStep
<1> QED
  BY <1>1, Inductive, PTL DEF Spec, AgeNeverRewinds

-----------------------------------------------------------------------------
(* The age of an organism, as promised *)

\* A gap that counts is worth no more ticks than the longest one that is trusted.
LEMMA LongestGap ==
    ASSUME NEW p \in Plan, CatchesUp(p)
    PROVE  NextAge(p) \in p.prior.age..p.prior.age + (MaxGap \div TickLength)
<1> DEFINE g == Gap(p.prior, p.sample)
<1>1. g \in Nat /\ g <= MaxGap /\ MaxGap \in Nat /\ TickLength \in Nat \ {0}
  BY CatchUpGap, TemporalAssumption DEF CatchesUp, Trusted
<1>2. NextAge(p) = p.prior.age + (g \div TickLength) /\ p.prior.age \in Nat
  BY DEF NextAge, Plan, State
<1> HIDE DEF g
<1>3. /\ g \div TickLength \in Nat /\ MaxGap \div TickLength \in Nat
      /\ g \div TickLength <= MaxGap \div TickLength
  BY <1>1, MoreTicks
<1> QED
  BY <1>2, <1>3

\* A record more is one more in number.
LEMMA OneLonger ==
    ASSUME TypeOK, NEW r, log' = Append(log, r)
    PROVE  Len(log)' = Len(log) + 1 /\ Len(log)' = NextRecord
  BY DEF TypeOK, NextRecord

LEMMA CommitLives ==
    ASSUME IInv, CommitTick
    PROVE  Lived!Live
<1>1. PICK f \in flight :
        /\ f.prior = st /\ st' = Advanced(f)
        /\ log' = Append(log, [kind |-> "tick", prior |-> st, new |-> Advanced(f)])
  BY DEF CommitTick
<1>2. Len(log)' = Len(log) + 1 /\ Len(log)' = NextRecord
  BY <1>1, OneLonger DEF IInv
<1>3. /\ st'.age = st.age + 1 /\ st'.active = st.active + 1
      /\ st'.anchor.id = NextRecord /\ st'.anchor.eligible = TRUE
  BY <1>1 DEF Advanced
<1>4. Life(snap.st)' = Life(snap.st) /\ restarts' = restarts
  BY DEF CommitTick, environment
<1> QED
  BY <1>2, <1>3, <1>4, Zenon DEF Lived!Live, Lived!Record

\* A plan that catches up was made from an anchor that may be a baseline, and leaves
\* one; any other leaves an anchor no downtime can be measured from.
LEMMA ReconciliationRests ==
    ASSUME IInv, ApplyReconciliation
    PROVE  Lived!CatchUp \/ Lived!LoseTrack
<1>1. PICK p \in plan :
        /\ p.prior = st /\ st' = Reconciled(p, p.sample)
        /\ \E s \in CallerSamples(p) :
              log' = Append(log, [kind |-> "downtime", prior |-> st, new |-> Reconciled(p, s)])
  BY DEF ApplyReconciliation, Applies
<1>2. p \in Plan
  BY DEF IInv, TypeOK
<1>3. Len(log)' = Len(log) + 1 /\ Len(log)' = NextRecord
  BY <1>1, OneLonger DEF IInv
<1>4. /\ st'.age = NextAge(p) /\ st'.active = st.active
      /\ st'.anchor.id = NextRecord /\ st'.anchor.eligible = CatchesUp(p)
  BY <1>1 DEF Reconciled
<1>5. Life(snap.st)' = Life(snap.st) /\ restarts' = restarts
  BY DEF ApplyReconciliation, environment
<1>6. Lived!Record
  BY <1>3, <1>4, Zenon DEF Lived!Record
<1>7. CASE CatchesUp(p)
  <2>1. st.anchor.eligible = TRUE
    <3>1. st.anchor.eligible \in BOOLEAN
      BY DEF IInv, TypeOK, State, Anchor
    <3> QED
      BY <1>1, <1>2, <1>7, <3>1, CatchUpGap
  <2>2. st'.age \in st.age..st.age + (MaxGap \div TickLength)
    BY <1>1, <1>2, <1>4, <1>7, LongestGap
  <2>3. st'.anchor.eligible = st.anchor.eligible
    <3>1. CatchesUp(p) \in BOOLEAN
      BY <1>2 DEF CatchesUp, Plan, Trusted, Comparable
    <3> QED
      BY <1>4, <1>7, <2>1, <3>1
  <2> QED
    BY <1>4, <1>5, <1>6, <2>1, <2>2, <2>3, Zenon DEF Lived!CatchUp
<1>8. CASE ~CatchesUp(p)
  <2>1. st'.age = st.age
    BY <1>1, <1>2, <1>4, <1>8, NextAgeBounds
  <2>2. st'.anchor.eligible = FALSE
    <3>1. CatchesUp(p) \in BOOLEAN
      BY <1>2 DEF CatchesUp, Plan, Trusted, Comparable
    <3> QED
      BY <1>4, <1>8, <3>1
  <2> QED
    BY <1>4, <1>5, <1>6, <2>1, <2>2, Zenon DEF Lived!LoseTrack
<1> QED
  BY <1>7, <1>8

LEMMA StepLives ==
    ASSUME IInv, [Next]_vars
    PROVE  [Lived!LifeNext]_Lived!lifetime
<1> USE DEF Lived!LifeNext
<1>1. CASE CommitTick
  BY <1>1, CommitLives
<1>2. CASE ApplyReconciliation
  BY <1>2, ReconciliationRests
<1>3. CASE ApplyDropped
  <2>1. PICK p \in dropped :
          log' = Append(log, [kind |-> "downtime", prior |-> st, new |-> Reconciled(p, p.sample)])
    BY <1>3 DEF ApplyDropped
  <2>2. Len(log)' = Len(log) + 1
    BY <2>1, OneLonger DEF IInv
  <2>3. st' = st /\ snap' = snap /\ restarts' = restarts
    BY <1>3 DEF ApplyDropped, environment
  <2> QED
    BY <2>2, <2>3, Zenon DEF Lived!RecordInVain, Lived!life, Life
<1>4. CASE Observe
  <2>1. PICK e : st' = [st EXCEPT !.evidence = e]
    BY <1>4 DEF Observe
  <2>2. /\ st'.age = st.age /\ st'.active = st.active /\ st'.anchor = st.anchor
    <3>1. st \in State
      BY DEF IInv, TypeOK
    <3> QED
      BY <2>1, <3>1 DEF State
  <2>3. log' = log /\ snap' = snap /\ restarts' = restarts
    BY <1>4 DEF Observe, durable, environment
  <2> QED
    BY <2>2, <2>3, Zenon DEF Lived!lifetime, Lived!life, Life
<1>5. CASE Snapshot
  <2>1. snap'.st = st /\ st' = st /\ log' = log /\ restarts' = restarts
    BY <1>5 DEF Snapshot, environment
  <2> QED
    BY <2>1, Zenon DEF Lived!Save, Lived!life, Life
<1>6. CASE Restart
  <2>1. st' = snap.st /\ snap' = snap /\ log' = log /\ restarts' = restarts + 1
    BY <1>6 DEF Restart, durable
  <2> QED
    BY <2>1, Zenon DEF Lived!Resume, Lived!life, Life
<1>7. CASE ~(CommitTick \/ ApplyReconciliation \/ ApplyDropped \/ Observe \/ Snapshot \/ Restart)
  <2>1. st' = st /\ log' = log /\ snap' = snap /\ restarts' = restarts
    BY <1>7 DEF Next, vars, durable, environment, BeginTick, AbortTick, Reconcile, AbandonReconciliation,
                Elapse, ClockJump
  <2> QED
    BY <2>1, Zenon DEF Lived!lifetime, Lived!life, Life
<1> QED
  BY <1>1, <1>2, <1>3, <1>4, <1>5, <1>6, <1>7

\* An organism grows older by the ticks it lives through and by downtimes it can measure,
\* each within the limit, and younger only when it resumes its last saved life: that is
\* all apply_advance_plan, apply_downtime_plan_to_state and load_organism do to its age.
THEOREM AgesAsPromised == Spec => ImplementsLifetime
<1>1. Init => Lived!LifeInit
  <2> SUFFICES ASSUME Init PROVE Lived!LifeInit
    OBVIOUS
  <2>1. st = Genesis /\ snap.st = Genesis /\ log = <<>> /\ restarts = 0
    BY DEF Init
  <2>2. Len(log) = 0
    BY <2>1
  <2>3. /\ Genesis.age = 0 /\ Genesis.active = 0
        /\ Genesis.anchor.id = 0 /\ Genesis.anchor.eligible = FALSE
    BY DEF Genesis
  <2> QED
    BY <2>1, <2>2, <2>3, Zenon DEF Life, Lived!LifeInit, Lived!life
<1>2. IInv /\ [Next]_vars => [Lived!LifeNext]_Lived!lifetime
  BY StepLives
<1> QED
  BY <1>1, <1>2, Inductive, PTL DEF Spec, ImplementsLifetime, Lived!LifeSpec

\* The sticky sample, the canonical hash and the check of the prior state together:
\* however often a session prepares an anchor's reconciliation, and whichever of the
\* plans are applied, even after they were abandoned, its records agree.
THEOREM OneOutcomeForAnAnchor == Spec => []OneOutcomePerAnchor
<1>1. OutcomeInv => OneOutcomePerAnchor
  BY DEF OutcomeInv
<1>2. IInv /\ OutcomeInv /\ [Next]_vars => OutcomeInv'
  BY OutcomeStep
<1> QED
  BY <1>1, <1>2, InitOutcome, Inductive, PTL DEF Spec

\* The records of a session replay to the engine's state, as long as no evidence is
\* committed between them and callers neither apply a plan late nor with a sample of
\* their own (events.py, replay_temporal_state_from_events).
THEOREM SessionReplays ==
    ASSUME MaxEvidence = 0, Liberties = {}
    PROVE  Spec => []TailReplays
<1>1. Init => ChainInv
  BY InitChain
<1>2. IInv /\ ChainInv /\ [Next]_vars => ChainInv'
  BY ChainStep
<1>3. IInv /\ ChainInv => TailReplays
  BY ChainTail DEF IInv
<1> QED
  BY <1>1, <1>2, <1>3, Inductive, PTL DEF Spec

=============================================================================
