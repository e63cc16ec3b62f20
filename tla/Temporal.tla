------------------------------ MODULE Temporal ------------------------------
(***************************************************************************)
(* The temporal engine of an organism and the code of the runtime that     *)
(* drives it: one advance of the organism's age per committed tick, the    *)
(* reconciliation of downtime, learned recurrence evidence, and the        *)
(* durable copies of the temporal state in the ledger and the snapshot.    *)
(*                                                                         *)
(* A state hash stands for a whole state: states are equal when their      *)
(* hashes are.  Identities of advances and reconciliations are the         *)
(* positions of their records in the ledger.  Wall clock and monotonic     *)
(* time are measured in a common unit; the monotonic time of an organism   *)
(* moves only with its ticks and is restored from the snapshot.            *)
(***************************************************************************)
EXTENDS Integers, Sequences

CONSTANTS
    TickLength,    \* SECONDS_PER_AGE_TICK
    MaxGap,        \* MAX_TRUSTED_DOWNTIME_SECONDS
    Tolerance,     \* SAMPLE_FRESHNESS_SECONDS
    Dt,            \* monotonic time of one tick
    Offered,       \* qualities of the samples callers offer
    Ends,          \* ages at which a learned window may end
    Liberties,     \* what callers do with a plan: "resample" applies it with a
                   \* sample of their own, "late" after it was abandoned
    MaxWall,       \* bound on the wall clock
    MaxMono,       \* bound on monotonic time
    MaxRecords,    \* bound on records in the ledger
    MaxEvidence,   \* bound on changes to recurrence evidence
    MaxRestarts,    \* bound on crashes and restarts
    MaxJumps       \* bound on adjustments of the wall clock

\* good: from an accepted source; foreign: from another; unsure: its uncertainty
\* is beyond the limit; missing: no wall time.
Qualities == {"good", "foreign", "unsure", "missing"}

ASSUME TemporalAssumption ==
    /\ TickLength \in Nat \ {0} /\ MaxGap \in Nat /\ Tolerance \in Nat /\ Dt \in Nat
    /\ Offered \subseteq Qualities /\ Ends \subseteq Nat
    /\ Liberties \subseteq {"resample", "late"}
    /\ MaxWall \in Nat /\ MaxMono \in Nat /\ MaxRecords \in Nat
    /\ MaxEvidence \in Nat /\ MaxRestarts \in Nat /\ MaxJumps \in Nat

VARIABLES
    \* durable
    log,        \* the temporal records of the ledger
    snap,       \* temporal state and monotonic time in the restart snapshot
    \* volatile
    st,         \* TemporalEngine._state
    phase,      \* where tick_once is
    seq,        \* Organism._orchestration_sequence
    mono,       \* Organism.monotonic_time
    flight,     \* the prepared advance, if any
    plan,       \* the prepared reconciliation, if any
    dropped,    \* an abandoned one a caller still holds
    prepared,   \* the payloads this session prepared for the current anchor
    \* environment and auxiliary
    wall,       \* the wall clock
    loaded,     \* what this session started from
    restarts,
    jumps

durable     == <<log, snap>>
downtime    == <<plan, dropped, prepared>>
environment == <<wall, restarts, jumps>>

vars == <<durable, st, phase, seq, mono, flight, downtime, loaded, environment>>

Sample   == [wall : Nat, mono : Nat, quality : Qualities]
Anchor   == [id : Nat, wall : Nat, eligible : BOOLEAN]
Mapping  == [known : BOOLEAN, wall : Nat, mono : Nat]
Evidence == [changes : Nat, status : {"hidden", "ACTIVE", "UNCERTAIN"}, end : Nat]

\* caught counts the trusted reconciliations in a state's past; the code has no
\* such field.
State == [age : Nat, active : Nat, seq : Nat, version : Nat, anchor : Anchor,
          mapping : Mapping, evidence : Evidence, caught : Nat]

Advance == [prior : State, sample : Sample, seq : Nat]
Plan    == [prior : State, sample : Sample, contracts : BOOLEAN]
Record  == [kind : {"tick", "downtime"}, prior : State, new : State]
Payload == [sample : Sample, contracts : BOOLEAN, age : Nat, evidence : Evidence,
            named : SUBSET State]

Genesis == [age |-> 0, active |-> 0, seq |-> 0, version |-> 0,
            anchor |-> [id |-> 0, wall |-> 0, eligible |-> FALSE],
            mapping |-> [known |-> FALSE, wall |-> 0, mono |-> 0],
            evidence |-> [changes |-> 0, status |-> "hidden", end |-> 0],
            caught |-> 0]

NextRecord == Len(log) + 1

-----------------------------------------------------------------------------
(* What a reconciliation does with a sample *)

Near(a, b) == a - b <= Tolerance /\ b - a <= Tolerance

Gap(t, s) == s.wall - t.anchor.wall
Ran(t, s) == s.mono - t.mapping.mono

\* The sample agrees with the wall time extrapolated along monotonic time.
Fresh(t, s) == t.mapping.known => Near(s.wall, t.mapping.wall + Ran(t, s))

Comparable(t, s) == s.quality = "good" /\ t.anchor.eligible /\ Fresh(t, s)

\* Mutant: the sample is not compared with monotonic time.
TrustedByWall(t, s) == s.quality = "good" /\ t.anchor.eligible /\ Gap(t, s) \in 0..MaxGap

\* classify_downtime_trust: TRUSTED_SHORT.
Trusted(t, s) ==
    /\ Comparable(t, s)
    /\ Gap(t, s) \in 0..MaxGap
    /\ t.mapping.known => Near(Gap(t, s), Ran(t, s))

Excessive(t, s) == Comparable(t, s) /\ Gap(t, s) > MaxGap

\* A required elapsed-time contract without a snapshot of its subsystem makes a
\* trusted plan conservative.
CatchesUp(p) == Trusted(p.prior, p.sample) /\ p.contracts

NextAge(p) ==
    p.prior.age + IF CatchesUp(p) THEN Gap(p.prior, p.sample) \div TickLength ELSE 0

\* Expectations whose window has ended: an ACTIVE one expires, an UNCERTAIN one
\* loses confidence.
Recovered(e, age) ==
    IF e.status = "hidden" \/ e.end >= age THEN e
    ELSE [changes |-> e.changes + 1, end |-> e.end,
          status  |-> IF e.status = "ACTIVE" THEN "hidden" ELSE e.status]

\* What the canonical hash of a plan covers.  The plan of the temporal contract,
\* made unless the gap or the uncertainty is beyond it, names the state it saw.
PayloadOf(p) ==
    [sample    |-> p.sample,
     contracts |-> p.contracts,
     age       |-> NextAge(p),
     evidence  |-> Recovered(p.prior.evidence, NextAge(p)),
     named     |-> IF p.sample.quality = "unsure" \/ Excessive(p.prior, p.sample)
                   THEN {} ELSE {p.prior}]

Mapped(mapping, s) ==
    IF s.quality = "missing" THEN mapping
    ELSE [known |-> TRUE, wall |-> s.wall, mono |-> s.mono]

\* apply_downtime_plan_to_state: the clock mapping is made with sample s.
Reconciled(p, s) ==
    [age      |-> NextAge(p),
     active   |-> st.active,
     seq      |-> st.seq,
     version  |-> st.version + 1,
     anchor   |-> [id       |-> NextRecord,
                   wall     |-> IF p.sample.quality = "missing" THEN 0 ELSE p.sample.wall,
                   eligible |-> CatchesUp(p)],
     mapping  |-> Mapped(st.mapping, s),
     evidence |-> Recovered(st.evidence, NextAge(p)),
     caught   |-> IF CatchesUp(p) THEN st.caught + 1 ELSE st.caught]

-----------------------------------------------------------------------------
(* What a tick does *)

\* apply_advance_plan: the counters are the plan's, the rest is the state's.
Advanced(f) ==
    [age      |-> f.prior.age + 1,
     active   |-> f.prior.active + 1,
     seq      |-> f.seq,
     version  |-> st.version + 1,
     anchor   |-> [id |-> NextRecord, wall |-> f.sample.wall, eligible |-> TRUE],
     mapping  |-> Mapped(st.mapping, f.sample),
     evidence |-> st.evidence,
     caught   |-> st.caught]

\* tick_once: prepare_advance, then the body moves monotonic time before
\* anything in it can fail.
BeginTick ==
    /\ phase = "idle" /\ flight = {}
    /\ mono + Dt <= MaxMono
    /\ seq' = seq + 1
    /\ flight' = {[prior  |-> st,
                   sample |-> [wall |-> wall, mono |-> mono, quality |-> "good"],
                   seq    |-> seq + 1]}
    /\ mono' = mono + Dt
    /\ phase' = "tick"
    /\ UNCHANGED <<durable, st, downtime, environment, loaded>>

\* A recurrence observation or a miss is committed to the state in memory,
\* between ticks or inside one.  No record, no version.
Observe ==
    /\ st.evidence.changes < MaxEvidence
    /\ \E status \in {"hidden", "ACTIVE", "UNCERTAIN"}, end \in Ends :
          st' = [st EXCEPT !.evidence = [changes |-> @.changes + 1, status |-> status,
                                         end |-> end]]
    /\ UNCHANGED <<durable, phase, seq, mono, flight, downtime, environment, loaded>>

\* Mutant: the state is installed although the transaction rolled back.
CommitTickRolledBack ==
    /\ phase = "tick" /\ NextRecord <= MaxRecords
    /\ \E f \in flight :
        /\ f.prior = st
        /\ log' \in {log, Append(log, [kind |-> "tick", prior |-> st, new |-> Advanced(f)])}
        /\ st' = Advanced(f)
    /\ flight' = {} /\ prepared' = {}
    /\ phase' = "idle"
    /\ UNCHANGED <<snap, seq, mono, plan, dropped, environment, loaded>>

\* The record is committed and on_commit installs the state.  A crash between
\* the two loses only memory, as one right after them does.
CommitTick ==
    /\ phase = "tick" /\ NextRecord <= MaxRecords
    /\ \E f \in flight :
        /\ f.prior = st
        /\ log' = Append(log, [kind |-> "tick", prior |-> st, new |-> Advanced(f)])
        /\ st' = Advanced(f)
    /\ flight' = {} /\ prepared' = {}
    /\ phase' = "idle"
    /\ UNCHANGED <<snap, seq, mono, plan, dropped, environment, loaded>>

\* Anything in the body of a tick raises, the refusal of its own commit included.
AbortTick ==
    /\ phase = "tick"
    /\ flight' = {}
    /\ phase' = "idle"
    /\ UNCHANGED <<durable, st, seq, mono, downtime, environment, loaded>>

\* snapshot_if_due, after the commit of a tick or forced between ticks; or it is
\* not due, or raises, and the step is not taken.
Snapshot ==
    /\ phase = "idle"
    /\ snap' = [st |-> st, mono |-> mono]
    /\ UNCHANGED <<log, st, phase, seq, mono, flight, downtime, environment, loaded>>

-----------------------------------------------------------------------------
(* Downtime *)

Now(quality) ==
    [wall |-> IF quality = "missing" THEN 0 ELSE wall, mono |-> mono, quality |-> quality]

\* Mutant: a plan prepared again takes a new sample.
SampledAgain(quality) == Now(quality)

\* The first sample a session prepares an anchor's reconciliation with is reused.
StickySample(quality) ==
    IF prepared = {} THEN Now(quality) ELSE (CHOOSE first \in prepared : TRUE).sample

PlanFor(quality, contracts) ==
    [prior |-> st, sample |-> StickySample(quality), contracts |-> contracts]

\* reconcile_downtime; while a plan is in flight it is returned as it is.  Plans
\* of one interval, an anchor and a sample, must have one payload.
Reconcile(quality, contracts) ==
    LET p == PlanFor(quality, contracts) IN
    /\ phase = "idle" /\ plan = {}
    /\ \A first \in prepared : first.sample = p.sample => first = PayloadOf(p)
    /\ plan' = {p}
    /\ prepared' = prepared \cup {PayloadOf(p)}
    /\ UNCHANGED <<durable, st, phase, seq, mono, flight, dropped, environment, loaded>>

AbandonReconciliation ==
    /\ phase = "idle" /\ plan # {}
    /\ plan' = {}
    /\ dropped' = {p \in plan : "late" \in Liberties}
    /\ UNCHANGED <<durable, st, phase, seq, mono, flight, prepared, environment, loaded>>

\* Mutant: a plan made for an older state is applied.
AppliesAnyway(prior) == TRUE

\* apply_downtime_plan_to_state refuses any other state.
Applies(prior) == prior = st

\* Mutant: the sample of the caller is always a new one.
SamplesAnew(p) == {Now("good")}

\* The samples callers pass along with a plan.
CallerSamples(p) == {p.sample} \cup IF "resample" \in Liberties THEN {Now("good")} ELSE {}

\* apply_downtime_reconciliation: the record is made of a preview with the
\* caller's sample, the engine installs the state made with the sticky one.
ApplyReconciliation ==
    /\ phase = "idle" /\ NextRecord <= MaxRecords
    /\ \E p \in plan :
        /\ Applies(p.prior)
        /\ \E s \in CallerSamples(p) :
              log' = Append(log, [kind |-> "downtime", prior |-> st,
                                  new |-> Reconciled(p, s)])
        /\ st' = Reconciled(p, p.sample)
    /\ plan' = {}
    /\ prepared' = {}
    /\ UNCHANGED <<snap, phase, seq, mono, flight, dropped, environment, loaded>>

\* apply_downtime_reconciliation of an abandoned plan: the record is committed,
\* then the engine refuses to install the state.
ApplyDropped ==
    /\ phase = "idle" /\ NextRecord <= MaxRecords
    /\ \E p \in dropped :
        /\ Applies(p.prior)
        /\ log' = Append(log, [kind |-> "downtime", prior |-> st,
                               new |-> Reconciled(p, p.sample)])
    /\ UNCHANGED <<snap, st, phase, seq, mono, flight, downtime, environment, loaded>>

-----------------------------------------------------------------------------
(* Clocks, crash and restart *)

\* A tick reads the wall clock once, when it begins: it moves between ticks.
Elapse ==
    /\ phase = "idle" /\ wall < MaxWall
    /\ wall' = wall + 1
    /\ UNCHANGED <<durable, st, phase, seq, mono, flight, downtime, loaded, restarts, jumps>>

\* The wall clock is set.
ClockJump ==
    /\ phase = "idle" /\ jumps < MaxJumps
    /\ wall' \in 0..MaxWall
    /\ jumps' = jumps + 1
    /\ UNCHANGED <<durable, st, phase, seq, mono, flight, downtime, loaded, restarts>>

\* The process is lost and load_organism starts another: from the snapshot, and
\* none of the records after it.  Time spent down is time elapsed without a step.
Restart ==
    /\ restarts < MaxRestarts
    /\ restarts' = restarts + 1
    /\ st' = snap.st
    /\ mono' = snap.mono
    /\ seq' = snap.st.seq
    /\ phase' = "idle"
    /\ flight' = {} /\ plan' = {} /\ dropped' = {} /\ prepared' = {}
    /\ loaded' = [st |-> snap.st, at |-> Len(log)]
    /\ UNCHANGED <<durable, wall, jumps>>

Init ==
    /\ log = <<>>
    /\ snap = [st |-> Genesis, mono |-> 0]
    /\ st = Genesis
    /\ phase = "idle"
    /\ seq = 0 /\ mono = 0
    /\ flight = {} /\ plan = {} /\ dropped = {} /\ prepared = {}
    /\ wall = 0
    /\ loaded = [st |-> Genesis, at |-> 0]
    /\ restarts = 0 /\ jumps = 0

Next ==
    \/ BeginTick \/ Observe \/ CommitTick \/ AbortTick \/ Snapshot
    \/ \E quality \in Offered, contracts \in BOOLEAN : Reconcile(quality, contracts)
    \/ AbandonReconciliation \/ ApplyReconciliation \/ ApplyDropped
    \/ Elapse \/ ClockJump \/ Restart

Spec == Init /\ [][Next]_vars

-----------------------------------------------------------------------------
(* Properties *)

\* Every variable has its type.
TypeOK ==
    /\ log \in Seq(Record)
    /\ snap \in [st : State, mono : Nat]
    /\ st \in State
    /\ phase \in {"idle", "tick"}
    /\ seq \in Nat /\ mono \in Nat
    /\ flight \subseteq Advance
    /\ plan \subseteq Plan /\ dropped \subseteq Plan /\ prepared \subseteq Payload
    /\ wall \in Nat
    /\ loaded \in [st : State, at : Nat]
    /\ restarts \in Nat /\ jumps \in Nat

\* The age an organism gains while it is down never exceeds the monotonic time
\* up to its last sample, but for the freshness tolerance of each trusted
\* reconciliation: no adjustment of the wall clock, crash or retry ages it.
DowntimeWithinMonotonic ==
    TickLength * (st.age - st.active) <= st.mapping.mono + Tolerance * st.caught

\* "Wall never rewinds age": within a session age does not decrease, whatever
\* the clocks do and whichever plan is applied, and no step but the commit of a
\* tick makes the organism older in active ticks.
AgeNeverRewinds ==
    [][restarts' = restarts =>
          /\ st'.age >= st.age
          /\ st'.active = st.active \/ (phase = "tick" /\ flight # {})]_vars

Life(t) == <<t.age, t.active, t.anchor.id, t.anchor.eligible>>

Lived == INSTANCE Lifetime WITH
    Longest  <- MaxGap \div TickLength,
    age      <- st.age,
    active   <- st.active,
    moment   <- st.anchor.id,
    rested   <- st.anchor.eligible,
    recorded <- Len(log),
    resumed  <- restarts,
    saved    <- Life(snap.st)

\* Through failed ticks, plans made for other states, retries, clocks that are set and
\* restarts behind the ledger, an organism ages as promised.
ImplementsLifetime == Lived!LifeSpec

\* However often a reconciliation is prepared again, and whichever of its plans
\* are applied, the records one session makes for one anchor agree on the age and
\* on what has expired.
OneOutcomePerAnchor ==
    \A i, j \in loaded.at + 1..Len(log) :
        (log[i].kind = "downtime" /\ log[j].kind = "downtime"
           /\ log[i].prior.anchor.id = log[j].prior.anchor.id)
        => log[i].new.age = log[j].new.age /\ log[i].new.evidence = log[j].new.evidence

Clock(t) == <<t.age, t.active, t.seq, t.version, t.anchor>>

\* A restart resumes from a clock the ledger recorded: no speculative advance of
\* a tick that failed ever reaches a snapshot.
SnapshotRecorded ==
    snap.st.version = 0 \/ \E i \in 1..Len(log) : Clock(log[i].new) = Clock(snap.st)

\* A prepared advance does not outlive its tick, or prepare_advance would refuse
\* every tick after it.
NoStaleAdvance == phase # "tick" => flight = {}

\* What a document says, and the code does not do: a short gap after a restart is
\* trusted when the wall clock ran true and the anchor is eligible.
ShortGapTrusted ==
    (st = loaded.st /\ st.anchor.eligible /\ jumps = 0 /\ Gap(st, Now("good")) \in 0..MaxGap)
        => Trusted(st, Now("good"))

=============================================================================
