------------------------------- MODULE HotTail -------------------------------
(***************************************************************************)
(* How long the hot tail of the ledger gets: the events of ticks, those    *)
(* appended between ticks (load_organism, submit_perception_observation,   *)
(* downtime reconciliation, body replacement) and the maintenance of       *)
(* snapshot_if_due, which compacts the whole tail once fewer than one      *)
(* tick's worth of room is left and refuses to act on a tail over its      *)
(* bound.  Only the counts are modelled; Ledger has the tables.            *)
(***************************************************************************)
EXTENDS LedgerConfig

CONSTANTS
    SnapshotEvery,  \* config.snapshot_every
    LoadEvents,     \* most events one load_organism appends
    MaxStops,       \* bound on process stops
    MaxStray        \* bound on the events appended between ticks

ASSUME HotTailAssumption ==
    /\ SnapshotEvery \in Nat \ {0}
    /\ LoadEvents \in Nat \ {0}
    /\ MaxStops \in Nat /\ MaxStray \in Nat

VARIABLES
    tail,       \* events after the latest checkpoint
    phase,      \* what the process is doing
    emitted,    \* events of the tick in progress
    tick,       \* Organism.tick, modulo SnapshotEvery
    saved,      \* the tick of the restart snapshot, modulo SnapshotEvery
    stray,      \* events of the tail that no completed tick appended
    stops       \* process stops so far

tailVars == <<tail, phase, emitted, tick, saved, stray, stops>>

TailPhases == {"idle", "ticking", "failed", "down"}

\* Mutant: no room is left for the next tick.
TriggerLate == HotTailMax

Trigger     == HotTailMax - PerTick
TailFull    == tail >= Trigger
PeriodicDue == tick = 0

\* create_organism: maintenance ran at tick 0, then runtime_ready was appended.
TailInit ==
    /\ phase = "idle"
    /\ emitted = 0 /\ tick = 0 /\ saved = 0
    /\ tail \in {1} \cup 1..Trigger
    /\ stray = 1
    /\ stops = 0

BeginTick ==
    /\ phase = "idle"
    /\ phase' = "ticking"
    /\ emitted' = 0
    /\ tick' = (tick + 1) % SnapshotEvery
    /\ UNCHANGED <<tail, saved, stray, stops>>

\* A tick appends at most PerTick events: the configuration states the bound,
\* the code never checks it.
EmitEvent ==
    /\ phase = "ticking" /\ emitted < PerTick
    /\ emitted' = emitted + 1
    /\ tail' = tail + 1
    /\ UNCHANGED <<phase, tick, saved, stray, stops>>

\* Mutant: maintenance waits for the periodic snapshot.
EndTickUnserved ==
    /\ phase = "ticking"
    /\ ~PeriodicDue
    /\ phase' = "idle"
    /\ UNCHANGED <<tail, emitted, tick, saved, stray, stops>>

\* The end of a tick when no snapshot is due.
EndTick ==
    /\ phase = "ticking"
    /\ ~PeriodicDue /\ ~TailFull
    /\ phase' = "idle"
    /\ UNCHANGED <<tail, emitted, tick, saved, stray, stops>>

\* A periodic (or forced) snapshot without compaction.
SnapshotTail ==
    /\ phase = "ticking" \/ phase = "idle"
    /\ phase = "ticking" => PeriodicDue
    /\ ~TailFull
    /\ saved' = tick
    /\ phase' = "idle"
    /\ UNCHANGED <<tail, emitted, tick, stray, stops>>

\* Snapshot and compaction of the whole tail.
CompactTail ==
    /\ phase \in {"ticking", "idle"}
    /\ TailFull /\ tail <= HotTailMax
    /\ saved' = tick
    /\ tail' = 0
    /\ stray' = 0
    /\ phase' = "idle"
    /\ UNCHANGED <<emitted, tick, stops>>

\* ledger_tail_event_bound_exceeded propagates out of the tick.
RefuseTail ==
    /\ phase \in {"ticking", "idle"}
    /\ TailFull /\ tail > HotTailMax
    /\ phase' = "failed"
    /\ UNCHANGED <<tail, emitted, tick, saved, stray, stops>>

\* One event appended between ticks, with no maintenance after it.
Intake ==
    /\ phase = "idle" /\ stray < MaxStray
    /\ tail' = tail + 1
    /\ stray' = stray + 1
    /\ UNCHANGED <<phase, emitted, tick, saved, stops>>

\* The process dies, between ticks, in a tick or after the refusal.  What the
\* tick appended stays in the ledger.
StopProcess ==
    /\ phase # "down" /\ stops < MaxStops
    /\ phase' = "down"
    /\ stray' = IF phase = "idle" THEN stray ELSE stray + emitted
    /\ stops' = stops + 1
    /\ UNCHANGED <<tail, emitted, tick, saved>>

\* load_organism: the tick goes back to the snapshot, the ledger does not;
\* restart_recovery, migration and runtime_ready events are appended and no
\* maintenance runs.
LoadTail ==
    /\ phase = "down"
    /\ phase' = "idle"
    /\ tick' = saved
    /\ \E n \in 1..LoadEvents : tail' = tail + n /\ stray' = stray + n
    /\ UNCHANGED <<emitted, saved, stops>>

TailNext ==
    \/ BeginTick \/ EmitEvent \/ EndTick
    \/ SnapshotTail \/ CompactTail \/ RefuseTail
    \/ Intake \/ StopProcess \/ LoadTail

TailSpec == TailInit /\ [][TailNext]_tailVars

\* run_ticks and run_realtime keep calling tick_once, and a tick that started
\* runs to its end unless the process stops.
TickToEnd == EndTick \/ (phase = "ticking" /\ (SnapshotTail \/ CompactTail \/ RefuseTail))
FairSpec  == TailSpec /\ WF_tailVars(TickToEnd)

-----------------------------------------------------------------------------
(* Properties *)

TailTypeOK ==
    /\ tail \in Nat
    /\ phase \in TailPhases
    /\ emitted \in 0..PerTick
    /\ tick \in Nat /\ saved \in Nat
    /\ stray \in Nat /\ stops \in Nat

\* The tail exceeds its bound by no more than what was appended outside completed
\* ticks since the last compaction; while nothing was, maintenance is never
\* refused.
TailExcessBounded ==
    /\ tail <= HotTailMax + stray
    /\ phase = "failed" => stray > 0

\* The tail an AS-014 configuration promises: the comment of OrganismConfig ("a
\* checkpoint plus bounded hot tail") and the assertion of the persistence test,
\* len(iter_events()) <= ledger_hot_tail_event_max.
HotTailBounded == tail <= HotTailMax

\* A tick that fills the tail is followed by its compaction, by the refusal or by
\* the end of the process: a due maintenance is not put off tick after tick.
FullTailIsServed ==
    (phase = "ticking" /\ TailFull) ~> (tail = 0 \/ phase \in {"failed", "down"})
=============================================================================
