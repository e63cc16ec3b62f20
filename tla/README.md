# A verification of UMBRA core

UMBRA is a single-process "organism": a tick loop that drifts a simulated
physiology, perceives, arbitrates between candidate actions, has them admitted by
a governance layer, executes them on a body in a habitat, learns from the verified
outcome, and records every authoritative step as an event of a hash-linked SQLite
ledger from which it can be restarted. This directory holds TLA+ models of the
parts of `src/umbra_core` whose correctness depends on the order of steps, on
crashes and restarts, or on bounds, the TLC runs that check them and the TLAPS
proofs about them. `PROJECT.json` says which definition models which lines.

## 1. Inventory

State is held by the `Organism` (volatile, rebuilt by `load_organism` from the
restart snapshot) and by the `Store` (durable). Components call each other
directly, on one thread: nothing in `src/umbra_core` starts another. What makes the system hard is not parallelism but *interruption*: the
process may die between any two SQLite statements, tables are written in a mix of
autocommit statements and transactions, in-memory state is installed by callbacks
after COMMIT, and callers retry.

| Component (source) | State | Operations | Hard behaviour | What makes it correct |
|---|---|---|---|---|
| Event ledger (`persistence.py`) | events, ledger tip, snapshots, latest_snapshot, checkpoints, checkpoint provenance | append_event, save_snapshot, compact_authoritative_prefix, prune_snapshots, validate_chain, load | crash between autocommit statements; provenance over repeated compactions | append-only; chain never breaks; restart point loadable and not behind the compacted prefix; anchors and referenced events retained |
| Hot tail (`runtime.py` snapshot_if_due) | length of the tail, tick, snapshot period | ticks, intake between ticks, maintenance, refusal | events outside ticks; rewind of the tick on restart | tail bounded; due maintenance served |
| Habitat execution journal (`habitat/execution_journal.py`) | journal rows, habitat events, outcome, engine, physiology | prepare, commit success/failure, retry, rehydrate, recover | crash between COMMIT and on_commit; retries; full budget; compaction; reattachment | one mutation and one effect per execution; terminal is final; every habitat state in use is one that was committed; replayable |
| Embodiment adapter (`embodiment_adapters/adapter.py`, `embodiment.py`, `runtime.py`) | attachment events, adapter state and generation, occupancy, body binding, delayed actuation and its proposal, objects held | attach, detach, swap, replace, the two migrations, ticks with delayed motions, restart | crash between attachment event and snapshot; a motion delayed across detach, swap or restart; failed ticks | one history of bodies; load agrees with the ledger; nothing of a replaced body remains |
| Wait journal (`wait_execution.py`, `governance.py`) | executions, suppressions, lifetime count | admit or refuse, complete, finalize, recover after downtime | a plan older than the journal, loss on restart, caps, eviction | one outcome; suppressed waits not re-admitted; deadlines that passed in downtime end their waits |
| Social engine (`social/engine.py`, `social_evidence.py`) | hypotheses, pending bids, contingency cells, evidence links, seeded counters | recognize, signal, observe, interrupt, resume, save, restart | an answer, contested recognition and a timeout for the same bid; restart behind the ledger | a bid settles once and in time; no evidence without its link |
| Temporal engine (`temporal/`, `runtime.py`) | age, active age, sequence, version, last anchor, clock mapping, recurrence evidence; prepared advance, prepared reconciliation and its sticky sample | begin, commit, abandon a tick; prepare, abandon, apply a reconciliation; commit an observation; replay; restart | failed ticks; wall clock set back or forward; plans applied late, twice or with another sample; restart behind the ledger | age never decreases in a session; downtime never exceeds monotonic time; one outcome per anchor; records replay to the engine's state |
| Governance (`governance.py`) | cooldowns, strikes, mode | propose, admit, execute, verify, apply | order of admission rules; fallback | denials leave no effect; only admitted proposals execute |
| Organism loop (`runtime.py`) | tick, pending action, delayed proposal | tick_once and its phases, restart | restart in the middle of a tick; repeated tick numbers | events of a tick in phase order; a pending action is executed or recovered once |
| Habitat and affordances (`habitat/`, `habitat_affordances/`) | objects, zones, holding, versions | validate, plan, apply event, replay | plans and events that disagree; capacity | holder and location agree; versions count mutations |
| Arbitration, competition | candidate scores, commitment, hysteresis | compete | seeded randomness over floats | chosen candidate is admissible; commitment respected |
| Memory (`memory/engine.py`) | episodes, archive, corrections, beliefs with what supports and contradicts them; procedural skills and routines | encode, correct, consolidate (replay, believe, contest), forget, archive | the same episode replayed cycle after cycle; beliefs that contest and supersede one another; eviction | an episode counts once; a belief rests on what its episodes show; caps |
| Route evidence of the world model (`world_model/route_evidence.py`, `runtime.py`) | open episode, ring of experiences; bindings of the actions under way | bind at issue, record a verified outcome, snapshot, restart | delayed motions overtaken by others; entities forgotten and body schema superseded between issue and outcome; a motion completed again after a restart | evidence is unbroken, of one entity and body, counted once, and ends as it says |
| World model (transitions, predictions), self model, development, individuality | bounded collections of learned records | observe, consolidate, split/merge, decay | capacities; evidence counted once | bounds; provenance kept; evidence idempotent |
| Physiology | levels in [0, 1] | drift, apply effects | clamping | levels stay in range |
| Recoverability, hypothetical futures | none (pure) | compute views, simulate | budgets | agreement with definition |
| Perception adapters | intake queue, seen ids | submit, drain | duplicates, staleness, bound | each observation taken once |
| Expression frame ring | ring of frames | push, read | an embedder may read from elsewhere | reader sees whole frames in order |
| Identity | one committed record | create, load | tampering (excluded) | constant |
| UI, tools, experiments, research, docs | — | — | — | not part of the organism |

The interactions modelled so far: runtime → store (append, snapshot, compact),
governance/journal → store and habitat engine (transaction plus on_commit), loader
→ store and habitat engine (rebuild, reattach), runtime → temporal engine → store
(prepare, transaction, on_commit), temporal engine → wait journal (recovery deltas in
on_commit), governance → wait journal (suppression on refusal, admission on a grant),
adapter → embodiment (state observer), social engine → store (events, link
transaction). The journal's `PREPARED` rows
block compaction and body replacement in the ledger; the event budget of the store
turns successes of the journal into failures.

## 2. Plan

Written in this order, each with its runs; "P" marks those proved about.

1. `EventLog` (abstract), `Ledger`, `MCLedger`, `Ledger_proofs` (P) — done.
2. `HotTail`, proved about in `Ledger_proofs` (P) — done.
3. `BranchingWorld` (abstract), `ExecutionJournal`, `MCJournal`, `ExecutionJournal_proofs` (P) —
   done.
4. `Lifetime` (abstract), `Temporal`, `TemporalReplay`, `Temporal_proofs` (P) — done; observation plans with
   their post-hoc anchors and deduplication are to be added.
5. `Bodies` (abstract), `Attachment`, `Attachment_proofs` (P) — done: attachment events against snapshots,
   occupancy, delayed actuation and held objects, with crashes.
6. `Waits` (abstract), `Wait`, `MCWait`, `Wait_proofs` (P) — done: admission, suppression, outcomes and
   recovery after downtime.
7. `Social`, `Social_proofs` (P) — done for hypotheses and bids; routines, merge and
   split are left.
8. `Memory`, `MCMemory`, `Memory_proofs` (P) — done for episodes and beliefs; procedural
   skills and routines are left.
9. `Route`, `MCRoute`, `Route_proofs` (P) — done.
10. `Governance`: the rest of the admission order, cooldowns, fallback.
11. `OrganismTick`: the phases of a tick and the events each may append, composed with
   `HotTail`'s bound per tick and with restart.
12. `Habitat` (state, plans, events and replay), then the integer part of
   `Arbitration`, `Physiology` and `Recoverability` as operators against reference
   definitions.

Abstract specifications worth stating: the append-only log (`EventLog`) and the world as
the journal's callers and the organism's engine see it (`BranchingWorld`), the succession of
bodies (`Bodies`), the age of an organism (`Lifetime`), and what governance promises about
waiting (`Waits`), all done. Bounds are chosen per run below.

## 3. The modules

### EventLog and Ledger

`EventLog` is what the store promises: a log of identities that only grows
(`Extend`), a restart point that moves to its end (`Anchor`) and a forgotten prefix
that never passes the restart point (`Forget`).

`Ledger` models the store statement by statement. Every statement outside
BEGIN IMMEDIATE is an action, every transaction that commits is one action, and
`Crash` may come between any two; a transaction that rolls back is a stutter.
`AppendEvent` is `append_event`; `SaveSnapshot` and `PointToSnapshot` are the two
statements of `save_snapshot`; `Compact` is the transaction of
`compact_authoritative_prefix`, with its refusals `RefuseCompaction` and
`NothingToCompact`; `DropProvenance`, `DropCheckpoint`, `Unprotect` and
`AnchorsTrimmed` are the loop over old checkpoints after it; `PruneOne`, `Repoint`
and `NothingToPrune` are `prune_snapshots`; `ReplaceBody` is the transaction of
`replace_physical_body`; `Restart` and `EmitReady` are `load_organism`. The variable
`pc` is the place in `snapshot_if_due` a process has reached.

Abstractions: the hash of an event is its identity (hashes do not collide, ids are
fresh); a payload is reduced to a type; of the state in a snapshot only the event
ids it names are kept (`refs`), because `_snapshot_strings` promotes exactly those;
checkpoint and snapshot identities come from the same counter as event ids.
`reclaim_physical_storage` moves no row and is left out. The rules of
`replace_physical_body` about body and habitat belong to Attachment.

### HotTail

`LedgerConfig` declares the two constants it shares with `Ledger` (`HotTailMax`,
`PerTick`) and what is assumed of them. Only counts: how long the tail is when `snapshot_if_due` looks at it. A tick appends
at most `PerTick` events (the configured bound, which the code does not check); events
also come from `load_organism`, `submit_perception_observation` and downtime
reconciliation, with no maintenance after them. `stray` is the part of the tail
appended outside completed ticks, the quantity the bound depends on.

### BranchingWorld and ExecutionJournal

`BranchingWorld` is what the journal promises to its callers and to the engine an organism
acts with: an execution is open until it takes effect (`Take`, on the state the engine shows,
to which its life has come) or is refused (`Refuse`), either for good; the engine shows
committed states only and takes nothing back it has shown (`CatchUp`), until it is lost
(`LoseEngine`). As long as an engine lives, executions take effect one after the other; the
next engine may take up any committed state, and there the world may branch. That is all the
code promises: `attach_habitat_engine` compares an engine with the snapshot's binding and not
with the ledger, and a commit works on whatever state the engine has. After a crash behind a
commit the accepted engine lags, and the next manipulation forks the habitat's history
(section 6). In `ExecutionJournal` the verdict is what the row's status stands for (`Verdict`:
a PREPARED row is still open), `worlds` are the states commits led to, and what is seen is the
engine in use, if there is one.

A habitat state is the sequence of *effects* that led to it: every mutation raises the version
and changes the state hash, and the hash covers no execution id, so that two executions with the
same effect on the same state lead to the same one. An effect may be *lossy* (it sets a
cooldown, which no event records) or *yielding* (it requests an effect on the organism).
`Submit`, `Retry` and `Rehydrate` are the three ways through
`commit_manipulation_transaction`; `CommitSuccess` and `Install` are the transaction and
its `on_commit`; `CommitFailure` and `CommitRaises` the other ends of a commit;
`FinishOutcome` what a tick does afterwards. `Compact`, `SaveSnapshot`, `Crash`, `Load`,
`RestoreEngine`, `AttachEngine` and `PassEngine` are the rest of an organism's life as far as
the journal sees it: after a restart the engine is rebuilt from checkpoint and tail, or the
caller attaches one of its own, or passes it to `commit_manipulation` without attaching it.
`Replayed` is the state `restore_habitat_engine_from_checkpoint` rebuilds, event by event
(`ReplayedUpTo`); `Recorded` are the states the checkpoint and the habitat events name.

One assumption about callers is left: an engine that is passed and not attached was in the
state the snapshot is bound to when it was taken up, and one organism uses one engine at a
time. `Callers` says whether requests come from ticks or from `commit_manipulation`.

### Lifetime, Temporal and TemporalReplay

`Lifetime` is what temporal continuity promises about age: it grows by one with a tick that
is lived through (`Live`), by at most the longest trusted gap with a downtime that can be
measured (`CatchUp`), not at all with any other (`LoseTrack`), after which no downtime counts
until the next tick; each change has a record of its own, and age is lost only when a
restart goes back to the life last saved (`Resume`), which is counted. `ImplementsLifetime` maps its `age`,
`active`, `moment` and `rested` to the counters and the anchor of the engine's state,
`recorded` to the length of the ledger, `resumed` to `restarts` and `saved` to the snapshot: a failed tick, an
abandoned plan, a clock that is set and a commit of evidence are stutters, and a plan
applied late is `RecordInVain`.


`Temporal` is `TemporalEngine` and the code of `Organism` that drives it. `BeginTick` is
`_begin_temporal_tick` with the advance of monotonic time that opens the body of a tick;
`CommitTick` is `_atomic_commit_orchestration_tick` (record and installed state),
`AbortTick` the exception handler of `tick_once`, reached from anywhere in a tick, the
refusal of its own commit included. `Reconcile`, `AbandonReconciliation` and
`ApplyReconciliation` are the life of a downtime reconciliation; `Trusted` is
`classify_downtime_trust`, `NextAge` and `Recovered` what a plan says, `PayloadOf` what its
canonical hash covers, `prepared` the journal and sticky sample of the current anchor.
`Observe` commits recurrence evidence, which changes the state hash and nothing else.
`Elapse` and `ClockJump` are the wall clock (external: `OrganismConfig.wall_time_fn`);
`Restart` is `load_organism`, from the snapshot. Nothing in `src/umbra_core` calls the
reconciliation itself: it is an interface, whose callers are the tests and whoever embeds
the organism, so `Liberties` says what callers do beyond preparing a plan and applying it
once with its own sample: apply it with another ("resample") or after having abandoned
it ("late").

Abstractions: a state hash is the state; the identity of an advance or a reconciliation is
the position of its record; one learned window, hidden, ACTIVE or UNCERTAIN, stands for
the recurrence index, and what an observation makes of it is free; wall and monotonic time
have one unit; a sample is good, of a source not accepted, too uncertain or without a wall
time, and a change of source between anchor and sample, which the code also treats as
untrusted, counts as the second. Monotonic time moves only in ticks and is saved with the
snapshot, as in the code. `caught` is no field of the code: it counts trusted
reconciliations, so that the tolerance each of them may use can be added up. The cap on
the advance of one reconciliation never binds, as the longest trusted gap is shorter, and
the fraction of a tick left over is recorded by the code and used by nothing. A crash
between COMMIT and on_commit loses memory alone and is `Restart` right after the step.

`TemporalReplay` is `replay_temporal_state_from_events`, record by record (`ReplayFrom`)
with the checks of `apply_advance_record` and `apply_downtime_reconciled_record`; a replayed state
carries the hash it took from the last record apart from its fields, because the code
never computes it anew.

### Bodies and Attachment

`Bodies` is what the embodiment promises: an organism has one body at a time, left and
taken up again (`Detach`, `Attach`), given another profile (`Swap`) or replaced (`Replace`),
which needs a body that holds nothing and has no motion under way, and takes away what a
restart could bring back of one (`saved`). Only an attached body is given a motion (`Move`),
or picks up and puts down. `Attachment` implements it with the body, generation and status of
the newest attachment event, the holders of the habitat, and the delayed motions of memory
and of the snapshot.

Bodies are numbered by the attachment event that introduced them, so that body and
generation are all that is left of an `AttachmentState`. `Load` is the attachment part of
`load_organism`, `MigrateD008` and `MigrateD009` the two migrations that follow it, `Ready`
their end; `Attach`, `Detach` and `SwapProfile` are the adapter's operations with the
observer that binds the embodiment; `ReplaceBody` is `replace_physical_body`,
`ReplaceBodyAndCrash` the same up to its COMMIT. `Tick` takes a delayed motion one step on
(`Elapsed`, `Queued`), settles its proposal and may save; `TickFailsFinishing` and
`TickFailsActing` are the ticks an exception ends in between. `AttachEngine`, `PickUp` and
`PutDown` are the habitat as far as a body holds something of it. `Stores` are the stores a
session can begin with: new ones, ones from before the adapter, and ones whose body still
has the older profile. `LoadWithoutAdapter` is a session with the adapter switched off; it
is part of `SpecOptional` only.

Abstractions: the ledger keeps its attachment events and the version its habitat events
lead to; a snapshot keeps what concerns the body; a proposal is there or not; where a
motion leads to, and the limits a profile puts on it, change no state here. The engine that is
attached is one restored from the ledger; what follows when one that lags is attached is the
subject of ExecutionJournal.

### Waits and Wait

`Waits` is what governance and the wait journal promise: a wait begins within its window
unless its key is barred (`Barred`) by an ended wait whose record is among the latest ones;
it is observed within its window only (`Observe`), interrupted at any time (`Interrupt`), and
expires when time has reached its deadline (`Pass`), one of the three and once; a new
process has none (`Forget`). Expectations, plans and the list of suppressions do not occur in
it; `Wait` implements it with its executions as the waits and the count `recorded`.

`Refuse` and `Grant` are `_validate_wait_admission` with what follows from its verdict: a
refusal records a suppression, a grant an execution with its deadline. `Occurs` is
`try_complete_with_occurrence`, `Interrupt` a caller's `finalize`, both through `Finalize`,
which ends a wait and suppresses its key in one step. `Prepare` and `Reconcile` are
`compute_wait_recovery_deltas` and `apply_wait_recovery_deltas` at the two ends of a
downtime reconciliation, as `Temporal` models it; `Revise` is recurrence learning, whose
version is part of the key a suppression is for; `Restart` loses the journal, which lives
in memory.

Abstractions: executions are numbered in the order of admission, because a proposal
carries no execution id; an occurrence matches the wait it is observed for; a gap that
is not trusted is one with no time gone by. `mark`, `seen` and `recorded` are no fields of
the code: they say which suppression an outcome left and which journal a plan saw, for the
properties.

### Social

`Tick` is the social part of `tick_once`: `recognize` on what the matcher makes of the cue
(`Cues`: nothing, a newcomer, one hypothesis clear again, two torn between), with the
retirement of one hypothesis too many, then `interrupt_pending` for the bids of partners
that became contested and `resume_pending` for those whose window elapsed. A tick finds the
bids one older, or as old as before when the last one raised and its age was given up. Age
also moves while nobody looks at them (`Unseen`): a tick with an external displacement returns
before recognition (`DisplacedTick`), and reconciled downtime adds several ticks at once
(`Downtime`). `missed`, no field of the code, is the age gained since the last look; a bid
outlives its window by no more than that. `Signal`,
`SignalRefused` and `SignalFails` are the three ends of `create_pending`; `Observe` is
`observe_outcome` with `resolve_pending`, its link, events and memory in one transaction;
`Save` and `Restart` are `to_state` and `from_state`, both counters included.

Abstractions: one context and one signal; scores decide which hypotheses match, and are
left to the choice of cue; the ledger is kept per bid; a cell keeps its two counts.

### Memory

`Encode` is `consider_event` for an experience worth encoding, `Correct` is
`correct_episode`; both end in `_bound_active_episodes`, and so in `Forget`, when a cap is
passed. `Consolidate`, one `Replay` for each candidate and `EndConsolidation` are
`consolidate`: `Believed` is `_update_belief_from_episode` with its four ways (`Seeded` with
the eviction of `_bound_beliefs`, already known, `Contradicted`, `Confirmed`), and
forgetting closes the cycle. `Leaving` and `Newest` say which episodes
`_forget_and_archive` may move, and which the archive drops.

Abstractions: all episodes are about one action on one thing, the only ones that can
contradict each other, and all have an outcome (propositions without one are left
out); a score is three values, low, higher, and too valuable to archive
(a protected episode, a salient and relevant one); confidence is in thousandths (`Confidence`);
the order of replay and of the beliefs' dict is free, and so is the moment of a
consolidation (quiescence and the cooldown of 8 ticks); episodes have ticks of their own,
so that the oldest of the archive is the first encoded; the limits on updates in a cycle
equal the limit on its steps and cannot bind before it. Memory is saved and restored as a
whole, so that a restart leads back to an earlier state and adds none.

### Route

`BeginTick` is the first part of a tick: `ingest_observations` meets, refreshes and forgets
entities (`Ingest`), and `tick_actuation` may complete the motion of a slow body, whose
outcome is then finished with the binding it was issued with. `Act` is an admitted
proposal: `Bind` is `bind_for_issue` with `resolve_opportunity`; the motion gets under way
(`ActDelayed`) or is executed at once (`ActNow`), which it also is when another is under
way. `Denied` is the other verdict of governance. `FinishOutcome` is `_finish_outcome`:
the verified outcome in the ledger, a body schema the self model may supersede over it,
and `record_verified_outcome` (`RecordEvidence`, `RecordBound`, `ControlStep`,
`TerminalStep`, `Close`). `Save` and `Restart` are `to_state` and `from_state`, in which the
open episode is not.

Abstractions: a step of a route is the place of its outcome in the ledger, and `number`,
which the code has not, tells executions apart; an entity is the tick it was met in and the
body schema of its support region, since there is at most one of a kind
(`_find_entity` merges, so a resolution is never ambiguous); the kinds seen in one tick have
support of the same body, and none is forgotten and met again in one tick; MOVE and IDLE stand for
everything that is never bound (RETREAT, signals, an ORIENT without a target); the body
schema changes only with an outcome, as the runtime calls the self model there. The
refusals of an outcome that is not verified or whose body differs from its binding cannot
be reached from the runtime and are left out. Route learning is off by default
(`route_demand_learning_enabled`) and read by no decision yet. A tick that fails is left to
`Temporal` and `Attachment`.

## 4. The runs

| Run | Shows | Bounds and why they are enough |
|---|---|---|
| `ledger` | chain, restart point, anchors, references, no event lost, exact attachment lookup, refinement of `EventLog`, with two crashes | maintenance due at every snapshot (tail bound 2, as many events per tick, so that there may be nothing to compact), 2 checkpoints and 1 ordinary snapshot kept: three compactions with trimming and pruning fit in 7 identities; a second crash can hit the recovery from the first |
| `hot_tail` | when the tail may exceed its bound; due maintenance is served | bound 6, 3 per tick, snapshot every 2 ticks: a tick may start below and end at the bound; 2 stops, 3 events outside ticks suffice to overflow |
| `journal` | a status tells what was done, habitat events and engine stay on recorded states, a restore loses none of them, effects match the habitat, refinement of `BranchingWorld`, with requests from ticks and from `commit_manipulation` mixed | 3 executions, two of them with the same, yielding effect, so that branches of the history may meet; budget 7 so that successes and failures both run out of room; 2 crashes, so that an engine that lags is attached, acts and is lost in its turn. No effect is lossy: a lossy one only makes rehydration and restores refuse |
| `temporal_clocks` | refinement of `Lifetime`, age against clocks, snapshots; records of a session replay to the engine's state | gap limit 3, tolerance 1 and wall clock up to 3, so that gaps are trusted, stale and implausible, and of more than one tick; 1 jump, 1 restart, samples of every quality; 2 records: a tick or a reconciliation, and another on top of it, with the restart before, between or after them. No evidence is committed (`MaxEvidence` = 0), because `TailReplays` does not hold with it (section 6) |
| `temporal_retry` | one outcome per anchor | 3 records with evidence that changes once and may expire, abandoned plans applied late, wall clock up to 2 with gap limit 1, so that a gap may be excessive |
| `body` | refinement of `Bodies`, restart is accepted, held objects and delayed motions belong to the present body, live state follows the ledger | 2 objects, a delay of 2 ticks (one tick between the order and the motion), 4 attachment events: a migration, a detach or swap, a replacement and one event behind it; 3 habitat versions; any number of ticks, saves and crashes |
| `social` | memory and ledger agree on bids, one settlement per session, evidence backed, causal and in time | 2 hypotheses of 3 partner identities, so that a newcomer retires one; 2 places for 3 bids, so that settled ones make room and a full table refuses; delayed window 1, timeout 2, so that an answer may be prompt, delayed or late and a bid may outlive its partner; up to 2 ticks unseen, so that an unanswered bid may be well past its window; 1 restart from any snapshot saved before |
| `wait` | refinement of `Waits`, no re-entry, reconciliation ends what is due | 1 recurrence with 2 revisions, a short and a long window that overlap, deadline after 2 ticks or the window's end, suppression of 1 tick, 2 executions and 2 suppressions kept of 4, so that eviction happens; ages up to 4, 1 restart |
| `memory` | an episode counts once, a belief rests on what its episodes show, caps | 2 rules, so that 4 propositions compete for 2 places; caps of 2 active and 1 archived episodes, so that 4 episodes pass through archive and loss; 2 consolidations of 2 steps, so that an episode is replayed again after its belief was contested or evicted |
| `route` | a route is unbroken, of one entity and one body, ends as it says, counts no execution twice and no step before it was issued | two opportunities with a terminal, so that one interrupts the other, and a hazard without; a body 1 or 2 ticks slow, so that its motion is overtaken; 2 body schemas; 3 actions in 3 ticks; one tick that changes what is held; one place for experiences, so that the ring rotates; 1 restart from any snapshot, so that a motion is under way when saved, completed before the restart and again behind it |
| `journal_restart`, `memory_contests` | violations (section 6) | one or two executions and one restart, or three episodes, suffice |

In `social` and `route` a snapshot that no restart will read is not distinguished (`VIEW
View`), which no property of these runs can tell: none looks at it.

Deadlock is not checked where the system may really stop: a process that is down need
not be restarted, one that died before its first snapshot cannot be, and identities,
crashes, stops and executions are bounded (`MaxIds`, `MaxCrashes`, `MaxStops`,
`MaxStray`, `MaxRefs`, `Budget`, `MaxWall`, `MaxMono`, `MaxRecords`, `MaxEvidence`,
`MaxRestarts`, `MaxJumps`, `MaxVersion`, `MaxPartners`, `MaxBids`, `MaxMissed`, `MaxLoads`, `MaxAge`,
`MaxEpisodes`, `MaxCycles`, `MaxBody`, `MaxTick`, `MaxIssued`, `MaxChanges`). Rules are symmetric in `memory`.
It is checked in the runs of `Attachment`, where a process that is up can always crash
and one that is down can always load.

Fairness is assumed in one place, `HotTail!FairSpec`: a tick that has started runs to its
end (`WF` of `TickToEnd`), because `tick_once` is a straight-line function. Nothing
forces another tick to begin, an event to arrive or a process to be restarted.

Definitions introduced by a comment "Mutant" are deliberate errors (a dropped guard, a
missed statement, an off-by-one): each property has one that breaks it, so that no
property holds merely by the shape of the model. No behaviour uses them.

## 5. The proofs

Every theorem holds for all values of the constants that the module's assumptions allow.
Every safety property of a passing run, invariant or action property, is the statement of
one; so are the refinements of `EventLog`, `BranchingWorld`, `Lifetime`, `Bodies` and `Waits`.

`Ledger_proofs` proves, with `LedgerAssumption` and `ConfigAssumption`, `TypeCorrect`,
`TailNeverLost`, `RestartPointKept`, `AnchorsKept`, `ChainAlwaysValid`,
`StoreImplementsLog`, `ReferencesKept` and `AttachmentsFound`. None of these properties is inductive alone. The invariant `IInv`
adds what they need: identities grow along the history and events are linked
(`HistoryOK`), the hot table is a suffix of the history and the tip its end (`TailOK`),
later epochs end later and end on the identity recorded (`CheckpointsOK`), provenance is
authentic, snapshot identities are unique (`SnapshotsOK`), and while maintenance runs the
snapshot it began with is newer than all others and, from its second statement on, the
restart point (`PhaseOK`). Pruning spares the restart point because a newest snapshot is
never among the droppable; trimming spares the latest checkpoint because an expired one
has a later epoch above it; the chain check counts the tail through a bijection with a
range of positions. `StoreImplementsLog` maps appends to `Extend`, the second statement of
a save to `Anchor`, compaction to `Forget` and everything else to stuttering. The lookups
by CHOOSE need greatest elements, which the lemma `MaxExists` derives from the
well-foundedness of the subset order on finite sets.

What compaction carries over needs more (`CarriedIInv`). An event carried because its type
is protected is carried again only while it is the last of its type; one that is referred
to must therefore be in the hot table or carried *for the reference* (`Kept`), and a
compaction takes the references from the snapshot with which maintenance began, so this
snapshot has to name what is referred to now (`ReferencesOK`): no reference is added
between its statements. `AnchorsOK` says of each protected type that its last event is
among the candidates of the lookup, from which `LastEventOfType` then chooses it, because
identities grow along the history.

Of `HotTail` the same module proves `TailTypeCorrect` and `ExcessBounded`.
That due maintenance is served (`FullTailIsServed`) is liveness and stays with TLC.

`ExecutionJournal_proofs` proves, with `JournalAssumption`, `TypeCorrect`,
`RowsTellTheTruth`, `TerminalForGood`, `EventsStartOnRecord`, `EngineStaysOnRecord`,
`BodyMatchesHabitat`, `RestoreIsComplete` and `JournalImplementsWorld`. A row can only be
trusted together with the history of mutations, so the invariant ties the two (`RowsOK`: a row
is COMMITTED_SUCCESS exactly when its execution is in the history, where none occurs twice) and
says what a commit in progress has already done of both (`CallOK`). Since engines may lag, the
habitat's history is a tree, and the invariant keeps every state on it: the engine's, the
snapshot's and the one about to be installed are recorded, and commits led to every recorded
state (`StatesRecorded`); every habitat event starts in the checkpoint's state or where an
earlier event ended (`EventsGrounded`). A compaction keeps only the engine's state, and with the
events goes everything that could start elsewhere. That effects in the body match the habitat is
a claim about the engine and the body at one moment and about the snapshot at another
(`EffectsOK`). `EvidenceOK` keeps the habitat event of a success for as long as its outcome is
there, so that a retry finds out what it did. `RestoreIsComplete` says that a replay that
succeeds has rebuilt a state that extends every recorded one: while it succeeds, it stands at
or behind the end of every event passed so far. This, and that the recursive definition has a
solution at all, is an induction over the events, done over the *set* of places it has reached
(`UpTo`). `JournalImplementsWorld` maps the commit of a success to `Take`, of a failure to
`Refuse`, whatever installs, rehydrates or takes up a state to `CatchUp` or `LoseEngine` and the
rest to stuttering. It rests on `IInv` in three places: the row of an execution that commits is
PREPARED (`CallOK`), an engine that is taken up shows a state some commit led to
(`StatesRecorded`), and a caller that replays a committed habitat event gets to the state behind
it, one effect further (`RehydratedByOne`).

`Temporal_proofs` proves, for every value of the constants (with `TemporalAssumption`),
`TypeCorrect`, `DowntimePaid`, `SnapshotAlwaysRecorded`, `AdvanceEndsWithTick`,
`AgeKept`, `AgesAsPromised`, `OneOutcomeForAnAnchor` and `SessionReplays`. That downtime is paid for by monotonic time is not inductive: a plan holds a
sample taken earlier, and a restart takes state and monotonic time back to a snapshot. The
invariant `IInv` therefore says that every state kept, in the engine and in the snapshot,
is paid for *with its own* monotonic time and has a clock mapping whenever its anchor may
be a baseline (`StatesPaid`), that samples held by a prepared advance, by plans and by
the sticky sample are not older than the mapping of the state they are for and not newer
than monotonic time (`FlightFresh`, `PlansFresh`, `PreparedFresh`), and that the clocks of
both states are in the ledger (`StatesRecorded`). A trusted gap is at most the monotonic
time since the mapping plus the tolerance (`CatchUpGap`), and whole ticks of a gap do not
exceed it (`TicksOfGap`); the mapping moves to the sample, so that no monotonic time is
counted twice (`ReconcilePaid`). `AgesAsPromised` maps every step to one of `Lifetime` or a
stutter: a plan is applied to the state it was made for only, it catches up only from an
anchor that may be a baseline and leaves one exactly then (`ReconciliationRests`), and a gap
that is trusted is worth no more ticks than the longest one (`LongestGap`).

One outcome per anchor rests on `OutcomeInv`. An anchor's identity is the position of its
record, so the anchor of the next record is nobody's yet (`AnchorsPast`); a session prepares
only one payload for an anchor, since the sample is kept and a second payload with the same
sample is refused (`OnePayload`); every plan that can still be applied, those abandoned
included, has that payload (`PlansPrepared`), and so have the records made of them
(`RecordsPrepared`). `SessionReplays` is for sessions without new evidence, whose callers
take no liberties (`MaxEvidence` = 0, `Liberties` = {}, as in its run; it fails otherwise,
section 6): every record was then made for the state the one before it left, and the last
left the engine's (`ChainInv`), and replay, which never computes a hash, keeps to that
chain in what it compares, version, hash and age (`At`), by an induction as above.

`Attachment_proofs` proves, with `AttachmentAssumption`, `TypeCorrect`,
`RestartNeverRefused`, `HistoryKept`, `NothingLeftBehind`, `MotionKeepsBody`,
`LiveIsLedger` and `OneBodyAtATime`. That a restart is accepted is a claim about a snapshot written long
before; the invariant `IInv` adds that the body of a record is the number of the record
that introduced it (`BodiesNamed`), that no snapshot is ahead of the attachment events
(`SnapNotAhead`) and that one with no event behind it holds their last holder
(`SnapAgrees`), and that every session has its adapter (`HasAdapter`), without which the
property fails (section 6). `OneBodyAtATime` needs nothing beyond it: a step of a live
organism moves adapter and newest event alike, and a replacement finds every object free
(`ReplacementFreesAll`) and leaves a snapshot without a motion in the same transaction
(`ReplacementCommitted`), so that a crash behind it makes no difference.

`Social_proofs` proves, with `SocialAssumption`, `SettledOnce`, `MemoryMatches`,
`CellsBacked`, `BidsEndInTime`, `ContestedHasNoBid`, `CausalSupport` and `CapacityKept`. A restart puts a
past engine beside the present ledger, so the invariant says the same of the engine and of
the snapshot (`EngineOK` of both): bids open there are in the ledger and in time, cells
are backed by links, counters are ahead of what they have numbered; `LedgerOK` is about
the ledger alone, and what a session recorded is settled in both (`SessionAgrees`). The capacity is again a claim about both engines
(`CapInv`): bids that settle keep their places, a new one has a number above all others,
and with every place taken the lowest settled one, found by well-foundedness, leaves.

`Wait_proofs` proves, with `WaitAssumption`, `OneOutcomeKept`, `ReconciliationExact`,
`NoReentryKept`, `WaitsAsPromised` and `JournalTyped`. A plan names exactly the waits due at its age in the
journal it saw (`PlanExact`), and that journal is one the present journal continues
(`PlanKnown`), so that what was terminal then is terminal now. That an ended wait is not
begun again needs to know where its suppression is in a journal that forgets: as far from
the latest one as records have followed it (`SuppInv`, `Marked`). A reconciliation ends a set
of waits and suppresses them in order; their places in it are different (`RankedFinds`)
and hence, by the pigeonhole theorem for finite sets, all there (`RankOnto`), without
induction. `WaitsAsPromised` maps a grant to `Begin`, a refusal to `Refuse`, a tick and a
reconciliation to `Pass`, and what is done to a wait that has ended to stuttering. Beyond
the invariant it needs that a plan stands (`PlanStands`): it is for an age not yet passed, by
which the waits it names are due in the present journal, so that none expires early
however late the plan is applied.

`Memory_proofs` proves, with `MemoryAssumption`, `StrengthEarned`, `EvidenceMatches`,
`StandsKept` and `CapsKept`. What the properties say of beliefs is stated of a table of beliefs beside a
list of episodes (`TableOK`), since forgetting works on a list that has just grown and
eviction on a table not yet installed; together they are inductive. Confidence follows
support because each step of it (`+80` in a contest, `350 + 120 n` on confirmation) goes
with one more episode in the support, whose size is counted by adding one element to a
finite set; eviction leaves something standing because a newcomer is never superseded and
superseded beliefs go first. `SomethingStands` is proved and not run: a mutant that breaks
it needs six episodes, more than a run has room for. The caps (`CapInv`) are proved by
counting: what forgetting takes out is so much that more than the hard bound is left only
if all that is left is kept (`LeavingEnough`), and the newest of a set, all not older than
the oldest of them, are no more than have fewer than the cap behind it (`NewestFew`).
Outside a consolidation nothing counts as replayed, so that an episode may be added and
others forgotten for it.

`Route_proofs` proves, with `RouteAssumption`, `TypesKept`, `RoutesUnbroken`,
`RoutesOwnTheirSteps`, `RoutesInTime`, `RoutesEndAsTheySay` and `ExecutionsCountOnce`. Those in the middle are one
statement about a route
(`Good`: its steps are places in the log in order, it is whole, its own and in time), made
of the experiences in memory and in the snapshot; of the open episode the invariant adds
that nothing but passed-over outcomes lies behind its last step (`AtEnd`), which is what
lets it be extended, and of what is under way that it was issued by now, in memory and in
the snapshot (`IssuedBefore`), which a restart would otherwise break. The log only grows,
so a good route stays good (`SameLog`, `EvidenceStays`). The count of movements is the
cardinality of a set of steps, followed one element at a time. The last rests on the
invariant as well (the last step of a kept route is a place in the log) and adds that no
step of the open episode failed for good (`Mild`), since a failure closes the route.

That no execution is a step twice is an argument about what a restart takes back: the
outcomes stay in the log, but the experiences and the motion under way are the snapshot's.
`OnceInv` says that the executions of all steps are different, and that the motion under
way is not among them, once for what is in memory and once for what is in the snapshot,
and that no number is above `issued`, which a restart does not take back.

The type invariants of `Ledger`, `ExecutionJournal`, `Temporal`, `Attachment`, `Social`,
`Wait` and `Route`, and `TailIsSuffix`, `NoStaleAdvance` and `NoBidToContested`, are proved
and part of no run; so are `TerminalIsFinal`, `AgeNeverRewinds`,
`AttachmentHistory` and `OneOutcome`, whose substance the refinements of `BranchingWorld`,
`Lifetime`, `Bodies` and `Waits` contain.

Only model-checked is `FullTailIsServed`: liveness under fairness is beyond the prover. The
induction theorems of the library, which take an operator as a parameter, are beyond it
too; where a proof needs an induction it is made from the well-foundedness of the naturals,
over a set of numbers (`UpTo`), which reaches recursive functions but not RECURSIVE
operators, and the models have none of those.

## 6. Disagreements found

Two are runs that are expected to be violated; `PROJECT.json` quotes the lines.

* `RestartReattaches`: after a crash behind a commit, checkpoint plus tail is newer than
  the snapshot's binding, and the engine rebuilt from them is refused.
* `ContradictedByOpposite`: an episode contests, and may supersede, a belief in the same
  outcome under another rule, because the outcome is compared together with the rule.

Each of the following also has a configuration beside the runs, in which TLC finds the
property violated:

* `MCSocialSettles.cfg`, `NeverDoubleSettles`: a bid settled behind the snapshot is open again
  after a restart, because the pending bids are those of the snapshot and the ledger is
  never asked, and it is settled in the ledger a second time (`social/engine.py:1921`,
  against "never double-settles" at `social/engine.py:1924`).
* `MCRouteInterrupted.cfg`, `InterruptionsEndRoutes`: a verified action toward a kind without a
  terminal (orienting toward a hazard, which `arbitration.py:634` offers) stays in the middle
  of a route, which every other foreign action ends (`world_model/route_evidence.py:429`,
  against "switched [...] unrelated actions fail closed" in
  `.agent/tasks/active/UMBRA-AS-003P-R6B-R1/RESULT.md:11`).
* `MCHotTailBound.cfg`, `HotTailBounded`: a tail over its bound makes `snapshot_if_due`
  raise before the compaction that would cure it, and events outside ticks can take it there.
* `MCJournalReplay.cfg`, `ReplayReproducesState`: a plan with a cooldown has more mutations
  than events, so replay fails on the version.
* `MCJournalFork.cfg`, the same property without lossy plans: after a crash behind a commit
  the engine the snapshot is bound to is attached, a tick commits on it, and the ledger holds two
  events that start in the same state. No replay reproduces the final state, and the first
  change is gone from the habitat although its row is COMMITTED_SUCCESS
  (`docs/superpowers/specs/2026-07-23-umbra-d009-persistent-habitat-agency-design.md:678`,
  "Replay must reproduce the exact final habitat state hash";
  `docs/directives/UMBRA-D-009-persistent-habitat-agency.md:168`, "Organism-caused habitat
  change survives restart").
* `MCJournalEffects.cfg`, `EffectsExactlyOnce`: on_commit and `_finish_outcome` both apply
  the effect.
* `MCTemporalLog.cfg`, `LogReplays`: after a restart behind the ledger two records have the
  same prior version, so the whole ledger does not replay
  (`docs/directives/UMBRA-D-010-temporal-continuity.md:144`).
* `MCTemporalSession.cfg`, `ShortGapTrusted`: monotonic time is compared across sessions
  although it stands still while the process is down: only gaps within the tolerance
  survive a restart.
* `MCTemporalResample.cfg`, `TailReplays` with "resample": the record of a plan applied with
  another sample names a state the engine never had.
* `MCBodyOptional.cfg`, `RestartAccepted` under `SpecOptional`: a session without the adapter
  saves the occupancy it loaded from an old snapshot, and the next session with the adapter
  refuses to load (`runtime.py:3563`, against the comment at `runtime.py:3488`).
* `MCBodySlots.cfg`, `OneObjectPerSlot`: pick-up asks whether the object is free, not whether
  the slot is (`embodiment_adapters/adapter.py:346`).
* `MCMemoryProvenance.cfg`, `ProvenanceKept`: a belief goes on naming episodes that the
  archive has dropped (`docs/architecture/MEMORY_MODEL.md:16` asks for provenance).
* `MCWaitReconcile.cfg`, `ReconciledOrUnchanged`: a wait that ended after the plan was made
  stops the deltas behind it, when the record is already committed (`runtime.py:750`).

Further disagreements met while modelling, which no configuration reproduces.

*Journal and temporal engine.* A retry of a terminal
execution finds its outcome among hot events only, and gets none after compaction
(`execution_journal.py:486`); versions are not compared again inside the commit of a
manipulation (`execution_journal.py:578`); an abandoned reconciliation that is applied
all the same commits its record before the engine refuses it (`engine.py:407`, the action
`ApplyDropped`); evidence committed inside a tick changes the hash its prepared advance
names, so the tick's commit is refused (`events.py:294`), and evidence leaves no record
in the ledger, so replay of the records behind it fails on the prior hash.

*Body.* Detaching is allowed while objects are held; swap and detach leave them the
generation they were picked up with; a delayed motion is applied when its body is
detached by then; the version of an object is raised twice by a use or an activation; no
candidate ever places an object, so an object that is held blocks replacement for good; a
second motion overtakes the delayed one (`embodiment.py:1071`); a tick that fails to finish
a delayed outcome leaves its proposal behind.

*Social engine.* The UNIQUE guard of the links lets one episode support and contradict the
same partner; identities are used again after a rewind; `reconstruct_pending` is never
called, so a bid created behind the snapshot disappears without an event; nothing in
production calls `observe_outcome`; a newcomer may be the one retired when the table is
full.

*Wait.* Several open waits for one key are admitted; nothing in a session without downtime
ends a wait whose deadline has passed; the runtime gives governance no wait context, so
that every WAIT of a live organism is refused; refusing a suppressed wait prolongs the
suppression; eviction drops suppressions still in force.

*Memory.* The first episode that contradicts a belief seeds one of its own and leaves the
other as it was; corrections are not replayed, so a corrected original goes on supporting
what it showed; a newcomer may be the belief that is evicted, in every cycle anew;
`counts_bounded` can become false, as `replay_counts` is never pruned and protected
episodes may exceed the cap; replaying an episode counts its procedural attempt each time.

*Perception intake, not modelled.* An adapter's observation is accepted again
once it has left the window of 512 remembered ids, or after a restart behind the ledger,
and a later replay raises `perception_adapter_duplicate_acceptance`.

## 7. Not modelled

Everything marked `not_modelled` in `PROJECT.json`, with its reason: the components of the
plan's later steps; learned floating-point state (scores, estimates, traits), which is out
of reach of explicit-state checking except for its bounds; pure I/O, rendering,
measurement scripts and closed experiments. Of the social engine: routines, merge and
split, reliability and satiation numbers, the archive bound, the cap on cells, several
contexts and signals. Of memory: procedural skills and routines, working memory, retrieval,
social episodes, the ablation switches, the history of superseded beliefs. Deliberate corruption of the database is not
modelled: the chain check is shown never to fail on what the store itself wrote.

By lines, most of `src/` is outside: experiments, measurement tools, user interface and
tests around the core, and in the core long formulas over floating-point features,
serialisation and validation of records, whose properties are those of unit tests. What is
modelled are the parts where the order of steps, a crash or a bound decides.
