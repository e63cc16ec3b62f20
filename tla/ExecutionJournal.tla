--------------------------- MODULE ExecutionJournal ---------------------------
(***************************************************************************)
(* The execution journal of habitat manipulations: the PREPARED row that   *)
(* is inserted in autocommit mode, the transaction that writes habitat     *)
(* events, organism effects, the outcome and the terminal status, the      *)
(* installation of the new state in memory after its COMMIT, retries with  *)
(* the same execution id, and what a restart makes of all this from the    *)
(* restart snapshot, the ledger checkpoint and the hot events.             *)
(*                                                                         *)
(* A habitat state is the sequence of effects that led to it: hashes are   *)
(* collision free, every mutation raises the version, and the hash covers  *)
(* no execution id, so two executions with the same effect on the same     *)
(* state lead to the same state.  The identity of an execution stands for  *)
(* its whole canonical payload: the hash covers execution_id and           *)
(* request_id, and request_id is UNIQUE.                                   *)
(*                                                                         *)
(* A commit works on whatever state the engine has.  After a crash behind  *)
(* a commit that state may be older than the ledger's last one: the        *)
(* snapshot's is the only one attach_habitat_engine accepts.               *)
(***************************************************************************)
EXTENDS Naturals, FiniteSets, SequencesExt

CONSTANTS
    Executions,    \* execution ids
    Effects,       \* what an effect plan does
    EffectOf,      \* the effect of each execution
    Lossy,         \* effects that include a cooldown, which no event carries
    Yielding,      \* effects that include one on the organism
    Callers,       \* who commits: "api" (commit_manipulation), "tick" (tick_once)
    Budget,        \* Store.event_storage_budget, in hot events
    MaxCrashes     \* bound on crashes

ASSUME JournalAssumption ==
    /\ EffectOf \in [Executions -> Effects]
    /\ Lossy \subseteq Effects /\ Yielding \subseteq Effects
    /\ Callers \subseteq {"api", "tick"}
    /\ Budget \in Nat /\ MaxCrashes \in Nat

VARIABLES
    \* durable
    journal,    \* table habitat_execution_journal: status by execution
    hot,        \* the hot events of manipulations, in ledger order
    ckpt,       \* habitat state in the latest ledger checkpoint
    snap,       \* restart snapshot: habitat binding and physiology
    \* volatile
    engine,     \* "attached" to the organism, "required" after load_organism,
                \* "passed" to commit_manipulation by its caller, "lost" when down
    mem,        \* the state of the habitat engine
    phys,       \* how often each effect is in the physiology
    call,       \* the commit in progress
    \* held by the callers: survives a restart of the organism
    request,    \* expected state, validation and first caller of every request
    \* auxiliary
    applied,    \* executions committed as successes, in commit order
    worlds,     \* the habitat states they led to
    crashes     \* crashes so far

durable  == <<journal, hot, ckpt, snap>>
volatile == <<engine, mem, phys, call>>
vars     == <<durable, volatile, request, applied, worlds, crashes>>

Terminal    == {"COMMITTED_SUCCESS", "COMMITTED_FAILURE"}
Status      == {"absent", "PREPARED"} \cup Terminal
Validations == {"refused", "capped", "sound"}
Stages      == {"prepared", "install", "finish"}

NoCall  == [stage |-> "none"]
Serving == engine \in {"attached", "passed"}
Idle    == Serving /\ call = NoCall
NoBody  == [f \in Effects |-> 0]

HotEvent == [kind : {"habitat", "effect", "outcome", "summary"}, exec : Executions,
             prior : Seq(Effects), success : BOOLEAN]
Call     == [stage : Stages, exec : Executions, validation : Validations, caller : Callers]
Request  == [expected : Seq(Effects), validation : Validations \cup {"none"},
             caller : Callers \cup {"none"}]
Snapshot == [habitat : Seq(Effects), phys : [Effects -> Nat]]

Event(kind, e, ok) == [kind |-> kind, exec |-> e, prior |-> mem, success |-> ok]
After(event)       == Append(event.prior, EffectOf[event.exec])

\* The habitat event and the outcome of an execution are looked for among the hot
\* events only (list_habitat_events_for_execution,
\* find_habitat_execution_commit_evidence and get_verified_outcome_by_id).
EventOf(e)  == CHOOSE i \in DOMAIN hot : hot[i].kind = "habitat" /\ hot[i].exec = e
Evidence(e) == \E i \in DOMAIN hot : hot[i].kind = "outcome" /\ hot[i].exec = e

-----------------------------------------------------------------------------
(* Committing *)

\* A new request, validated against the engine's state; its PREPARED row is
\* durable at once.  A tick uses the attached engine.
Submit(e) ==
    /\ Idle
    /\ request[e].validation = "none"
    /\ \E v \in Validations, caller \in Callers :
        /\ caller = "tick" => engine = "attached"
        /\ request' = [request EXCEPT ![e] =
                          [expected |-> mem, validation |-> v, caller |-> caller]]
        /\ call' = [stage |-> "prepared", exec |-> e, validation |-> v, caller |-> caller]
    /\ journal' = [journal EXCEPT ![e] = "PREPARED"]
    /\ UNCHANGED <<hot, ckpt, snap, engine, mem, phys, applied, worlds, crashes>>

\* Mutant: the status of the row is not looked at.
RetryAnyStatus(e) ==
    /\ "api" \in Callers
    /\ Idle
    /\ journal[e] # "absent"
    /\ call' = [stage |-> "prepared", exec |-> e, validation |-> request[e].validation,
                caller |-> "api"]
    /\ UNCHANGED <<durable, engine, mem, phys, request, applied, worlds, crashes>>

\* commit_manipulation called again with an execution that is still PREPARED,
\* with its first validation or with a fresh one.
Retry(e) ==
    /\ "api" \in Callers
    /\ Idle
    /\ journal[e] = "PREPARED" /\ ~Evidence(e)
    /\ \E v \in {request[e].validation,
                 IF mem = request[e].expected THEN request[e].validation ELSE "refused"} :
        call' = [stage |-> "prepared", exec |-> e, validation |-> v, caller |-> "api"]
    /\ UNCHANGED <<durable, engine, mem, phys, request, applied, worlds, crashes>>

\* Every append checks the budget first.
Room == Budget - Len(hot)

SuccessEvents(e) ==
    IF EffectOf[e] \in Yielding
    THEN <<Event("habitat", e, TRUE), Event("effect", e, TRUE), Event("outcome", e, TRUE)>>
    ELSE <<Event("habitat", e, TRUE), Event("outcome", e, TRUE)>>

\* _commit_success up to COMMIT: one transaction, on the engine's present state.
CommitSuccess ==
    /\ call.stage = "prepared"
    /\ call.validation = "sound"
    /\ Len(SuccessEvents(call.exec)) <= Room
    /\ journal' = [journal EXCEPT ![call.exec] = "COMMITTED_SUCCESS"]
    /\ hot' = hot \o SuccessEvents(call.exec)
    /\ applied' = Append(applied, call.exec)
    /\ worlds' = worlds \cup {Append(mem, EffectOf[call.exec])}
    /\ call' = [call EXCEPT !.stage = "install"]
    /\ UNCHANGED <<ckpt, snap, engine, mem, phys, request, crashes>>

\* apply_physiology of an outcome.
Received(body, e) == IF EffectOf[e] \in Yielding THEN [body EXCEPT ![EffectOf[e]] = @ + 1] ELSE body

Returned == IF call.caller = "tick" THEN [call EXCEPT !.stage = "finish"] ELSE NoCall

\* on_commit: the engine and the physiology catch up after COMMIT.
Install ==
    /\ call.stage = "install"
    /\ mem' = Append(mem, EffectOf[call.exec])
    /\ phys' = Received(phys, call.exec)
    /\ call' = Returned
    /\ UNCHANGED <<durable, engine, request, applied, worlds, crashes>>

\* _commit_failure: refused by validation, by a collection cap, or because the
\* success does not fit in the budget and the failure does.
CommitFailure ==
    /\ call.stage = "prepared"
    /\ \/ call.validation # "sound"
       \/ Len(SuccessEvents(call.exec)) > Room
    /\ Room > 0
    /\ journal' = [journal EXCEPT ![call.exec] = "COMMITTED_FAILURE"]
    /\ hot' = Append(hot, Event("outcome", call.exec, FALSE))
    /\ call' = Returned
    /\ UNCHANGED <<ckpt, snap, engine, mem, phys, request, applied, worlds, crashes>>

\* Mutants: the outcome event was appended in autocommit mode and survives the
\* rollback; the engine was changed before COMMIT.
CommitRaisesAfterAppend ==
    /\ call.stage = "prepared" /\ Room > 0
    /\ hot' = Append(hot, Event("outcome", call.exec, TRUE))
    /\ call' = NoCall
    /\ UNCHANGED <<journal, ckpt, snap, engine, mem, phys, request, applied, worlds, crashes>>

CommitRaisesInstalled ==
    /\ call.stage = "prepared"
    /\ mem' = Append(mem, EffectOf[call.exec])
    /\ call' = NoCall
    /\ UNCHANGED <<durable, engine, phys, request, applied, worlds, crashes>>

\* The transaction raises (an infrastructure failure, or a budget with no room
\* even for the failure): the row stays PREPARED.
CommitRaises ==
    /\ call.stage = "prepared"
    /\ call' = NoCall
    /\ UNCHANGED <<durable, engine, mem, phys, request, applied, worlds, crashes>>

\* _finish_outcome, on the outcome execute_manipulation returned: physiology,
\* then an outcome_verified event without the execution id.
FinishOutcome ==
    /\ call.stage = "finish"
    /\ LET e  == call.exec
           ok == journal[e] = "COMMITTED_SUCCESS"
       IN
       /\ phys' = IF ok THEN Received(phys, e) ELSE phys
       /\ hot' = IF Room > 0 THEN Append(hot, Event("summary", e, ok)) ELSE hot
    /\ call' = NoCall
    /\ UNCHANGED <<journal, ckpt, snap, engine, mem, request, applied, worlds, crashes>>

-----------------------------------------------------------------------------
(* Retrying what is terminal *)

\* Mutant: an event is applied to whatever state there is.
ApplyUnchecked(replay, event) ==
    IF ~replay.ok \/ replay.state = After(event) THEN replay
    ELSE [ok |-> EffectOf[event.exec] \notin Lossy, state |-> After(event)]

\* _rehydrate_apply_event and apply_habitat_event: an event already accounted for
\* is skipped; else it must start from the present state, and applying it must
\* give the recorded state, which it does not when part of it was not recorded.
ApplyEvent(replay, event) ==
    IF ~replay.ok \/ replay.state = After(event) THEN replay
    ELSE [ok    |-> replay.state = event.prior /\ EffectOf[event.exec] \notin Lossy,
          state |-> After(event)]

\* What _maybe_rehydrate_committed_success makes of the engine's state, with the
\* effect plan of the caller's validation if there is one.
Rehydrated(e, planned) ==
    LET event == hot[EventOf(e)] IN
    IF planned /\ Append(mem, EffectOf[e]) = After(event)
    THEN [ok |-> TRUE, state |-> After(event)]
    ELSE ApplyEvent([ok |-> TRUE, state |-> mem], event)

NeedsRehydration(e) ==
    /\ journal[e] = "COMMITTED_SUCCESS" /\ Evidence(e)
    /\ mem # After(hot[EventOf(e)])

\* Mutant: only the habitat is brought up to date.
RehydrateHabitatOnly(e) ==
    /\ "api" \in Callers
    /\ Idle /\ NeedsRehydration(e)
    /\ Rehydrated(e, TRUE).ok
    /\ mem' = Rehydrated(e, TRUE).state
    /\ UNCHANGED <<durable, engine, phys, call, request, applied, worlds, crashes>>

\* A retry that finds the engine behind the committed success.  All other
\* retries of terminal executions change nothing.
Rehydrate(e) ==
    /\ "api" \in Callers
    /\ Idle /\ NeedsRehydration(e)
    /\ \E planned \in BOOLEAN :
        /\ Rehydrated(e, planned).ok
        /\ mem' = Rehydrated(e, planned).state
    /\ phys' = Received(phys, e)
    /\ UNCHANGED <<durable, engine, call, request, applied, worlds, crashes>>

-----------------------------------------------------------------------------
(* Snapshots, compaction, restart *)

\* snapshot_if_due runs in ticks, and a tick needs an attached engine.
SaveSnapshot ==
    /\ Idle /\ engine = "attached"
    /\ snap' = [habitat |-> mem, phys |-> phys]
    /\ UNCHANGED <<journal, hot, ckpt, volatile, request, applied, worlds, crashes>>

\* Mutant: the checkpoint is bound to the previous snapshot.
CompactStale ==
    /\ Idle /\ engine = "attached"
    /\ \A e \in Executions : journal[e] # "PREPARED"
    /\ snap' = [habitat |-> mem, phys |-> phys]
    /\ ckpt' = snap.habitat
    /\ hot' = <<>>
    /\ UNCHANGED <<journal, volatile, request, applied, worlds, crashes>>

\* Snapshot and compaction, which refuses to run over a PREPARED row.
Compact ==
    /\ Idle /\ engine = "attached"
    /\ \A e \in Executions : journal[e] # "PREPARED"
    /\ snap' = [habitat |-> mem, phys |-> phys]
    /\ ckpt' = mem
    /\ hot' = <<>>
    /\ UNCHANGED <<journal, volatile, request, applied, worlds, crashes>>

Crash ==
    /\ engine # "lost" /\ crashes < MaxCrashes
    /\ engine' = "lost"
    /\ mem' = <<>> /\ phys' = NoBody /\ call' = NoCall
    /\ crashes' = crashes + 1
    /\ UNCHANGED <<durable, request, applied, worlds>>

\* load_organism: physiology and habitat binding come from the snapshot; every
\* tick is refused until an engine is attached.
Load ==
    /\ engine = "lost"
    /\ engine' = "required"
    /\ phys' = snap.phys
    /\ UNCHANGED <<durable, mem, call, request, applied, worlds, crashes>>

\* The state rebuilt from the checkpoint and the habitat events among the first n.
ReplayedUpTo[n \in 0..Len(hot)] ==
    IF n = 0 THEN [ok |-> TRUE, state |-> ckpt]
    ELSE IF hot[n].kind = "habitat" THEN ApplyEvent(ReplayedUpTo[n - 1], hot[n])
    ELSE ReplayedUpTo[n - 1]

Replayed == ReplayedUpTo[Len(hot)]

\* restore_habitat_engine_from_checkpoint can build the state, and
\* attach_habitat_engine accepts it.
Restorable == Replayed.ok /\ Replayed.state = snap.habitat

RestoreEngine ==
    /\ engine = "required" /\ Restorable
    /\ engine' = "attached"
    /\ mem' = Replayed.state
    /\ UNCHANGED <<durable, phys, call, request, applied, worlds, crashes>>

\* attach_habitat_engine of a caller's own engine, passed before or not: it must be
\* in the state the snapshot is bound to, whatever the ledger holds beyond it.
AttachEngine ==
    /\ call = NoCall
    /\ \/ engine = "required"
       \/ engine = "passed" /\ mem = snap.habitat
    /\ engine' = "attached"
    /\ mem' = snap.habitat
    /\ UNCHANGED <<durable, phys, call, request, applied, worlds, crashes>>

\* The caller keeps the engine, in the state the snapshot is bound to, to itself and
\* passes it to commit_manipulation.
PassEngine ==
    /\ "api" \in Callers
    /\ engine = "required"
    /\ engine' = "passed"
    /\ mem' = snap.habitat
    /\ UNCHANGED <<durable, phys, call, request, applied, worlds, crashes>>

-----------------------------------------------------------------------------
\* A checkpoint of the initial habitat exists, and a snapshot bound to it.
Init ==
    /\ journal = [e \in Executions |-> "absent"]
    /\ hot = <<>> /\ ckpt = <<>>
    /\ snap = [habitat |-> <<>>, phys |-> NoBody]
    /\ engine = "attached" /\ mem = <<>> /\ phys = NoBody /\ call = NoCall
    /\ request = [e \in Executions |-> [expected |-> <<>>, validation |-> "none", caller |-> "none"]]
    /\ applied = <<>> /\ worlds = {<<>>} /\ crashes = 0

Next ==
    \/ \E e \in Executions : Submit(e) \/ Retry(e) \/ Rehydrate(e)
    \/ CommitSuccess \/ Install \/ CommitFailure \/ CommitRaises \/ FinishOutcome
    \/ SaveSnapshot \/ Compact
    \/ Crash \/ Load \/ RestoreEngine \/ AttachEngine \/ PassEngine

Spec == Init /\ [][Next]_vars

-----------------------------------------------------------------------------
(* Properties *)

TypeOK ==
    /\ journal \in [Executions -> Status]
    /\ hot \in Seq(HotEvent)
    /\ ckpt \in Seq(Effects) /\ snap \in Snapshot
    /\ engine \in {"attached", "passed", "required", "lost"}
    /\ mem \in Seq(Effects) /\ phys \in [Effects -> Nat]
    /\ call \in Call \cup {NoCall}
    /\ request \in [Executions -> Request]
    /\ applied \in Seq(Executions) /\ worlds \subseteq Seq(Effects) /\ crashes \in Nat

\* How often x occurs in s.
Times(s, x) == Cardinality({i \in 1..Len(s) : s[i] = x})

\* "Committed success cannot mutate habitat again": however often it is retried,
\* by whatever path, an execution enters the committed history at most once; one
\* whose terminal status is a failure, or undecided, never does.
MutatesAtMostOnce ==
    \A e \in Executions :
        Times(applied, e) = IF journal[e] = "COMMITTED_SUCCESS" THEN 1 ELSE 0

\* "Committed failure cannot later execute under the same ID", nor is a success
\* ever taken back.
TerminalIsFinal ==
    [][\A e \in Executions : journal[e] \in Terminal => journal'[e] = journal[e]]_vars

\* The verdict on an execution that its row stands for.
Verdict(e) ==
    CASE journal[e] = "COMMITTED_SUCCESS" -> "success"
      [] journal[e] = "COMMITTED_FAILURE" -> "failure"
      [] OTHER -> "open"

\* What the engine shows, and what it will show once the commit is installed.
Shown == IF Serving THEN mem ELSE <<>>
Tip   == IF call.stage = "install" THEN Append(mem, EffectOf[call.exec]) ELSE Shown

World == INSTANCE BranchingWorld WITH
    verdict <- [e \in Executions |-> Verdict(e)],
    seen    <- Shown,
    tip     <- Tip

\* Through retries, crashes, restarts and engines behind the ledger, executions take
\* effect at most once, on committed states only, and one after the other as long as
\* an engine lives.
ImplementsWorld == World!WorldSpec

\* A row that is still PREPARED has left no outcome behind, and an outcome in the
\* ledger says what its row says: recovery never has to guess.
PreparedHasNoEvidence ==
    \A i \in 1..Len(hot) :
        hot[i].kind = "outcome" =>
            journal[hot[i].exec] =
                IF hot[i].success THEN "COMMITTED_SUCCESS" ELSE "COMMITTED_FAILURE"

\* The status of an execution is the truth about it: the committed habitat history
\* and the outcomes in the ledger both agree with its row.
StatusIsTruth == MutatesAtMostOnce /\ PreparedHasNoEvidence

\* The states the ledger records: the checkpoint's, and those habitat events end in.
HabitatEvents == {i \in DOMAIN hot : hot[i].kind = "habitat"}
Recorded      == {ckpt} \cup {After(hot[i]) : i \in HabitatEvents}

\* Engines that lag may fork the habitat's history, but never leave it: every habitat
\* event starts in the checkpoint's state or in one an earlier event ended in, and
\* the restart snapshot is bound to such a state, through every compaction.
HistoryGrounded ==
    /\ snap.habitat \in Recorded
    /\ \A i \in HabitatEvents :
        hot[i].prior # ckpt => \E j \in HabitatEvents : j < i /\ hot[i].prior = After(hot[j])

\* The engine in use shows a state the ledger records, whatever failed, was rolled
\* back, retried or reloaded: no state is ever seen that no commit led to.
EngineOnRecord == Serving => mem \in Recorded

\* A restore that succeeds loses nothing: the state rebuilt from checkpoint and tail
\* extends every state they record.  A ledger that forked into different states is
\* refused, never resolved in favour of one of them.
ReplayLosesNothing == Replayed.ok => \A s \in Recorded : IsPrefix(s, Replayed.state)

\* What ticks requested is left to EffectsExactlyOnce.
FromCalls(f) == \A e \in Executions : EffectOf[e] = f => request[e].caller # "tick"

\* What the organism's body has received is what the engine's world has given up:
\* an effect is in the physiology as often as in the engine's state, through
\* failures, rehydration, snapshots that lag and restarts.
EffectsMatchHabitat ==
    Serving =>
        \A f \in Yielding : FromCalls(f) => phys[f] = Times(mem, f)

\* "Exactly-once": a tick's effect never enters the physiology more often than the
\* habitat has it.
EffectsExactlyOnce ==
    Serving => \A f \in Yielding : phys[f] <= Times(mem, f)

\* "Replay must reproduce the exact final habitat state hash."
ReplayReproducesState ==
    LET final == IF HabitatEvents = {} THEN ckpt ELSE After(hot[Max(HabitatEvents)])
    IN  Replayed.ok /\ Replayed.state = final

\* A restarted organism can get its habitat back from checkpoint and tail.
RestartReattaches == engine = "required" => Restorable
=============================================================================
