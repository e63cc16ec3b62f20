------------------------------- MODULE Ledger -------------------------------
(***************************************************************************)
(* The SQLite store of an organism: the hash-linked table of hot events,   *)
(* the snapshots, the ledger checkpoints that replace a compacted prefix   *)
(* and the provenance rows they carry, together with the maintenance that  *)
(* Organism.snapshot_if_due runs over them.  Every statement that runs in  *)
(* autocommit mode is an action of its own, a BEGIN IMMEDIATE .. COMMIT    *)
(* block is one action, and the process may die between any two of them.   *)
(* A transaction that rolls back changes no table: it is a stutter.        *)
(*                                                                         *)
(* Hashes are collision free, so the hash of an event is the identity that *)
(* new_id() gave it; identities are never reissued.                        *)
(***************************************************************************)
EXTENDS LedgerConfig, Sequences, FiniteSets

CONSTANTS
    Types,             \* event types that the properties tell apart
    ProtectedTypes,    \* ATTACHMENT_EVENT_TYPES
    BodyReplaced,      \* the type of the event replace_physical_body appends
    KeepCheckpoints,   \* config.ledger_checkpoint_keep
    RetainSnapshots,   \* SNAPSHOT_RETAIN_COUNT
    MaxIds,            \* bound on identities issued
    MaxCrashes,        \* bound on crashes
    MaxRefs            \* bound on event ids retained by live material state

ASSUME LedgerAssumption ==
    /\ ProtectedTypes \subseteq Types
    /\ BodyReplaced \in ProtectedTypes
    /\ KeepCheckpoints \in Nat \ {0}
    /\ RetainSnapshots \in Nat \ {0}
    /\ MaxIds \in Nat /\ MaxCrashes \in Nat /\ MaxRefs \in Nat

VARIABLES
    \* durable
    hot,        \* table events
    tip,        \* meta row ledger_tip
    snaps,      \* table snapshots
    latest,     \* meta row latest_snapshot, NoId before the first snapshot
    ckpts,      \* table ledger_checkpoints
    prov,       \* table checkpoint_provenance
    prepared,   \* does habitat_execution_journal hold a PREPARED row?
    \* volatile
    up,         \* is the organism process running?
    pc,         \* where maintenance is
    victim,     \* snapshot of the checkpoint row just deleted
    refs,       \* event ids that live material state retains
    \* auxiliary
    history,    \* every event ever committed
    issued,     \* identities issued so far
    crashes     \* crashes so far

durable  == <<hot, tip, snaps, latest, ckpts, prov, prepared>>
tables   == <<hot, tip, ckpts, prov, history>>
vars     == <<durable, up, pc, victim, refs, history, issued, crashes>>

NoId    == 0      \* "genesis", or a missing meta row
NewId   == issued + 1

Event      == [seq : Nat, id : Nat, type : Types, prev : Nat]
Snapshot   == [id : Nat, seq : Nat, refs : SUBSET Nat, prot : BOOLEAN]
Checkpoint == [epoch : Nat, start : Nat, end : Nat, count : Nat, term : Nat, snap : Nat]
Provenance == [epoch : Nat, kind : {"type", "ref"}, ev : Event]

Phases == {"idle", "saved", "maintain", "dropProvenance", "dropCheckpoint",
           "unprotect", "prune", "repoint", "resume"}

-----------------------------------------------------------------------------
(* Lookups *)

\* The greatest row of a non-empty table, by sequence.
LastHot == CHOOSE e \in hot : \A f \in hot : f.seq <= e.seq

LatestCheckpoint == CHOOSE c \in ckpts : \A d \in ckpts : d.epoch <= c.epoch

CompactedEnd == IF ckpts = {} THEN 0 ELSE LatestCheckpoint.end

LastSequence == IF hot # {} THEN LastHot.seq ELSE CompactedEnd

\* Mutant: a compacted ledger starts again from "genesis".
LastHashOfTable == IF hot # {} THEN LastHot.id ELSE NoId

LastEventHash ==
    IF hot # {} THEN LastHot.id
    ELSE IF ckpts = {} THEN NoId ELSE LatestCheckpoint.term

\* checkpoint_provenance() of the latest checkpoint.
LiveProvenance ==
    IF ckpts = {} THEN {} ELSE {p \in prov : p.epoch = LatestCheckpoint.epoch}

\* last_event_of_types((t,)): the newest in the hot table or in the latest
\* checkpoint's provenance.
\* Mutant: only the hot table is searched.
HotCandidates(t) == {e \in hot : e.type = t}

Candidates(t) == {e \in hot \cup {p.ev : p \in LiveProvenance} : e.type = t}
LastEventOfType(t) ==
    CHOOSE e \in Candidates(t) : \A f \in Candidates(t) : f.seq <= e.seq

SnapshotOf(id) == CHOOSE s \in snaps : s.id = id
Loadable(id)   == \E s \in snaps : s.id = id

\* ORDER BY sequence DESC, rowid DESC; rows are inserted in the order in which
\* their identities were issued.
Newer(s, t) == s.seq > t.seq \/ (s.seq = t.seq /\ s.id > t.id)

Newest(S) == CHOOSE s \in S : \A t \in S : t = s \/ Newer(s, t)

HotTail        == LastSequence - CompactedEnd
MaintenanceDue == HotTail >= HotTailMax - PerTick

\* validate_chain: the latest checkpoint is anchored in a snapshot it can load,
\* the tail is gap free and hash linked from the checkpoint's terminal hash (or
\* genesis), and the tip in meta is the last of them.
ValidateChain ==
    LET first == CompactedEnd + 1
        final == CompactedEnd + Cardinality(hot)
        At(n) == CHOOSE e \in hot : e.seq = n
    IN
    /\ ckpts # {} => \E s \in snaps : /\ s.id = LatestCheckpoint.snap
                                      /\ s.seq >= LatestCheckpoint.end
    /\ {e.seq : e \in hot} = first..final
    /\ \A e \in hot :
          e.prev = IF e.seq > first THEN At(e.seq - 1).id
                   ELSE IF ckpts = {} THEN NoId ELSE LatestCheckpoint.term
    /\ tip = [seq |-> final, hash |-> LastEventHash]

-----------------------------------------------------------------------------
(* Appending *)

NextEvent(t) == [seq |-> LastSequence + 1, id |-> NewId, type |-> t, prev |-> LastEventHash]

InsertEvent(t) ==
    /\ hot' = hot \cup {NextEvent(t)}
    /\ tip' = [seq |-> LastSequence + 1, hash |-> NewId]
    /\ history' = Append(history, NextEvent(t))

Running(phase) == up /\ pc = phase

\* append_event in a transaction that commits.  An owner of material state
\* (memory, support interval, attachment) may retain the event's id.
AppendEvent(t) ==
    /\ Running("idle") /\ NewId <= MaxIds
    /\ InsertEvent(t)
    /\ issued' = NewId
    /\ \/ refs' = refs
       \/ Cardinality(refs) < MaxRefs /\ refs' = refs \cup {NewId}
    /\ UNCHANGED <<snaps, latest, ckpts, prov, prepared, up, pc, victim, crashes>>

\* An owner stops retaining an event id.
ForgetReference ==
    /\ Running("idle")
    /\ \E r \in refs : refs' = refs \ {r}
    /\ UNCHANGED <<durable, up, pc, victim, history, issued, crashes>>

\* Mutant: the snapshot is taken before the event is appended.
BodySnapshotEarly ==
    [id |-> issued + 2, seq |-> LastSequence, refs |-> refs, prot |-> FALSE]

BodySnapshot ==
    [id |-> issued + 2, seq |-> LastSequence + 1, refs |-> refs, prot |-> FALSE]

\* replace_physical_body: the replacement event and a snapshot at it, in one
\* transaction; refused while a habitat execution is PREPARED.
ReplaceBody ==
    /\ Running("idle") /\ issued + 2 <= MaxIds
    /\ ~prepared /\ ValidateChain
    /\ \E t \in ProtectedTypes : Candidates(t) # {}
    /\ InsertEvent(BodyReplaced)
    /\ snaps' = snaps \cup {BodySnapshot}
    /\ latest' = issued + 2
    /\ issued' = issued + 2
    /\ UNCHANGED <<ckpts, prov, prepared, up, pc, victim, refs, crashes>>

\* The execution journal inserts or finishes a PREPARED row.
SetPrepared ==
    /\ Running("idle")
    /\ prepared' = ~prepared
    /\ UNCHANGED <<hot, tip, snaps, latest, ckpts, prov, up, pc, victim, refs,
                   history, issued, crashes>>

-----------------------------------------------------------------------------
(* snapshot_if_due *)

\* save_snapshot, first statement.  A tail beyond its bound is refused.
SaveSnapshot ==
    /\ Running("idle") /\ NewId <= MaxIds
    /\ HotTail <= HotTailMax
    /\ snaps' = snaps \cup {[id |-> NewId, seq |-> LastSequence, refs |-> refs, prot |-> FALSE]}
    /\ issued' = NewId
    /\ pc' = "saved"
    /\ UNCHANGED <<tables, latest, prepared, up, victim, refs, crashes>>

\* save_snapshot, second statement; then compaction or plain pruning.
PointToSnapshot ==
    /\ Running("saved")
    /\ latest' = issued
    /\ pc' = IF MaintenanceDue THEN "maintain" ELSE "prune"
    /\ UNCHANGED <<tables, snaps, prepared, up, victim, refs, issued, crashes>>

\* compact_authoritative_prefix refuses while a habitat execution is PREPARED;
\* the exception skips the pruning as well.
RefuseCompaction ==
    /\ Running("maintain") /\ prepared
    /\ pc' = "idle"
    /\ UNCHANGED <<durable, up, victim, refs, history, issued, crashes>>

\* Nothing follows the compacted prefix.
NothingToCompact ==
    /\ Running("maintain") /\ ~prepared
    /\ LastSequence = CompactedEnd
    /\ pc' = "idle"
    /\ UNCHANGED <<durable, up, victim, refs, history, issued, crashes>>

NextEpoch == IF ckpts = {} THEN 1 ELSE LatestCheckpoint.epoch + 1

\* Type anchors are always carried; an event named by the snapshot is carried
\* from the hot table or from the previous checkpoint's active provenance.
ProvenanceOf(snapRefs, found) ==
    {[epoch |-> NextEpoch, kind |-> "type", ev |-> LastEventOfType(t)] :
        t \in {u \in ProtectedTypes : Candidates(u) # {}}}
    \cup
    {[epoch |-> NextEpoch, kind |-> "ref", ev |-> e] : e \in {f \in found : f.id \in snapRefs}}

\* Mutant: references are looked up in the hot table alone.
CarriedFromHot(snapRefs) == ProvenanceOf(snapRefs, hot)

CarriedProvenance(snapRefs) ==
    ProvenanceOf(snapRefs, hot \cup {p.ev : p \in {q \in LiveProvenance : q.kind = "ref"}})

\* The checkpoint envelope.
CheckpointFrom(s, start, count) ==
    [epoch |-> NextEpoch, start |-> start, end |-> s.seq, count |-> count,
     term |-> LastEventHash, snap |-> s.id]

NewCheckpoint(s) == CheckpointFrom(s, CompactedEnd + 1, Cardinality(hot))

Uncompacted(s) == {e \in hot : e.seq > s.seq}

\* The compaction transaction.
Compact ==
    /\ Running("maintain") /\ ~prepared /\ ValidateChain
    /\ LastSequence > CompactedEnd
    /\ \E s \in snaps :
        /\ s.id = latest
        /\ s.seq = LastSequence
        /\ ckpts' = ckpts \cup {NewCheckpoint(s)}
        /\ snaps' = (snaps \ {s}) \cup {[s EXCEPT !.prot = TRUE]}
        /\ prov' = prov \cup CarriedProvenance(s.refs)
        /\ hot' = Uncompacted(s)
    /\ pc' = "dropProvenance"
    /\ UNCHANGED <<tip, latest, prepared, up, victim, refs, history, issued, crashes>>

\* old_rows[keep_checkpoints - 1:], newest epoch first.
Expired == {c \in ckpts : Cardinality({d \in ckpts : d.epoch > c.epoch}) >= KeepCheckpoints}
NextExpired == CHOOSE c \in Expired : \A d \in Expired : d.epoch <= c.epoch

DropProvenance ==
    /\ Running("dropProvenance") /\ Expired # {}
    /\ prov' = {p \in prov : p.epoch # NextExpired.epoch}
    /\ pc' = "dropCheckpoint"
    /\ UNCHANGED <<hot, tip, snaps, latest, ckpts, prepared, up, victim, refs,
                   history, issued, crashes>>

DropCheckpoint ==
    /\ Running("dropCheckpoint")
    /\ ckpts' = ckpts \ {NextExpired}
    /\ victim' = NextExpired.snap
    /\ pc' = "unprotect"
    /\ UNCHANGED <<hot, tip, snaps, latest, prov, prepared, up, refs, history,
                   issued, crashes>>

Unprotect ==
    /\ Running("unprotect")
    /\ snaps' = IF \E c \in ckpts : c.snap = victim THEN snaps
                ELSE {IF s.id = victim THEN [s EXCEPT !.prot = FALSE] ELSE s : s \in snaps}
    /\ pc' = "dropProvenance"
    /\ UNCHANGED <<tables, latest, prepared, up, victim, refs, issued, crashes>>

AnchorsTrimmed ==
    /\ Running("dropProvenance") /\ Expired = {}
    /\ pc' = "prune"
    /\ UNCHANGED <<durable, up, victim, refs, history, issued, crashes>>

\* prune_snapshots(keep = RetainSnapshots), one DELETE at a time, newest first.
\* Mutant: protected snapshots are pruned like any other.
EverySnapshot == snaps

Ordinary  == {s \in snaps : ~s.prot}
Droppable == {s \in Ordinary : Cardinality({t \in Ordinary : Newer(t, s)}) >= RetainSnapshots}

PruneOne ==
    /\ up /\ pc \in {"prune", "repoint"} /\ Droppable # {}
    /\ snaps' = snaps \ {Newest(Droppable)}
    /\ pc' = "repoint"
    /\ UNCHANGED <<tables, latest, prepared, up, victim, refs, issued, crashes>>

\* The early return when there is nothing to drop.
NothingToPrune ==
    /\ Running("prune") /\ Droppable = {}
    /\ pc' = "idle"
    /\ UNCHANGED <<durable, up, victim, refs, history, issued, crashes>>

\* Mutant: a protected snapshot is not considered.
RepointToOrdinary ==
    /\ Running("repoint") /\ Droppable = {}
    /\ latest' = Newest(Ordinary).id
    /\ pc' = "idle"
    /\ UNCHANGED <<tables, snaps, prepared, up, victim, refs, issued, crashes>>

\* The newest snapshot, a protected one included, stays the restart point.
Repoint ==
    /\ Running("repoint") /\ Droppable = {}
    /\ latest' = Newest(snaps).id
    /\ pc' = "idle"
    /\ UNCHANGED <<tables, snaps, prepared, up, victim, refs, issued, crashes>>

-----------------------------------------------------------------------------
(* Process failure *)

\* The process dies, or leaves after an exception or a close.
Crash ==
    /\ up /\ crashes < MaxCrashes
    /\ up' = FALSE
    /\ pc' = "idle"
    /\ victim' = NoId
    /\ refs' = {}
    /\ crashes' = crashes + 1
    /\ UNCHANGED <<durable, history, issued>>

\* load_organism of an organism with an embodiment adapter: without a snapshot it
\* raises no_snapshot, and it fails closed on a broken chain.
Restart ==
    /\ ~up /\ Loadable(latest) /\ ValidateChain
    /\ up' = TRUE
    /\ refs' = SnapshotOf(latest).refs
    /\ pc' = "resume"
    /\ UNCHANGED <<durable, victim, history, issued, crashes>>

\* The runtime_ready event that ends load_organism.
EmitReady(t) ==
    /\ Running("resume") /\ NewId <= MaxIds
    /\ t \notin ProtectedTypes
    /\ InsertEvent(t)
    /\ issued' = NewId
    /\ pc' = "idle"
    /\ UNCHANGED <<snaps, latest, ckpts, prov, prepared, up, victim, refs, crashes>>

-----------------------------------------------------------------------------
Init ==
    /\ hot = {} /\ tip = [seq |-> 0, hash |-> NoId]
    /\ snaps = {} /\ latest = NoId
    /\ ckpts = {} /\ prov = {}
    /\ prepared = FALSE
    /\ up = TRUE /\ pc = "idle" /\ victim = NoId
    /\ refs = {} /\ history = <<>>
    /\ issued = 0 /\ crashes = 0

Trim     == DropProvenance \/ DropCheckpoint \/ Unprotect \/ AnchorsTrimmed
Prune    == PruneOne \/ NothingToPrune \/ Repoint
Maintain == SaveSnapshot \/ PointToSnapshot \/ RefuseCompaction \/ NothingToCompact \/ Compact

Next ==
    \/ \E t \in Types : AppendEvent(t)
    \/ ForgetReference
    \/ ReplaceBody
    \/ SetPrepared
    \/ Maintain
    \/ Trim
    \/ Prune
    \/ Crash
    \/ Restart
    \/ \E t \in Types : EmitReady(t)

Spec == Init /\ [][Next]_vars

-----------------------------------------------------------------------------
(* Properties *)

TypeOK ==
    /\ hot \subseteq Event
    /\ tip \in [seq : Nat, hash : Nat]
    /\ snaps \subseteq Snapshot
    /\ latest \in Nat
    /\ ckpts \subseteq Checkpoint
    /\ prov \subseteq Provenance
    /\ prepared \in BOOLEAN
    /\ up \in BOOLEAN
    /\ pc \in Phases
    /\ victim \in Nat
    /\ refs \subseteq Nat
    /\ history \in Seq(Event)
    /\ issued \in Nat
    /\ crashes \in Nat

\* The chain check that load_organism, compaction and body replacement fail
\* closed on never fails on a database the store wrote itself, whatever the
\* crashes: no restart is refused because of an interrupted maintenance.
ChainNeverBreaks == ValidateChain

\* The hot table is exactly the part of the committed history after the latest
\* checkpoint, and the checkpoint's end is a position of that history: compaction
\* neither loses a tail event nor renumbers one (the docstring of
\* compact_authoritative_prefix: "Sequences are never renumbered").
TailIsSuffix ==
    /\ CompactedEnd <= Len(history)
    /\ hot = {history[i] : i \in (CompactedEnd + 1)..Len(history)}
    /\ \A i \in 1..Len(history) : history[i].seq = i

\* The restart point can always be loaded and never lies before the compacted
\* prefix: load_organism does not resume from a state whose continuation has been
\* deleted.
RestartPointSound ==
    latest # NoId => \E s \in snaps : /\ s.id = latest
                                      /\ CompactedEnd <= s.seq
                                      /\ s.seq <= LastSequence

\* Neither pruning nor trimming, interrupted anywhere, takes the snapshot of a
\* checkpoint row that is still there.
AnchorsRetained ==
    \A c \in ckpts : \E s \in snaps : s.id = c.snap /\ s.prot /\ s.seq = c.end

\* An event id that live material state, or the state a restart would load,
\* still names can be resolved: in the hot table or in the provenance of the
\* latest checkpoint.
ReferencesResolvable ==
    \A r \in refs \cup UNION {s.refs : s \in {t \in snaps : t.id = latest}} :
        \E e \in hot \cup {p.ev : p \in LiveProvenance} : e.id = r

\* The attachment events from which load_organism rebuilds the body survive
\* every compaction: the lookup by type answers with the last one ever committed.
LastAttachmentFound ==
    \A t \in ProtectedTypes :
        LET all == {i \in 1..Len(history) : history[i].type = t} IN
        all # {} => /\ Candidates(t) # {}
                    /\ \A i \in all : history[i].seq <= LastEventOfType(t).seq
                    /\ \E i \in all : history[i] = LastEventOfType(t)

\* The store implements the append-only log of EventLog.
Log == INSTANCE EventLog WITH
    log    <- [i \in 1..Len(history) |-> history[i].id],
    base   <- CompactedEnd,
    resume <- IF Loadable(latest) THEN SnapshotOf(latest).seq ELSE 0

\* Whatever the interleaving of appends, maintenance, crashes and restarts, an
\* observer sees a log that only grows, whose forgotten prefix only grows and
\* never passes the restart point.
ImplementsLog == Log!LogSpec
=============================================================================
