--------------------------- MODULE TemporalReplay ---------------------------
(***************************************************************************)
(* Replay of temporal records: a state rebuilt from the ledger, checked    *)
(* record by record against the hash of the state it was made for.         *)
(***************************************************************************)
EXTENDS Temporal

\* A replayed state and the hash it carries, which replay copies from records.
Replayed(t) == [ok |-> TRUE, st |-> t, hash |-> t]

\* The version, the hash and the age the record was made for.
Follows(r, record) ==
    /\ record.prior.version = r.st.version
    /\ record.prior = r.hash
    /\ record.prior.age = r.st.age

\* apply_advance_record: every field a tick changes is in its record.
AfterTick(t, new) ==
    [t EXCEPT !.age = new.age, !.active = new.active, !.seq = new.seq,
              !.version = new.version, !.anchor = new.anchor, !.mapping = new.mapping]

\* apply_downtime_reconciled_record: the clock mapping is not in the record, the
\* changes of expectations are.
AfterDowntime(t, prior, new) ==
    [t EXCEPT !.age = new.age, !.version = new.version, !.anchor = new.anchor,
              !.evidence = IF new.evidence = prior.evidence THEN @ ELSE new.evidence]

After(r, record) ==
    IF ~r.ok \/ ~Follows(r, record) THEN [r EXCEPT !.ok = FALSE]
    ELSE [ok   |-> TRUE,
          hash |-> record.new,
          st   |-> IF record.kind = "tick" THEN AfterTick(r.st, record.new)
                   ELSE AfterDowntime(r.st, record.prior, record.new)]

\* replay_temporal_state_from_events.  Two records of one advance or interval,
\* which it refuses, do not follow one another either.
ReplayFrom(t, records) ==
    LET upto[n \in 0..Len(records)] ==
            IF n = 0 THEN Replayed(t) ELSE After(upto[n - 1], records[n])
    IN  upto[Len(records)]

Reproduces(r) == r.ok /\ r.hash = st /\ r.st.age = st.age

Since == SubSeq(log, loaded.at + 1, Len(log))

\* The records of a session replay, from the state it started with, to the hash
\* and the age of the engine's state: whatever the runtime committed, the engine
\* installed, and nothing else.  Only as long as no evidence is committed: Observe
\* leaves no record, and the record after it is made for a hash replay cannot reach.
TailReplays == Reproduces(ReplayFrom(loaded.st, Since))

\* What a document says of the whole ledger: replay reconstructs age from
\* temporal events.
LogReplays == LET r == ReplayFrom(Genesis, log) IN r.ok /\ r.st.age = st.age

=============================================================================
