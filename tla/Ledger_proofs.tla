---------------------------- MODULE Ledger_proofs ----------------------------
(***************************************************************************)
(* Proofs about Ledger, for every value of its constants: the chain check  *)
(* never fails, compaction loses nothing, the restart point and the        *)
(* snapshots of the checkpoints are kept, and the store implements the     *)
(* append-only log of EventLog.                                            *)
(*                                                                         *)
(* One inductive invariant, IInv, carries all of them.  Its heart is the   *)
(* relation of the tables to the history: identities grow along the        *)
(* history, the hot table is a suffix of it, every checkpoint ends at a    *)
(* position of it.  Pruning and trimming work on the snapshots alone; that *)
(* they spare the restart point follows from FreshSnapshot, the snapshot   *)
(* with which maintenance started being newer than all others.             *)
(*                                                                         *)
(* The last section is about the counts of the hot tail, HotTail.          *)
(***************************************************************************)
EXTENDS Ledger, HotTail, TLAPS, FiniteSetTheorems, WellFoundedInduction, SequenceTheorems

-----------------------------------------------------------------------------
(* Greatest elements *)

\* A bounded, non-empty set of naturals has a greatest element: the ranges above
\* its elements are finite sets, so one of them is minimal under inclusion.
LEMMA MaxExists ==
    ASSUME NEW S \in SUBSET Nat, S # {}, NEW b \in Nat, \A x \in S : x <= b
    PROVE  \E m \in S : \A x \in S : x <= m
<1> DEFINE Above(x) == (x + 1)..b
           T        == {Above(x) : x \in S}
<1>1. T \subseteq FiniteSubsetsOf(Nat) /\ T # {}
  <2>1. \A x \in S : Above(x) \subseteq Nat /\ IsFiniteSet(Above(x))
    <3> TAKE x \in S
    <3>1. x + 1 \in Int /\ b \in Int
      OBVIOUS
    <3>2. IsFiniteSet(Above(x))
      BY <3>1, FS_Interval
    <3>3. QED
      BY <3>2
  <2>2. QED
    BY <2>1 DEF FiniteSubsetsOf
<1>2. IsWellFoundedOn(StrictSubsetOrdering(Nat), FiniteSubsetsOf(Nat))
  BY FS_StrictSubsetOrderingWellFounded
<1> HIDE DEF T
<1>3. PICK s \in T : \A t \in T : ~(<<t, s>> \in StrictSubsetOrdering(Nat))
  BY <1>1, <1>2, WFMin
<1> USE DEF T
<1>4. PICK m \in S : s = Above(m)
  BY <1>3
<1>5. ASSUME NEW x \in S, m < x PROVE FALSE
  <2>1. Above(x) \in T
    OBVIOUS
  <2>2. x \in Above(m) /\ x \notin Above(x) /\ Above(x) \subseteq Above(m)
    BY <1>5
  <2>3. <<Above(x), s>> \in StrictSubsetOrdering(Nat)
    BY <2>2, <1>1, <1>4, <2>1 DEF StrictSubsetOrdering, FiniteSubsetsOf
  <2>4. QED
    BY <1>3, <2>1, <2>3
<1>6. QED
  BY <1>5

LEMMA LatestExists ==
    ASSUME NEW C, C # {}, NEW b \in Nat,
           \A c \in C : c.epoch \in Nat /\ c.epoch <= b
    PROVE  \E c \in C : \A d \in C : d.epoch <= c.epoch
<1> DEFINE S == {c.epoch : c \in C}
<1>1. S \in SUBSET Nat /\ S # {} /\ \A x \in S : x <= b
  OBVIOUS
<1>2. PICK m \in S : \A x \in S : x <= m
  BY <1>1, MaxExists
<1>3. QED
  BY <1>2

LEMMA NewestExists ==
    ASSUME NEW S \in SUBSET Snapshot, S # {}, NEW b \in Nat, NEW n \in Nat,
           \A s \in S : s.seq <= b /\ s.id <= n,
           \A s, t \in S : s.id = t.id => s = t
    PROVE  /\ Newest(S) \in S
           /\ \A t \in S : t = Newest(S) \/ Newer(Newest(S), t)
<1> DEFINE Seqs == {s.seq : s \in S}
<1>1. Seqs \in SUBSET Nat /\ Seqs # {} /\ \A x \in Seqs : x <= b
  BY DEF Snapshot
<1>2. PICK m \in Seqs : \A x \in Seqs : x <= m
  BY <1>1, MaxExists
<1> DEFINE Ids == {s.id : s \in {t \in S : t.seq = m}}
<1>3. Ids \in SUBSET Nat /\ Ids # {} /\ \A x \in Ids : x <= n
  BY <1>2 DEF Snapshot
<1> HIDE DEF Ids
<1>4. PICK k \in Ids : \A x \in Ids : x <= k
  BY <1>3, MaxExists
<1> USE DEF Ids
<1>5. PICK s \in S : s.seq = m /\ s.id = k
  BY <1>4
<1>6. \A t \in S : t = s \/ Newer(s, t)
  <2> TAKE t \in S
  <2>1. t.seq \in Nat /\ t.id \in Nat /\ s.seq \in Nat /\ s.id \in Nat
    BY DEF Snapshot
  <2>2. t.seq <= m
    BY <1>2
  <2>3. t.seq = m => t.id <= k
    BY <1>4
  <2>4. QED
    BY <1>5, <2>1, <2>2, <2>3 DEF Newer
<1>7. QED
  BY <1>6 DEF Newest

-----------------------------------------------------------------------------
(* The inductive invariant *)

\* The identity of the n-th event ever committed; that of none is "genesis".
TipId(n) == IF n = 0 THEN NoId ELSE history[n].id

\* Events were committed in order, each with a fresh identity, each linked to the
\* one before.
HistoryOK ==
    \A i \in 1..Len(history) :
        /\ history[i].seq = i
        /\ history[i].id \in 1..issued
        /\ history[i].prev = TipId(i - 1)
        /\ \A j \in 1..Len(history) : i < j => history[i].id < history[j].id

\* The hot table is the uncompacted part of it, and meta knows where it ends.
TailOK ==
    /\ CompactedEnd <= Len(history)
    /\ hot = {history[i] : i \in (CompactedEnd + 1)..Len(history)}
    /\ tip = [seq |-> Len(history), hash |-> TipId(Len(history))]

\* Later epochs end later, and every checkpoint is anchored in a snapshot of its
\* end and in the identity of the event there.
CheckpointsOK ==
    /\ \A c \in ckpts :
        /\ 1 <= c.epoch /\ c.epoch <= c.end /\ c.end <= Len(history)
        /\ c.term = TipId(c.end)
    /\ \A c, d \in ckpts :
        /\ c.epoch = d.epoch => c = d
        /\ c.epoch < d.epoch => c.end < d.end

\* Provenance is authentic.
ProvenanceOK == \A p \in prov : \E i \in 1..Len(history) : p.ev = history[i]

SnapshotsOK ==
    /\ \A s \in snaps : s.id \in 1..issued /\ s.seq <= Len(history)
    /\ \A s, t \in snaps : s.id = t.id => s = t

\* While maintenance runs, the snapshot it started with is the newest of all.
FreshSnapshot == \E s \in snaps : s.id = issued /\ s.seq = Len(history)

PhaseOK ==
    /\ pc \notin {"idle", "resume"} => FreshSnapshot
    /\ pc \notin {"idle", "resume", "saved"} => latest = issued
    /\ pc = "dropCheckpoint" => Expired # {}

IInv ==
    /\ TypeOK
    /\ HistoryOK /\ TailOK /\ CheckpointsOK /\ AnchorsRetained
    /\ ProvenanceOK /\ SnapshotsOK /\ RestartPointSound /\ PhaseOK

-----------------------------------------------------------------------------
(* What the lookups answer *)

LEMMA LatestFacts ==
    ASSUME TypeOK, CheckpointsOK, ckpts # {}
    PROVE  /\ LatestCheckpoint \in ckpts
           /\ \A d \in ckpts : d.epoch <= LatestCheckpoint.epoch
<1>1. Len(history) \in Nat
  BY LenProperties DEF TypeOK
<1>2. \A c \in ckpts : c.epoch \in Nat /\ c.end \in Nat
  BY DEF TypeOK, Checkpoint
<1>3. \A c \in ckpts : c.epoch \in Nat /\ c.epoch <= Len(history)
  BY <1>1, <1>2 DEF CheckpointsOK
<1>4. \E c \in ckpts : \A d \in ckpts : d.epoch <= c.epoch
  BY <1>1, <1>3, LatestExists
<1>5. QED
  BY <1>4 DEF LatestCheckpoint

LEMMA EndType == ASSUME TypeOK, CheckpointsOK PROVE CompactedEnd \in Nat
  BY LatestFacts DEF CompactedEnd, TypeOK, Checkpoint

LEMMA EventsOfHistory ==
    ASSUME TypeOK
    PROVE  /\ Len(history) \in Nat
           /\ \A i \in 1..Len(history) : history[i] \in Event
  BY LenProperties, ElementOfSeq DEF TypeOK

LEMMA TipFacts ==
    ASSUME TypeOK, HistoryOK, TailOK, CheckpointsOK
    PROVE  /\ LastSequence = Len(history)
           /\ LastEventHash = TipId(Len(history))
           /\ hot # {} <=> CompactedEnd < Len(history)
<1> USE EndType, EventsOfHistory
<1>1. hot # {} <=> CompactedEnd < Len(history)
  BY DEF TailOK
<1>2. CASE hot # {}
  <2>1. history[Len(history)] \in hot
    BY <1>1, <1>2 DEF TailOK
  <2>2. \A e \in hot : e.seq <= Len(history) /\ (e.seq = Len(history) => e = history[Len(history)])
    BY DEF TailOK, HistoryOK
  <2>3. history[Len(history)].seq = Len(history)
    BY <1>1, <1>2 DEF HistoryOK
  <2>4. LastHot \in hot /\ \A f \in hot : f.seq <= LastHot.seq
    BY <2>1, <2>2, <2>3 DEF LastHot
  <2>5. LastHot.seq = Len(history)
    <3>1. LastHot.seq \in Nat
      BY <2>4 DEF TypeOK, Event
    <3>2. Len(history) <= LastHot.seq /\ LastHot.seq <= Len(history)
      BY <2>1, <2>2, <2>3, <2>4
    <3>3. QED
      BY <3>1, <3>2
  <2>6. LastHot = history[Len(history)]
    BY <2>2, <2>4, <2>5
  <2>7. Len(history) # 0
    BY <1>1, <1>2
  <2>8. QED
    BY <1>1, <1>2, <2>6, <2>3, <2>7 DEF LastSequence, LastEventHash, TipId
<1>3. CASE hot = {}
  <2>1. CompactedEnd = Len(history)
    <3>1. CompactedEnd \in Nat /\ CompactedEnd <= Len(history)
      BY DEF TailOK
    <3>2. ~(CompactedEnd < Len(history))
      BY <1>1, <1>3
    <3>3. QED
      BY <3>1, <3>2
  <2>2. CASE ckpts = {}
    BY <1>1, <1>3, <2>1, <2>2 DEF LastSequence, LastEventHash, TipId, CompactedEnd
  <2>3. CASE ckpts # {}
    <3>1. LatestCheckpoint.term = TipId(Len(history))
      BY <2>1, <2>3, LatestFacts DEF CheckpointsOK, CompactedEnd
    <3>2. QED
      BY <1>1, <1>3, <2>1, <2>3, <3>1 DEF LastSequence, LastEventHash
  <2>4. QED
    BY <2>2, <2>3
<1>4. QED
  BY <1>2, <1>3

-----------------------------------------------------------------------------
(* Appending *)

\* What a transaction that appends an event leaves of the ledger.
LEMMA InsertPreserves ==
    ASSUME IInv, NEW t \in Types, InsertEvent(t),
           issued' \in Nat, NewId <= issued', UNCHANGED <<ckpts, prov>>
    PROVE  /\ history' \in Seq(Event) /\ hot' \subseteq Event
           /\ tip' \in [seq : Nat, hash : Nat]
           /\ Len(history') = Len(history) + 1
           /\ HistoryOK' /\ TailOK' /\ CheckpointsOK' /\ ProvenanceOK'
           /\ CompactedEnd' = CompactedEnd
           /\ LastSequence' = Len(history) + 1
<1> DEFINE n == Len(history)
           e == NextEvent(t)
<1> USE DEF NewId
<1>1. TypeOK /\ HistoryOK /\ TailOK /\ CheckpointsOK /\ ProvenanceOK
  BY DEF IInv
<1>2. n \in Nat /\ \A i \in 1..n : history[i] \in Event
  BY <1>1, EventsOfHistory
<1>3. LastSequence = n /\ LastEventHash = TipId(n)
  BY <1>1, TipFacts
<1>4. issued \in Nat
  BY <1>1 DEF TypeOK
<1>5. TipId(n) \in Nat
  BY <1>1, <1>2 DEF TipId, NoId, Event
<1>6. e = [seq |-> n + 1, id |-> issued + 1, type |-> t, prev |-> TipId(n)]
  BY <1>3 DEF NextEvent
<1>7. e \in Event
  BY <1>2, <1>4, <1>5, <1>6 DEF Event
<1>8. /\ history' \in Seq(Event)
      /\ Len(history') = n + 1
      /\ history'[n + 1] = e
      /\ \A i \in 1..n : history'[i] = history[i]
  <2>1. history' = Append(history, e) /\ history \in Seq(Event)
    BY <1>1 DEF InsertEvent, TypeOK
  <2>2. QED
    BY <2>1, <1>7, AppendProperties
<1>9. \A k \in 0..n : TipId(k)' = TipId(k)
  BY <1>2, <1>8 DEF TipId
<1>10. CompactedEnd' = CompactedEnd
  BY DEF CompactedEnd, LatestCheckpoint
<1>11. CompactedEnd \in Nat /\ CompactedEnd <= n
  BY <1>1, EndType DEF TailOK
<1> HIDE DEF e
<1>12. HistoryOK'
  <2> SUFFICES ASSUME NEW i \in 1..(n + 1)
               PROVE  /\ history'[i].seq = i
                      /\ history'[i].id \in 1..issued'
                      /\ history'[i].prev = TipId(i - 1)'
                      /\ \A j \in 1..(n + 1) : i < j => history'[i].id < history'[j].id
    BY <1>8 DEF HistoryOK
  <2>1. CASE i = n + 1
    BY <2>1, <1>2, <1>4, <1>6, <1>8, <1>9
  <2>2. CASE i \in 1..n
    <3>1. history'[i].seq = i /\ history'[i].id \in 1..issued
      BY <2>2, <1>1, <1>8 DEF HistoryOK
    <3>2. history'[i].prev = TipId(i - 1)'
      BY <2>2, <1>1, <1>2, <1>8, <1>9 DEF HistoryOK
    <3>3. ASSUME NEW j \in 1..(n + 1), i < j PROVE history'[i].id < history'[j].id
      <4>1. CASE j \in 1..n
        BY <3>3, <4>1, <2>2, <1>1, <1>8 DEF HistoryOK
      <4>2. CASE j = n + 1
        BY <3>1, <4>2, <1>4, <1>6, <1>8
      <4>3. QED
        BY <4>1, <4>2, <1>2
    <3>4. QED
      BY <3>1, <3>2, <3>3, <1>4
  <2>3. QED
    BY <2>1, <2>2, <1>2
<1>13. TailOK'
  <2>1. hot' = {history'[i] : i \in (CompactedEnd + 1)..(n + 1)}
    <3>1. hot' = {history[i] : i \in (CompactedEnd + 1)..n} \cup {e}
      BY <1>1 DEF InsertEvent, TailOK, e
    <3>2. (CompactedEnd + 1)..(n + 1) = ((CompactedEnd + 1)..n) \cup {n + 1}
      BY <1>2, <1>11
    <3>3. \A i \in (CompactedEnd + 1)..n : history'[i] = history[i]
      BY <1>2, <1>8, <1>11
    <3>4. QED
      BY <3>1, <3>2, <3>3, <1>8
  <2>2. tip' = [seq |-> n + 1, hash |-> history'[n + 1].id]
    BY <1>3, <1>6, <1>8 DEF InsertEvent
  <2>3. TipId(Len(history))' = history'[n + 1].id
    BY <1>2, <1>8 DEF TipId
  <2>4. QED
    BY <2>1, <2>2, <2>3, <1>2, <1>8, <1>10, <1>11 DEF TailOK
<1>14. CheckpointsOK'
  <2>1. \A c \in ckpts : c.end \in Nat /\ c.epoch \in Nat
    BY <1>1 DEF TypeOK, Checkpoint
  <2>2. \A c \in ckpts : c.end \in 0..n
    BY <2>1, <1>1, <1>2 DEF CheckpointsOK
  <2>3. QED
    BY <2>1, <2>2, <1>1, <1>2, <1>8, <1>9 DEF CheckpointsOK
<1>15. ProvenanceOK'
  BY <1>1, <1>2, <1>8 DEF ProvenanceOK
<1>16. hot' \subseteq Event /\ tip' \in [seq : Nat, hash : Nat]
  BY <1>1, <1>2, <1>3, <1>4, <1>7 DEF InsertEvent, TypeOK, e
<1>17. LastSequence' = n + 1
  <2>1. hot' # {}
    BY DEF InsertEvent
  <2>2. n + 1 \in (CompactedEnd + 1)..(n + 1)
    BY <1>2, <1>11
  <2>3. e \in hot' /\ e.seq = n + 1
    BY <1>6 DEF InsertEvent, e
  <2>4. \A f \in hot' : f.seq \in Nat /\ f.seq <= n + 1
    <3>1. \A i \in (CompactedEnd + 1)..(n + 1) : history'[i].seq = i
      BY <1>12, <1>8, <1>11, <1>2 DEF HistoryOK
    <3>2. QED
      BY <3>1, <1>13, <1>8, <1>10, <1>11, <1>2 DEF TailOK
  <2>5. LastHot' \in hot' /\ \A f \in hot' : f.seq <= LastHot'.seq
    BY <2>3, <2>4 DEF LastHot
  <2>6. LastHot'.seq = n + 1
    BY <2>3, <2>4, <2>5, <1>2
  <2>7. QED
    BY <2>1, <2>6 DEF LastSequence
<1>18. QED
  BY <1>8, <1>10, <1>12, <1>13, <1>14, <1>15, <1>16, <1>17

\* A snapshot inserted with a fresh identity takes nothing away.
LEMMA SnapshotInserted ==
    ASSUME IInv, NEW s \in Snapshot, snaps' = snaps \cup {s}, s.id > issued,
           issued' \in Nat, s.id <= issued',
           Len(history') \in Nat, Len(history') >= Len(history), s.seq <= Len(history'),
           UNCHANGED ckpts
    PROVE  snaps' \subseteq Snapshot /\ SnapshotsOK' /\ AnchorsRetained'
<1>1. /\ snaps \subseteq Snapshot /\ SnapshotsOK /\ AnchorsRetained
      /\ issued \in Nat /\ Len(history) \in Nat
  BY EventsOfHistory DEF IInv, TypeOK
<1>2. \A t \in snaps : t.id \in Nat /\ t.seq \in Nat /\ t.id <= issued /\ t.seq <= Len(history)
  BY <1>1 DEF SnapshotsOK, Snapshot
<1>3. s.id \in Nat /\ s.seq \in Nat
  BY DEF Snapshot
<1>4. SnapshotsOK'
  BY <1>1, <1>2, <1>3 DEF SnapshotsOK
<1>5. AnchorsRetained'
  BY <1>1 DEF AnchorsRetained
<1>6. QED
  BY <1>1, <1>4, <1>5

LEMMA AppendStep ==
    ASSUME IInv, NEW t \in Types, AppendEvent(t) \/ EmitReady(t)
    PROVE  IInv'
<1> USE DEF NewId
<1>1. TypeOK /\ issued \in Nat /\ Len(history) \in Nat
  BY EventsOfHistory DEF IInv, TypeOK
<1>2. /\ InsertEvent(t) /\ issued' = issued + 1 /\ pc' = "idle"
      /\ refs' = refs \/ refs' = refs \cup {issued + 1}
      /\ UNCHANGED <<snaps, latest, ckpts, prov, prepared, up, victim, crashes>>
  BY DEF AppendEvent, EmitReady, Running
<1>3. /\ history' \in Seq(Event) /\ hot' \subseteq Event
      /\ tip' \in [seq : Nat, hash : Nat]
      /\ Len(history') = Len(history) + 1
      /\ HistoryOK' /\ TailOK' /\ CheckpointsOK' /\ ProvenanceOK'
      /\ CompactedEnd' = CompactedEnd
      /\ LastSequence' = Len(history) + 1
  BY <1>1, <1>2, InsertPreserves
<1>4. TypeOK'
  <2>1. refs' \subseteq Nat
    <3>1. refs \subseteq Nat /\ issued + 1 \in Nat
      BY <1>1 DEF TypeOK
    <3>2. QED
      BY <3>1, <1>2
  <2>2. pc' \in Phases /\ issued' \in Nat
    BY <1>1, <1>2 DEF Phases
  <2>3. QED
    BY <2>1, <2>2, <1>1, <1>2, <1>3 DEF TypeOK
<1>5. AnchorsRetained'
  BY <1>2 DEF IInv, AnchorsRetained
<1>6. SnapshotsOK'
  <2>1. \A s \in snaps : s.id \in 1..(issued + 1) /\ s.seq <= Len(history) + 1
    BY <1>1 DEF IInv, TypeOK, SnapshotsOK, Snapshot
  <2>2. QED
    BY <2>1, <1>1, <1>2, <1>3 DEF IInv, SnapshotsOK
<1>7. RestartPointSound'
  <2>1. LastSequence = Len(history)
    BY TipFacts DEF IInv
  <2>2. \A s \in snaps : s.seq \in Nat
    BY <1>1 DEF TypeOK, Snapshot
  <2>3. QED
    BY <2>1, <2>2, <1>1, <1>2, <1>3 DEF IInv, RestartPointSound
<1>8. PhaseOK'
  BY <1>2 DEF PhaseOK
<1>9. QED
  BY <1>3, <1>4, <1>5, <1>6, <1>7, <1>8 DEF IInv

LEMMA ReplaceBodyStep == ASSUME IInv, ReplaceBody PROVE IInv'
<1> USE DEF NewId
<1> DEFINE s == [id |-> issued + 2, seq |-> LastSequence + 1, refs |-> refs, prot |-> FALSE]
<1>1. TypeOK /\ issued \in Nat /\ Len(history) \in Nat /\ LastSequence = Len(history)
  BY EventsOfHistory, TipFacts DEF IInv, TypeOK
<1>2. /\ InsertEvent(BodyReplaced) /\ issued' = issued + 2 /\ pc = "idle"
      /\ snaps' = snaps \cup {s} /\ latest' = issued + 2
      /\ UNCHANGED <<ckpts, prov, prepared, up, pc, victim, refs, crashes>>
  BY DEF ReplaceBody, BodySnapshot, Running
<1>3. BodyReplaced \in Types
  BY LedgerAssumption
<1>4. /\ history' \in Seq(Event) /\ hot' \subseteq Event
      /\ tip' \in [seq : Nat, hash : Nat]
      /\ Len(history') = Len(history) + 1
      /\ HistoryOK' /\ TailOK' /\ CheckpointsOK' /\ ProvenanceOK'
      /\ CompactedEnd' = CompactedEnd
      /\ LastSequence' = Len(history) + 1
  BY <1>1, <1>2, <1>3, InsertPreserves
<1>5. s \in Snapshot /\ s.id = issued + 2 /\ s.seq = Len(history) + 1
  BY <1>1 DEF Snapshot, TypeOK
<1> HIDE DEF s
<1>6. snaps' \subseteq Snapshot /\ SnapshotsOK' /\ AnchorsRetained'
  BY <1>1, <1>2, <1>4, <1>5, SnapshotInserted
<1>7. TypeOK'
  BY <1>1, <1>2, <1>4, <1>6 DEF TypeOK
<1>8. RestartPointSound'
  <2>1. CompactedEnd \in Nat /\ CompactedEnd <= Len(history)
    BY EndType DEF IInv, TailOK
  <2>2. QED
    BY <2>1, <1>1, <1>2, <1>4, <1>5 DEF RestartPointSound
<1>9. PhaseOK'
  BY <1>2 DEF PhaseOK
<1>10. QED
  BY <1>4, <1>6, <1>7, <1>8, <1>9 DEF IInv

-----------------------------------------------------------------------------
(* Steps that leave the ledger's tables alone *)

LEMMA TablesKept ==
    ASSUME IInv, UNCHANGED tables, issued' \in Nat, issued <= issued'
    PROVE  /\ HistoryOK' /\ TailOK' /\ CheckpointsOK' /\ ProvenanceOK'
           /\ CompactedEnd' = CompactedEnd /\ LastSequence' = LastSequence
           /\ LastSequence = Len(history)
           /\ history' = history /\ hot' = hot /\ ckpts' = ckpts
           /\ hot' \subseteq Event /\ tip' \in [seq : Nat, hash : Nat]
           /\ ckpts' \subseteq Checkpoint /\ prov' \subseteq Provenance
           /\ history' \in Seq(Event)
<1>1. /\ history' = history /\ hot' = hot /\ ckpts' = ckpts /\ prov' = prov /\ tip' = tip
  BY DEF tables
<1>2. CompactedEnd' = CompactedEnd
  BY <1>1 DEF CompactedEnd, LatestCheckpoint
<1>3. LastSequence' = LastSequence
  BY <1>1, <1>2 DEF LastSequence, LastHot
<1>4. LastSequence = Len(history)
  BY TipFacts DEF IInv
<1>5. HistoryOK'
  <2>1. \A k : TipId(k)' = TipId(k)
    BY <1>1 DEF TipId
  <2>2. issued \in Nat /\ \A i \in 1..Len(history) : history[i].id \in 1..issued'
    BY EventsOfHistory DEF IInv, TypeOK, HistoryOK
  <2>3. QED
    BY <1>1, <2>1, <2>2 DEF IInv, HistoryOK
<1>6. TailOK'
  BY <1>1, <1>2 DEF IInv, TailOK, TipId
<1>7. CheckpointsOK'
  BY <1>1 DEF IInv, CheckpointsOK, TipId
<1>8. ProvenanceOK'
  BY <1>1 DEF IInv, ProvenanceOK
<1>9. QED
  BY <1>1, <1>2, <1>3, <1>4, <1>5, <1>6, <1>7, <1>8 DEF IInv, TypeOK

\* Steps that leave the snapshots, the pointer and the identities alone as well.
LEMMA SnapshotsKept ==
    ASSUME IInv, UNCHANGED <<tables, snaps, latest, issued>>
    PROVE  AnchorsRetained' /\ SnapshotsOK' /\ RestartPointSound' /\ FreshSnapshot' = FreshSnapshot
<1>1. CompactedEnd' = CompactedEnd /\ LastSequence' = LastSequence
  BY TablesKept DEF IInv, TypeOK
<1>2. history' = history /\ ckpts' = ckpts /\ snaps' = snaps /\ latest' = latest /\ issued' = issued
  BY DEF tables
<1>3. QED
  BY <1>1, <1>2 DEF IInv, AnchorsRetained, SnapshotsOK, RestartPointSound, FreshSnapshot

LEMMA ControlStep ==
    ASSUME IInv,
           \/ ForgetReference \/ SetPrepared \/ RefuseCompaction \/ NothingToCompact
           \/ AnchorsTrimmed \/ NothingToPrune \/ Crash \/ Restart \/ UNCHANGED vars
    PROVE  IInv'
<1> DEFINE Old == UNCHANGED <<tables, snaps, latest, issued>>
<1>1. Old
  BY DEF ForgetReference, SetPrepared, RefuseCompaction, NothingToCompact, AnchorsTrimmed,
         NothingToPrune, Crash, Restart, vars, durable, tables
<1>2. TypeOK
  BY DEF IInv
<1>3. /\ HistoryOK' /\ TailOK' /\ CheckpointsOK' /\ ProvenanceOK'
      /\ AnchorsRetained' /\ SnapshotsOK' /\ RestartPointSound'
      /\ FreshSnapshot' = FreshSnapshot
  BY <1>1, <1>2, TablesKept, SnapshotsKept DEF TypeOK
<1>4. refs' \subseteq Nat
  <2>1. CASE Restart
    BY <2>1, <1>2 DEF Restart, Loadable, SnapshotOf, TypeOK, Snapshot
  <2>2. CASE ~Restart
    BY <2>2, <1>2
       DEF ForgetReference, SetPrepared, RefuseCompaction, NothingToCompact, AnchorsTrimmed,
           NothingToPrune, Crash, vars, TypeOK
  <2>3. QED
    BY <2>1, <2>2
<1>5. /\ prepared' \in BOOLEAN /\ up' \in BOOLEAN /\ pc' \in Phases
      /\ victim' \in Nat /\ crashes' \in Nat
  <2>1. CASE ForgetReference \/ SetPrepared \/ UNCHANGED vars
    BY <2>1, <1>2 DEF ForgetReference, SetPrepared, vars, durable, TypeOK
  <2>2. CASE RefuseCompaction \/ NothingToCompact \/ AnchorsTrimmed \/ NothingToPrune
    BY <2>2, <1>2
       DEF RefuseCompaction, NothingToCompact, AnchorsTrimmed, NothingToPrune, durable,
           TypeOK, Phases
  <2>3. CASE Crash \/ Restart
    <3>1. crashes' \in Nat /\ victim' \in Nat
      BY <2>3, <1>2 DEF Crash, Restart, TypeOK, NoId
    <3>2. prepared' \in BOOLEAN /\ up' \in BOOLEAN /\ pc' \in Phases
      BY <2>3, <1>2, Zenon DEF Crash, Restart, durable, TypeOK, Phases
    <3>3. QED
      BY <3>1, <3>2
  <2>4. QED
    BY <2>1, <2>2, <2>3
<1>6. TypeOK'
  BY <1>1, <1>2, <1>4, <1>5 DEF TypeOK, tables
<1>7. PhaseOK'
  <2>1. \/ pc' \in {"idle", "resume"}
        \/ pc' = pc
        \/ pc = "dropProvenance" /\ pc' = "prune"
    BY DEF ForgetReference, SetPrepared, RefuseCompaction, NothingToCompact, AnchorsTrimmed,
           NothingToPrune, Crash, Restart, vars, durable, Running
  <2>2. Expired' = Expired
    BY <1>1 DEF Expired, tables
  <2>3. QED
    BY <2>1, <2>2, <1>1, <1>3 DEF IInv, PhaseOK
<1>8. QED
  BY <1>3, <1>6, <1>7 DEF IInv

-----------------------------------------------------------------------------
(* Saving a snapshot *)

LEMMA SaveSnapshotStep == ASSUME IInv, SaveSnapshot PROVE IInv'
<1> USE DEF NewId
<1> DEFINE s == [id |-> issued + 1, seq |-> LastSequence, refs |-> refs, prot |-> FALSE]
<1>1. TypeOK /\ issued \in Nat /\ Len(history) \in Nat /\ LastSequence = Len(history)
  BY EventsOfHistory, TipFacts DEF IInv, TypeOK
<1>2. /\ snaps' = snaps \cup {s} /\ issued' = issued + 1
      /\ pc = "idle" /\ pc' = "saved"
      /\ UNCHANGED <<tables, latest, prepared, up, victim, refs, crashes>>
  BY DEF SaveSnapshot, Running
<1>3. /\ HistoryOK' /\ TailOK' /\ CheckpointsOK' /\ ProvenanceOK'
      /\ CompactedEnd' = CompactedEnd /\ LastSequence' = LastSequence
      /\ history' = history /\ hot' = hot /\ ckpts' = ckpts
      /\ hot' \subseteq Event /\ tip' \in [seq : Nat, hash : Nat]
      /\ ckpts' \subseteq Checkpoint /\ prov' \subseteq Provenance
      /\ history' \in Seq(Event)
  BY <1>1, <1>2, TablesKept
<1>4. s \in Snapshot /\ s.id = issued + 1 /\ s.seq = Len(history)
  BY <1>1 DEF Snapshot, TypeOK
<1> HIDE DEF s
<1>5. snaps' \subseteq Snapshot /\ SnapshotsOK' /\ AnchorsRetained'
  BY <1>1, <1>2, <1>3, <1>4, SnapshotInserted
<1>6. TypeOK'
  <2>1. pc' \in Phases /\ issued' \in Nat
    BY <1>1, <1>2 DEF Phases
  <2>2. QED
    BY <2>1, <1>1, <1>2, <1>3, <1>5 DEF TypeOK
<1>7. RestartPointSound'
  BY <1>2, <1>3 DEF IInv, RestartPointSound
<1>8. PhaseOK'
  <2>1. FreshSnapshot'
    BY <1>2, <1>3, <1>4 DEF FreshSnapshot
  <2>2. QED
    BY <2>1, <1>2 DEF PhaseOK
<1>9. QED
  BY <1>3, <1>5, <1>6, <1>7, <1>8 DEF IInv

LEMMA PointToSnapshotStep == ASSUME IInv, PointToSnapshot PROVE IInv'
<1>1. TypeOK /\ issued \in Nat /\ FreshSnapshot
  BY DEF IInv, TypeOK, PhaseOK, PointToSnapshot, Running
<1>2. /\ latest' = issued /\ pc' \in {"maintain", "prune"}
      /\ UNCHANGED <<tables, snaps, prepared, up, victim, refs, issued, crashes>>
  BY DEF PointToSnapshot
<1>3. /\ HistoryOK' /\ TailOK' /\ CheckpointsOK' /\ ProvenanceOK'
      /\ CompactedEnd' = CompactedEnd /\ LastSequence' = LastSequence
      /\ LastSequence = Len(history)
      /\ history' = history /\ hot' = hot /\ ckpts' = ckpts
      /\ hot' \subseteq Event /\ tip' \in [seq : Nat, hash : Nat]
      /\ ckpts' \subseteq Checkpoint /\ prov' \subseteq Provenance
      /\ history' \in Seq(Event)
  BY <1>1, <1>2, TablesKept
<1>4. AnchorsRetained' /\ SnapshotsOK'
  BY <1>2, <1>3 DEF IInv, AnchorsRetained, SnapshotsOK
<1>5. TypeOK'
  BY <1>1, <1>2, <1>3 DEF TypeOK, Phases
<1>6. RestartPointSound'
  <2>1. CompactedEnd \in Nat /\ CompactedEnd <= Len(history) /\ Len(history) \in Nat
    BY <1>1, EndType, EventsOfHistory DEF IInv, TailOK
  <2>2. QED
    BY <2>1, <1>1, <1>2, <1>3 DEF FreshSnapshot, RestartPointSound
<1>7. PhaseOK'
  BY <1>1, <1>2, <1>3 DEF FreshSnapshot, PhaseOK
<1>8. QED
  BY <1>3, <1>4, <1>5, <1>6, <1>7 DEF IInv

-----------------------------------------------------------------------------
(* Trimming old anchors *)

\* The latest checkpoint never expires, and the newest expired one is well defined.
LEMMA ExpiredFacts ==
    ASSUME TypeOK, CheckpointsOK, Expired # {}
    PROVE  /\ NextExpired \in Expired /\ Expired \subseteq ckpts
           /\ LatestCheckpoint \in ckpts /\ NextExpired # LatestCheckpoint
           /\ \A d \in ckpts : d.epoch <= LatestCheckpoint.epoch
<1>1. Expired \subseteq ckpts /\ ckpts # {}
  BY DEF Expired
<1>2. LatestCheckpoint \in ckpts /\ \A d \in ckpts : d.epoch <= LatestCheckpoint.epoch
  BY <1>1, LatestFacts
<1>3. \A c \in ckpts : c.epoch \in Nat /\ c.epoch <= LatestCheckpoint.epoch
  BY <1>2 DEF TypeOK, Checkpoint
<1>4. LatestCheckpoint \notin Expired
  <2>1. {d \in ckpts : d.epoch > LatestCheckpoint.epoch} = {}
    BY <1>2, <1>3
  <2>2. Cardinality({d \in ckpts : d.epoch > LatestCheckpoint.epoch}) = 0
    BY <2>1, FS_EmptySet
  <2>3. QED
    BY <2>2, LedgerAssumption DEF Expired
<1>5. \E c \in Expired : \A d \in Expired : d.epoch <= c.epoch
  BY <1>1, <1>2, <1>3, LatestExists
<1>6. NextExpired \in Expired
  BY <1>5 DEF NextExpired
<1>7. QED
  BY <1>1, <1>2, <1>4, <1>6

LEMMA DropProvenanceStep == ASSUME IInv, DropProvenance PROVE IInv'
<1>1. /\ pc = "dropProvenance" /\ pc' = "dropCheckpoint" /\ Expired # {}
      /\ prov' \subseteq prov
      /\ UNCHANGED <<hot, tip, snaps, latest, ckpts, prepared, up, victim, refs,
                     history, issued, crashes>>
  BY DEF DropProvenance, Running
<1>2. CompactedEnd' = CompactedEnd
  BY <1>1 DEF CompactedEnd, LatestCheckpoint
<1>3. LastSequence' = LastSequence
  BY <1>1, <1>2 DEF LastSequence, LastHot
<1>4. Expired' = Expired
  BY <1>1 DEF Expired
<1>5. TypeOK'
  BY <1>1 DEF IInv, TypeOK, Phases
<1>6. HistoryOK' /\ TailOK' /\ CheckpointsOK' /\ ProvenanceOK'
  BY <1>1, <1>2 DEF IInv, HistoryOK, TailOK, CheckpointsOK, ProvenanceOK, TipId
<1>7. AnchorsRetained' /\ SnapshotsOK' /\ RestartPointSound'
  BY <1>1, <1>2, <1>3 DEF IInv, AnchorsRetained, SnapshotsOK, RestartPointSound
<1>8. PhaseOK'
  BY <1>1, <1>4 DEF IInv, PhaseOK, FreshSnapshot
<1>9. QED
  BY <1>5, <1>6, <1>7, <1>8 DEF IInv

LEMMA DropCheckpointStep == ASSUME IInv, DropCheckpoint PROVE IInv' /\ CompactedEnd' = CompactedEnd
<1>1. /\ pc = "dropCheckpoint" /\ pc' = "unprotect"
      /\ ckpts' = ckpts \ {NextExpired} /\ victim' = NextExpired.snap
      /\ UNCHANGED <<hot, tip, snaps, latest, prov, prepared, up, refs, history,
                     issued, crashes>>
  BY DEF DropCheckpoint, Running
<1>2. /\ NextExpired \in ckpts /\ LatestCheckpoint \in ckpts
      /\ NextExpired # LatestCheckpoint
      /\ \A d \in ckpts : d.epoch \in Nat /\ d.epoch <= LatestCheckpoint.epoch
      /\ \A c, d \in ckpts : c.epoch = d.epoch => c = d
  BY <1>1, ExpiredFacts DEF IInv, PhaseOK, CheckpointsOK, TypeOK, Checkpoint
<1>3. LatestCheckpoint' = LatestCheckpoint /\ ckpts' # {} /\ ckpts # {}
  <2>1. LatestCheckpoint \in ckpts' /\ \A d \in ckpts' : d.epoch <= LatestCheckpoint.epoch
    BY <1>1, <1>2
  <2>2. LatestCheckpoint' \in ckpts' /\ \A d \in ckpts' : d.epoch <= LatestCheckpoint'.epoch
    BY <2>1 DEF LatestCheckpoint
  <2>3. LatestCheckpoint'.epoch = LatestCheckpoint.epoch
    BY <2>1, <2>2, <1>1, <1>2
  <2>4. QED
    BY <2>1, <2>2, <2>3, <1>1, <1>2
<1>4. CompactedEnd' = CompactedEnd
  BY <1>3 DEF CompactedEnd
<1>5. LastSequence' = LastSequence
  BY <1>1, <1>4 DEF LastSequence, LastHot
<1>6. TypeOK'
  <2>1. victim' \in Nat /\ ckpts' \subseteq Checkpoint
    BY <1>1, <1>2 DEF IInv, TypeOK, Checkpoint
  <2>2. QED
    BY <2>1, <1>1 DEF IInv, TypeOK, Phases
<1>7. HistoryOK' /\ TailOK' /\ CheckpointsOK' /\ ProvenanceOK'
  BY <1>1, <1>4 DEF IInv, HistoryOK, TailOK, CheckpointsOK, ProvenanceOK, TipId
<1>8. AnchorsRetained' /\ SnapshotsOK' /\ RestartPointSound'
  BY <1>1, <1>4, <1>5 DEF IInv, AnchorsRetained, SnapshotsOK, RestartPointSound
<1>9. PhaseOK'
  BY <1>1 DEF IInv, PhaseOK, FreshSnapshot
<1>10. QED
  BY <1>4, <1>6, <1>7, <1>8, <1>9 DEF IInv

LEMMA UnprotectStep == ASSUME IInv, Unprotect PROVE IInv'
<1> DEFINE Freed(s) == IF s.id = victim THEN [s EXCEPT !.prot = FALSE] ELSE s
<1>1. /\ pc = "unprotect" /\ pc' = "dropProvenance"
      /\ \/ snaps' = snaps
         \/ /\ snaps' = {Freed(s) : s \in snaps}
            /\ \A c \in ckpts : c.snap # victim
      /\ UNCHANGED <<tables, latest, prepared, up, victim, refs, issued, crashes>>
  BY DEF Unprotect, Running
<1>2. TypeOK /\ issued \in Nat /\ snaps \subseteq Snapshot
  BY DEF IInv, TypeOK
<1>3. /\ HistoryOK' /\ TailOK' /\ CheckpointsOK' /\ ProvenanceOK'
      /\ CompactedEnd' = CompactedEnd /\ LastSequence' = LastSequence
      /\ history' = history /\ hot' = hot /\ ckpts' = ckpts
      /\ hot' \subseteq Event /\ tip' \in [seq : Nat, hash : Nat]
      /\ ckpts' \subseteq Checkpoint /\ prov' \subseteq Provenance
      /\ history' \in Seq(Event)
  BY <1>1, <1>2, TablesKept
<1>4. \A s \in snaps : /\ Freed(s) \in Snapshot
                       /\ Freed(s).id = s.id /\ Freed(s).seq = s.seq
                       /\ s.id # victim => Freed(s) = s
  BY <1>2 DEF Snapshot
<1>5. /\ snaps' \subseteq Snapshot
      /\ \A s \in snaps : \E t \in snaps' : t.id = s.id /\ t.seq = s.seq
      /\ SnapshotsOK'
  <2>1. CASE snaps' = snaps
    BY <2>1, <1>1, <1>2, <1>3 DEF IInv, SnapshotsOK
  <2>2. CASE snaps' = {Freed(s) : s \in snaps}
    <3> HIDE DEF Freed
    <3>1. snaps' \subseteq Snapshot
          /\ \A s \in snaps : \E t \in snaps' : t.id = s.id /\ t.seq = s.seq
      BY <2>2, <1>4
    <3>2. SnapshotsOK'
      BY <2>2, <1>1, <1>3, <1>4 DEF IInv, SnapshotsOK
    <3>3. QED
      BY <3>1, <3>2
  <2>3. QED
    BY <2>1, <2>2, <1>1
<1>6. AnchorsRetained'
  <2>1. CASE snaps' = snaps
    BY <2>1, <1>3 DEF IInv, AnchorsRetained
  <2>2. CASE snaps' = {Freed(s) : s \in snaps} /\ \A c \in ckpts : c.snap # victim
    <3> SUFFICES ASSUME NEW c \in ckpts
                 PROVE  \E s \in snaps' : s.id = c.snap /\ s.prot /\ s.seq = c.end
      BY <1>3 DEF AnchorsRetained
    <3>1. PICK s \in snaps : s.id = c.snap /\ s.prot /\ s.seq = c.end
      BY DEF IInv, AnchorsRetained
    <3>2. Freed(s) = s
      BY <2>2, <3>1
    <3>3. s \in snaps'
      BY <2>2, <3>2
    <3>4. QED
      BY <3>1, <3>3
  <2>3. QED
    BY <2>1, <2>2, <1>1
<1>7. TypeOK'
  BY <1>1, <1>2, <1>3, <1>5 DEF TypeOK, Phases
<1>8. RestartPointSound'
  BY <1>1, <1>3, <1>5 DEF IInv, RestartPointSound
<1>9. PhaseOK'
  BY <1>1, <1>3, <1>5 DEF IInv, PhaseOK, FreshSnapshot
<1>10. QED
  BY <1>3, <1>5, <1>6, <1>7, <1>8, <1>9 DEF IInv

-----------------------------------------------------------------------------
(* Compaction *)

\* What is carried over are events of the history, under the next epoch.
LEMMA CarriedFacts ==
    ASSUME IInv, NEW R
    PROVE  /\ NextEpoch \in Nat
           /\ CarriedProvenance(R) \subseteq Provenance
           /\ \A p \in CarriedProvenance(R) : \E i \in 1..Len(history) : p.ev = history[i]
<1> DEFINE Found == hot \cup {p.ev : p \in LiveProvenance}
<1>1. NextEpoch \in Nat
  <2>1. CASE ckpts = {}
    BY <2>1 DEF NextEpoch
  <2>2. CASE ckpts # {}
    <3>1. LatestCheckpoint \in Checkpoint
      BY <2>2, LatestFacts DEF IInv, TypeOK
    <3> QED
      BY <2>2, <3>1 DEF Checkpoint, NextEpoch
  <2> QED
    BY <2>1, <2>2
<1>2. \A e \in Found : e \in Event /\ \E i \in 1..Len(history) : e = history[i]
  <2>1. \A e \in hot : e \in Event /\ \E i \in 1..Len(history) : e = history[i]
    <3>1. CompactedEnd \in Nat
      BY EndType DEF IInv
    <3>2. QED
      BY <3>1, EventsOfHistory DEF IInv, TypeOK, TailOK
  <2>2. LiveProvenance \subseteq prov
    BY DEF LiveProvenance
  <2>3. \A p \in prov : p.ev \in Event /\ \E i \in 1..Len(history) : p.ev = history[i]
    BY DEF IInv, TypeOK, ProvenanceOK, Provenance
  <2>4. QED
    BY <2>1, <2>2, <2>3
<1>3. \A t : Candidates(t) # {} => LastEventOfType(t) \in Found
  <2> TAKE t
  <2> HAVE Candidates(t) # {}
  <2>1. Candidates(t) \subseteq Found
    BY DEF Candidates
  <2> DEFINE Seqs == {e.seq : e \in Candidates(t)}
  <2>2. Len(history) \in Nat
    BY EventsOfHistory DEF IInv
  <2>3. \A e \in Candidates(t) : e.seq \in Nat /\ e.seq <= Len(history)
    <3> TAKE e \in Candidates(t)
    <3>1. e \in Event /\ \E i \in 1..Len(history) : e = history[i]
      BY <2>1, <1>2
    <3>2. PICK i \in 1..Len(history) : e = history[i]
      BY <3>1
    <3>3. e.seq = i
      BY <3>2 DEF IInv, HistoryOK
    <3>4. QED
      BY <3>3, <2>2
  <2>4. Seqs \in SUBSET Nat /\ Seqs # {} /\ \A x \in Seqs : x <= Len(history)
    BY <2>3
  <2>5. PICK m \in Seqs : \A x \in Seqs : x <= m
    BY <2>2, <2>4, MaxExists
  <2>6. \E e \in Candidates(t) : \A f \in Candidates(t) : f.seq <= e.seq
    BY <2>5
  <2>7. LastEventOfType(t) \in Candidates(t)
    BY <2>6 DEF LastEventOfType
  <2>8. QED
    BY <2>1, <2>7
<1>4. ASSUME NEW p \in CarriedProvenance(R)
      PROVE  p.ev \in Found /\ \E k \in {"type", "ref"} : p = [epoch |-> NextEpoch, kind |-> k, ev |-> p.ev]
  <2>1. CASE \E t \in {u \in ProtectedTypes : Candidates(u) # {}} :
                p = [epoch |-> NextEpoch, kind |-> "type", ev |-> LastEventOfType(t)]
    BY <2>1, <1>3
  <2>2. CASE \E e \in {f \in hot \cup {q.ev : q \in {r \in LiveProvenance : r.kind = "ref"}} :
                          f.id \in R} :
                p = [epoch |-> NextEpoch, kind |-> "ref", ev |-> e]
    BY <2>2
  <2>3. QED
    BY <2>1, <2>2 DEF CarriedProvenance, ProvenanceOf
<1> HIDE DEF Found
<1>5. CarriedProvenance(R) \subseteq Provenance
  BY <1>1, <1>2, <1>4 DEF Provenance
<1>6. QED
  BY <1>1, <1>2, <1>4, <1>5

\* The tail is a finite set of events.
LEMMA TailCount == ASSUME IInv PROVE Cardinality(hot) \in Nat
<1>1. CompactedEnd \in Nat /\ Len(history) \in Nat
  BY EndType, EventsOfHistory DEF IInv
<1> DEFINE I == (CompactedEnd + 1)..Len(history)
           f == [i \in I |-> history[i]]
<1>2. IsFiniteSet(I)
  BY <1>1, FS_Interval
<1>3. f \in Surjection(I, hot)
  BY DEF IInv, TailOK, Surjection
<1> HIDE DEF I, f
<1>4. IsFiniteSet(hot)
  BY <1>2, <1>3, FS_Surjection
<1>5. QED
  BY <1>4, FS_CardinalityType

LEMMA CompactStep ==
    ASSUME IInv, Compact
    PROVE  /\ IInv' /\ CompactedEnd' = Len(history) /\ CompactedEnd <= Len(history)
           /\ ckpts' # {} /\ LatestCheckpoint'.epoch = NextEpoch
<1> DEFINE n == Len(history)
<1>1. PICK s \in snaps :
        /\ s.id = latest /\ s.seq = LastSequence
        /\ ckpts' = ckpts \cup
              {[epoch |-> NextEpoch, start |-> CompactedEnd + 1, end |-> s.seq,
                count |-> Cardinality(hot), term |-> LastEventHash, snap |-> s.id]}
        /\ snaps' = (snaps \ {s}) \cup {[s EXCEPT !.prot = TRUE]}
        /\ prov' = prov \cup CarriedProvenance(s.refs)
        /\ hot' = {e \in hot : e.seq > s.seq}
  BY DEF Compact, NewCheckpoint, CheckpointFrom, Uncompacted
<1>2. /\ LastSequence > CompactedEnd /\ pc = "maintain" /\ pc' = "dropProvenance"
      /\ UNCHANGED <<tip, latest, prepared, up, victim, refs, history, issued, crashes>>
  BY DEF Compact, Running
<1>3. /\ n \in Nat /\ CompactedEnd \in Nat /\ CompactedEnd < n
      /\ LastSequence = n /\ LastEventHash = TipId(n)
  BY <1>2, EventsOfHistory, EndType, TipFacts DEF IInv
<1>4. TypeOK /\ issued \in Nat /\ s \in Snapshot
  BY DEF IInv, TypeOK
<1>5. /\ NextEpoch \in Nat /\ NextEpoch >= 1 /\ NextEpoch <= n
      /\ \A c \in ckpts : c.epoch \in Nat /\ c.end \in Nat /\ c.epoch < NextEpoch /\ c.end < n
  <2>1. CASE ckpts = {}
    BY <2>1, <1>3 DEF NextEpoch
  <2>2. CASE ckpts # {}
    <3>1. /\ LatestCheckpoint \in ckpts
          /\ \A d \in ckpts : d.epoch <= LatestCheckpoint.epoch
      BY <2>2, LatestFacts DEF IInv
    <3>2. \A c \in ckpts : c.epoch \in Nat /\ c.end \in Nat
      BY <1>4 DEF TypeOK, Checkpoint
    <3>3. CompactedEnd = LatestCheckpoint.end /\ NextEpoch = LatestCheckpoint.epoch + 1
      BY <2>2 DEF CompactedEnd, NextEpoch
    <3>4. LatestCheckpoint.epoch >= 1 /\ LatestCheckpoint.epoch <= LatestCheckpoint.end
      BY <3>1 DEF IInv, CheckpointsOK
    <3>5. \A c \in ckpts : c.end <= LatestCheckpoint.end
      <4> TAKE c \in ckpts
      <4>1. CASE c.epoch = LatestCheckpoint.epoch
        BY <4>1, <3>1, <3>2 DEF IInv, CheckpointsOK
      <4>2. CASE c.epoch < LatestCheckpoint.epoch
        BY <4>2, <3>1, <3>2 DEF IInv, CheckpointsOK
      <4>3. QED
        BY <4>1, <4>2, <3>1, <3>2
    <3>6. QED
      BY <3>1, <3>2, <3>3, <3>4, <3>5, <1>3
  <2>3. QED
    BY <2>1, <2>2
<1> DEFINE new == [epoch |-> NextEpoch, start |-> CompactedEnd + 1, end |-> n,
                   count |-> Cardinality(hot), term |-> TipId(n), snap |-> s.id]
<1>6. ckpts' = ckpts \cup {new} /\ new \in Checkpoint
  <2>1. TipId(n) \in Nat
    BY <1>3, <1>4, EventsOfHistory DEF TipId, NoId, Event
  <2>2. s.id \in Nat
    BY <1>4 DEF Snapshot
  <2>3. new \in Checkpoint
    BY <2>1, <2>2, <1>3, <1>5, TailCount DEF Checkpoint
  <2>4. QED
    BY <2>3, <1>1, <1>3
<1>7. new.epoch = NextEpoch /\ new.end = n /\ new.term = TipId(n) /\ new.snap = s.id
  OBVIOUS
<1> HIDE DEF new
<1>8. LatestCheckpoint' = new
  <2>1. new \in ckpts' /\ \A d \in ckpts' : d.epoch <= new.epoch
    BY <1>5, <1>6, <1>7
  <2>2. LatestCheckpoint' \in ckpts' /\ \A d \in ckpts' : d.epoch <= LatestCheckpoint'.epoch
    BY <2>1 DEF LatestCheckpoint
  <2>3. QED
    BY <2>1, <2>2, <1>5, <1>6, <1>7
<1>9. CompactedEnd' = n
  BY <1>6, <1>7, <1>8 DEF CompactedEnd
<1>10. hot' = {}
  BY <1>1, <1>3 DEF IInv, TailOK, HistoryOK
<1>11. LastSequence' = n
  BY <1>9, <1>10 DEF LastSequence
<1>12. HistoryOK' /\ TailOK'
  <2>1. HistoryOK'
    BY <1>2 DEF IInv, HistoryOK, TipId
  <2>2. TailOK'
    <3>1. (n + 1)..n = {}
      BY <1>3
    <3>2. QED
      BY <3>1, <1>2, <1>3, <1>9, <1>10 DEF IInv, TailOK, TipId
  <2>3. QED
    BY <2>1, <2>2
<1>13. CheckpointsOK'
  <2>1. \A c \in ckpts' : /\ 1 <= c.epoch /\ c.epoch <= c.end /\ c.end <= n
                          /\ c.term = TipId(c.end)
    BY <1>3, <1>5, <1>6, <1>7 DEF IInv, CheckpointsOK
  <2>2. \A c, d \in ckpts' : /\ c.epoch = d.epoch => c = d
                             /\ c.epoch < d.epoch => c.end < d.end
    BY <1>3, <1>5, <1>6, <1>7 DEF IInv, CheckpointsOK
  <2>3. QED
    BY <2>1, <2>2, <1>2 DEF CheckpointsOK, TipId
<1> DEFINE kept == [s EXCEPT !.prot = TRUE]
<1>14. kept \in Snapshot /\ kept.id = s.id /\ kept.seq = s.seq /\ kept.prot /\ s.seq = n
  BY <1>1, <1>3, <1>4 DEF Snapshot
<1>15. snaps' = (snaps \ {s}) \cup {kept}
  BY <1>1
<1> HIDE DEF kept
<1>16. AnchorsRetained'
  <2> SUFFICES ASSUME NEW c \in ckpts'
               PROVE  \E t \in snaps' : t.id = c.snap /\ t.prot /\ t.seq = c.end
    BY DEF AnchorsRetained
  <2>1. CASE c = new
    BY <2>1, <1>7, <1>14, <1>15
  <2>2. CASE c \in ckpts
    <3>1. PICK t \in snaps : t.id = c.snap /\ t.prot /\ t.seq = c.end
      BY <2>2 DEF IInv, AnchorsRetained
    <3>2. CASE t = s
      BY <3>1, <3>2, <1>14, <1>15
    <3>3. CASE t # s
      BY <3>1, <3>3, <1>15
    <3>4. QED
      BY <3>2, <3>3
  <2>3. QED
    BY <2>1, <2>2, <1>6
<1>17. SnapshotsOK'
  BY <1>2, <1>4, <1>14, <1>15 DEF IInv, SnapshotsOK
<1>18. ProvenanceOK'
  BY <1>1, <1>2, CarriedFacts DEF IInv, ProvenanceOK
<1>19. TypeOK'
  <2>1. prov' \subseteq Provenance
    BY <1>1, <1>4, CarriedFacts DEF TypeOK
  <2>2. snaps' \subseteq Snapshot /\ ckpts' \subseteq Checkpoint
    BY <1>4, <1>6, <1>14, <1>15 DEF TypeOK
  <2>3. QED
    BY <2>1, <2>2, <1>2, <1>4, <1>10 DEF TypeOK, Phases
<1>20. RestartPointSound'
  BY <1>1, <1>2, <1>3, <1>9, <1>11, <1>14, <1>15 DEF RestartPointSound
<1>21. PhaseOK'
  <2>1. FreshSnapshot'
    BY <1>1, <1>2, <1>14, <1>15 DEF IInv, PhaseOK, FreshSnapshot
  <2>2. latest' = issued'
    BY <1>2 DEF IInv, PhaseOK
  <2>3. QED
    BY <2>1, <2>2, <1>2 DEF PhaseOK
<1>22. ckpts' # {} /\ LatestCheckpoint'.epoch = NextEpoch
  BY <1>6, <1>7, <1>8
<1>23. QED
  BY <1>3, <1>9, <1>12, <1>13, <1>16, <1>17, <1>18, <1>19, <1>20, <1>21, <1>22 DEF IInv

-----------------------------------------------------------------------------
(* Pruning snapshots *)

\* The snapshot maintenance started with is the newest and is never dropped.
LEMMA FreshIsNewest ==
    ASSUME IInv, NEW f \in snaps, f.id = issued, f.seq = Len(history)
    PROVE  /\ \A t \in snaps : t # f => Newer(f, t) /\ ~Newer(t, f)
           /\ f \notin Droppable
           /\ Newest(snaps) = f
<1>1. /\ snaps \subseteq Snapshot /\ issued \in Nat /\ Len(history) \in Nat
      /\ \A t \in snaps : t.id \in Nat /\ t.seq \in Nat /\ t.id <= issued /\ t.seq <= Len(history)
      /\ \A s, t \in snaps : s.id = t.id => s = t
  BY EventsOfHistory DEF IInv, TypeOK, Snapshot, SnapshotsOK
<1>2. \A t \in snaps : t # f => Newer(f, t) /\ ~Newer(t, f)
  BY <1>1 DEF Newer
<1>3. ~Newer(f, f)
  BY <1>1 DEF Newer
<1>4. f \notin Droppable
  <2>1. {t \in Ordinary : Newer(t, f)} = {}
    BY <1>2, <1>3 DEF Ordinary
  <2>2. Cardinality({t \in Ordinary : Newer(t, f)}) = 0
    BY <2>1, FS_EmptySet
  <2>3. QED
    BY <2>2, LedgerAssumption DEF Droppable
<1>5. Newest(snaps) = f
  <2>1. /\ Newest(snaps) \in snaps
        /\ \A t \in snaps : t = Newest(snaps) \/ Newer(Newest(snaps), t)
    BY <1>1, NewestExists
  <2>2. QED
    BY <2>1, <1>2
<1>6. QED
  BY <1>2, <1>4, <1>5

LEMMA PruneOneStep == ASSUME IInv, PruneOne PROVE IInv'
<1>1. /\ pc \in {"prune", "repoint"} /\ pc' = "repoint" /\ Droppable # {}
      /\ snaps' = snaps \ {Newest(Droppable)}
      /\ UNCHANGED <<tables, latest, prepared, up, victim, refs, issued, crashes>>
  BY DEF PruneOne
<1>2. TypeOK /\ issued \in Nat /\ Len(history) \in Nat /\ snaps \subseteq Snapshot
  BY EventsOfHistory DEF IInv, TypeOK
<1>3. /\ HistoryOK' /\ TailOK' /\ CheckpointsOK' /\ ProvenanceOK'
      /\ CompactedEnd' = CompactedEnd /\ LastSequence' = LastSequence
      /\ LastSequence = Len(history)
      /\ history' = history /\ hot' = hot /\ ckpts' = ckpts
      /\ hot' \subseteq Event /\ tip' \in [seq : Nat, hash : Nat]
      /\ ckpts' \subseteq Checkpoint /\ prov' \subseteq Provenance
      /\ history' \in Seq(Event)
  BY <1>1, <1>2, TablesKept
<1>4. Newest(Droppable) \in Droppable
  <2>1. Droppable \in SUBSET Snapshot /\ Droppable \subseteq snaps
    BY <1>2 DEF Droppable, Ordinary
  <2>2. /\ \A s \in Droppable : s.seq <= Len(history) /\ s.id <= issued
        /\ \A s, t \in Droppable : s.id = t.id => s = t
    BY <2>1, <1>2 DEF IInv, SnapshotsOK
  <2>3. QED
    BY <2>1, <2>2, <1>1, <1>2, NewestExists
<1>5. PICK f \in snaps : f.id = issued /\ f.seq = Len(history)
  BY <1>1 DEF IInv, PhaseOK, FreshSnapshot
<1>6. f \in snaps'
  BY <1>1, <1>4, <1>5, FreshIsNewest
<1>7. latest = issued
  BY <1>1 DEF IInv, PhaseOK
<1>8. snaps' \subseteq snaps /\ \A s \in snaps : s.prot => s \in snaps'
  BY <1>1, <1>4 DEF Droppable, Ordinary
<1>9. AnchorsRetained' /\ SnapshotsOK'
  BY <1>1, <1>3, <1>8 DEF IInv, AnchorsRetained, SnapshotsOK
<1>10. TypeOK'
  BY <1>1, <1>2, <1>3, <1>8 DEF TypeOK, Phases
<1>11. RestartPointSound'
  <2>1. CompactedEnd \in Nat /\ CompactedEnd <= Len(history)
    BY EndType DEF IInv, TailOK
  <2>2. QED
    BY <2>1, <1>1, <1>2, <1>3, <1>5, <1>6, <1>7 DEF RestartPointSound
<1>12. PhaseOK'
  BY <1>1, <1>3, <1>5, <1>6, <1>7 DEF PhaseOK, FreshSnapshot
<1>13. QED
  BY <1>3, <1>9, <1>10, <1>11, <1>12 DEF IInv

LEMMA RepointStep == ASSUME IInv, Repoint PROVE IInv' /\ latest' = latest
<1>1. /\ pc = "repoint" /\ pc' = "idle" /\ latest' = Newest(snaps).id
      /\ UNCHANGED <<tables, snaps, prepared, up, victim, refs, issued, crashes>>
  BY DEF Repoint, Running
<1>2. PICK f \in snaps : f.id = issued /\ f.seq = Len(history)
  BY <1>1 DEF IInv, PhaseOK, FreshSnapshot
<1>3. latest' = latest
  BY <1>1, <1>2, FreshIsNewest DEF IInv, PhaseOK
<1>4. TypeOK /\ issued \in Nat
  BY DEF IInv, TypeOK
<1>5. /\ HistoryOK' /\ TailOK' /\ CheckpointsOK' /\ ProvenanceOK'
      /\ hot' \subseteq Event /\ tip' \in [seq : Nat, hash : Nat]
      /\ ckpts' \subseteq Checkpoint /\ prov' \subseteq Provenance
      /\ history' \in Seq(Event)
  BY <1>1, <1>4, TablesKept
<1>6. AnchorsRetained' /\ SnapshotsOK' /\ RestartPointSound'
  BY <1>1, <1>3, SnapshotsKept
<1>7. TypeOK'
  BY <1>1, <1>3, <1>4, <1>5 DEF TypeOK, Phases
<1>8. PhaseOK'
  BY <1>1 DEF PhaseOK
<1>9. QED
  BY <1>3, <1>5, <1>6, <1>7, <1>8 DEF IInv

-----------------------------------------------------------------------------
(* The invariant holds initially and is kept by every step *)

LEMMA InitIInv == ASSUME Init PROVE IInv
<1> USE DEF Init
<1>1. history = <<>> /\ Len(history) = 0 /\ CompactedEnd = 0
  BY DEF CompactedEnd
<1>2. TypeOK
  <2>1. history \in Seq(Event) /\ tip \in [seq : Nat, hash : Nat] /\ pc \in Phases
    BY <1>1 DEF NoId, Phases
  <2>2. up \in BOOLEAN /\ prepared \in BOOLEAN
    BY Zenon
  <2>3. latest \in Nat /\ victim \in Nat /\ issued \in Nat /\ crashes \in Nat
    BY DEF NoId
  <2>4. QED
    BY <2>1, <2>2, <2>3 DEF TypeOK
<1>3. HistoryOK /\ CheckpointsOK /\ ProvenanceOK /\ SnapshotsOK /\ AnchorsRetained
  BY <1>1 DEF HistoryOK, CheckpointsOK, ProvenanceOK, SnapshotsOK, AnchorsRetained
<1>4. TailOK
  BY <1>1 DEF TailOK, TipId, NoId
<1>5. RestartPointSound /\ PhaseOK
  BY DEF RestartPointSound, PhaseOK
<1>6. QED
  BY <1>2, <1>3, <1>4, <1>5 DEF IInv

LEMMA StepIInv == ASSUME IInv, [Next]_vars PROVE IInv'
<1>1. CASE \E t \in Types : AppendEvent(t) \/ EmitReady(t)
  BY <1>1, AppendStep
<1>2. CASE ReplaceBody
  BY <1>2, ReplaceBodyStep
<1>3. CASE Maintain
  BY <1>3, SaveSnapshotStep, PointToSnapshotStep, CompactStep, ControlStep DEF Maintain
<1>4. CASE Trim
  BY <1>4, DropProvenanceStep, DropCheckpointStep, UnprotectStep, ControlStep DEF Trim
<1>5. CASE Prune
  BY <1>5, PruneOneStep, RepointStep, ControlStep DEF Prune
<1>6. CASE ForgetReference \/ SetPrepared \/ Crash \/ Restart \/ UNCHANGED vars
  BY <1>6, ControlStep
<1>7. QED
  BY <1>1, <1>2, <1>3, <1>4, <1>5, <1>6 DEF Next

LEMMA Invariance == Spec => []IInv
<1>1. Init => IInv
  BY InitIInv
<1>2. IInv /\ [Next]_vars => IInv'
  BY StepIInv
<1>3. QED
  BY <1>1, <1>2, PTL DEF Spec

\* Every table, pointer and program counter keeps its type.
THEOREM TypeCorrect == Spec => []TypeOK
<1>1. IInv => TypeOK
  BY DEF IInv
<1>2. QED
  BY <1>1, Invariance, PTL

-----------------------------------------------------------------------------
(* The safety properties *)

\* Compaction never loses, reorders or renumbers an event: the hot table is
\* always exactly the committed history behind the latest checkpoint.
THEOREM TailNeverLost == Spec => []TailIsSuffix
<1>1. IInv => TailIsSuffix
  BY DEF IInv, TailOK, HistoryOK, TailIsSuffix
<1>2. QED
  BY <1>1, Invariance, PTL

\* latest_snapshot, once set, names a stored snapshot that is not behind the
\* compacted prefix, whatever the order of save_snapshot, compaction, pruning and
\* crashes.
THEOREM RestartPointKept == Spec => []RestartPointSound
<1>1. IInv => RestartPointSound
  BY DEF IInv
<1>2. QED
  BY <1>1, Invariance, PTL

\* prune_snapshots and the trimming of old checkpoints never take the snapshot
\* of a checkpoint row that is still stored.
THEOREM AnchorsKept == Spec => []AnchorsRetained
<1>1. IInv => AnchorsRetained
  BY DEF IInv
<1>2. QED
  BY <1>1, Invariance, PTL

\* The tail counts as many events as lie between the checkpoint and the end.
LEMMA TailLength ==
    ASSUME IInv
    PROVE  CompactedEnd + Cardinality(hot) = Len(history)
<1> DEFINE b == CompactedEnd
           n == Len(history)
           I == (b + 1)..n
           f == [i \in I |-> history[i]]
<1>1. b \in Nat /\ n \in Nat /\ b <= n
  BY EndType, EventsOfHistory DEF IInv, TailOK
<1>2. IsFiniteSet(I) /\ Cardinality(I) = n - b
  <2>1. b + 1 \in Int /\ n \in Int
    BY <1>1
  <2>2. IsFiniteSet(I) /\ Cardinality(I) = IF b + 1 > n THEN 0 ELSE n - (b + 1) + 1
    BY <2>1, FS_Interval
  <2>3. (IF b + 1 > n THEN 0 ELSE n - (b + 1) + 1) = n - b
    BY <1>1
  <2>4. QED
    BY <2>2, <2>3
<1>3. \A i, j \in I : history[i] = history[j] => i = j
  BY <1>1 DEF IInv, HistoryOK
<1>4. f \in Bijection(I, hot)
  <2>1. f \in Surjection(I, hot)
    BY DEF IInv, TailOK, Surjection
  <2>2. f \in Injection(I, hot)
    BY <2>1, <1>3 DEF Surjection, Injection, IsInjective
  <2>3. QED
    BY <2>1, <2>2 DEF Bijection
<1> HIDE DEF I, f
<1>5. Cardinality(hot) = Cardinality(I)
  BY <1>2, <1>4, FS_Bijection DEF ExistsBijection
<1>6. QED
  BY <1>1, <1>2, <1>5

LEMMA ChainLinked ==
    ASSUME IInv
    PROVE  ValidateChain
<1> DEFINE n     == Len(history)
           first == CompactedEnd + 1
           At(k) == CHOOSE e \in hot : e.seq = k
<1>1. /\ CompactedEnd \in Nat /\ n \in Nat /\ CompactedEnd <= n
      /\ CompactedEnd + Cardinality(hot) = n
      /\ hot = {history[i] : i \in first..n}
      /\ \A i \in first..n : history[i].seq = i
  BY EndType, EventsOfHistory, TailLength DEF IInv, TailOK, HistoryOK
<1>2. ckpts # {} => \E s \in snaps : s.id = LatestCheckpoint.snap /\ s.seq >= LatestCheckpoint.end
  <2>1. ASSUME ckpts # {}
        PROVE  \E s \in snaps : s.id = LatestCheckpoint.snap /\ s.seq = LatestCheckpoint.end
    BY <2>1, LatestFacts DEF IInv, AnchorsRetained
  <2>2. \A s \in snaps : s.seq \in Nat
    BY DEF IInv, TypeOK, Snapshot
  <2>3. QED
    BY <2>1, <2>2
<1>3. {e.seq : e \in hot} = first..n
  <2>1. \A e \in hot : e.seq \in first..n
    BY <1>1
  <2>2. \A i \in first..n : \E e \in hot : e.seq = i
    BY <1>1
  <2> QED
    BY <2>1, <2>2, Zenon
<1>4. ASSUME NEW e \in hot
      PROVE  e.prev = IF e.seq > first THEN At(e.seq - 1).id
                      ELSE IF ckpts = {} THEN NoId ELSE LatestCheckpoint.term
  <2>1. PICK i \in first..n : e = history[i] /\ e.seq = i
    BY <1>1
  <2> HIDE DEF At
  <2>0. CompactedEnd \in Nat /\ n \in Nat /\ first = CompactedEnd + 1
    BY <1>1
  <2> HIDE DEF n, first
  <2>2. i \in Nat /\ first <= i /\ i <= n /\ i \in 1..n
    BY <2>0
  <2>3. e.prev = TipId(i - 1)
    BY <2>1, <2>2 DEF IInv, HistoryOK, n
  <2>4. CASE i > first
    <3>1. i - 1 \in first..n /\ i - 1 # 0
      BY <2>0, <2>2, <2>4
    <3>2. history[i - 1] \in hot /\ history[i - 1].seq = i - 1
      BY <3>1, <1>1
    <3>3. \A x \in hot : x.seq = i - 1 => x = history[i - 1]
      BY <1>1
    <3>4. At(i - 1) = history[i - 1]
      BY <3>2, <3>3 DEF At
    <3>5. QED
      BY <3>1, <3>4, <2>1, <2>3, <2>4 DEF TipId
  <2>5. CASE i = first
    <3>1. i - 1 = CompactedEnd /\ ~(e.seq > first)
      BY <2>0, <2>1, <2>2, <2>5
    <3>2. ckpts = {} => TipId(CompactedEnd) = NoId
      BY DEF CompactedEnd, TipId
    <3>3. ckpts # {} => LatestCheckpoint.term = TipId(CompactedEnd)
      BY LatestFacts DEF IInv, CheckpointsOK, CompactedEnd
    <3>4. QED
      BY <3>1, <3>2, <3>3, <2>3
  <2>6. QED
    BY <2>0, <2>2, <2>4, <2>5
<1>5. tip = [seq |-> n, hash |-> LastEventHash]
  BY TipFacts DEF IInv, TailOK
<1>6. QED
  BY <1>1, <1>2, <1>3, <1>4, <1>5 DEF ValidateChain

\* The check on which load_organism, compaction and body replacement fail closed
\* succeeds in every state the store can reach: an interrupted maintenance never
\* makes an organism unloadable.
THEOREM ChainAlwaysValid == Spec => []ChainNeverBreaks
<1>1. IInv => ChainNeverBreaks
  BY ChainLinked DEF ChainNeverBreaks
<1>2. QED
  BY <1>1, Invariance, PTL

-----------------------------------------------------------------------------
(* The store implements EventLog *)

\* How much of the history the restart snapshot accounts for.
Resume == IF Loadable(latest) THEN SnapshotOf(latest).seq ELSE 0

LEMMA ResumeAt ==
    ASSUME SnapshotsOK, NEW s \in snaps, s.id = latest
    PROVE  Resume = s.seq
  BY DEF SnapshotsOK, Resume, Loadable, SnapshotOf

LEMMA ResumeAtNext ==
    ASSUME SnapshotsOK', NEW s \in snaps', s.id = latest'
    PROVE  Resume' = s.seq
  BY DEF SnapshotsOK, Resume, Loadable, SnapshotOf

\* The restart point stays where it is when the pointer does and the snapshot it
\* names is neither removed nor added.
LEMMA ResumeKept ==
    ASSUME SnapshotsOK, SnapshotsOK', latest' = latest,
           \A s \in snaps : s.id = latest => \E t \in snaps' : t.id = latest /\ t.seq = s.seq,
           \A t \in snaps' : t.id = latest => \E s \in snaps : s.id = latest
    PROVE  Resume' = Resume
<1>1. CASE Loadable(latest)
  <2>1. PICK s \in snaps : s.id = latest
    BY <1>1 DEF Loadable
  <2>2. PICK t \in snaps' : t.id = latest' /\ t.seq = s.seq
    BY <2>1
  <2>3. QED
    BY <2>1, <2>2, ResumeAt, ResumeAtNext
<1>2. CASE ~Loadable(latest)
  <2>1. ~Loadable(latest)'
    BY <1>2 DEF Loadable
  <2>2. QED
    BY <1>2, <2>1 DEF Resume
<1>3. QED
  BY <1>1, <1>2

\* An action that appends keeps what was there and adds a new identity.
LEMMA InsertExtends ==
    ASSUME IInv, IInv', NEW t \in Types, InsertEvent(t), UNCHANGED ckpts,
           Resume' = Resume \/ Resume' = Len(history')
    PROVE  Log!Extend
<1> DEFINE n == Len(history)
           ids == [i \in 1..Len(history) |-> history[i].id]
<1>1. n \in Nat /\ history \in Seq(Event) /\ history' \in Seq(Event)
  BY EventsOfHistory DEF IInv, TypeOK
<1>2. history' = Append(history, NextEvent(t))
  BY DEF InsertEvent
<1>3. Len(history') = n + 1 /\ \A i \in 1..n : history'[i] = history[i]
  BY <1>1, <1>2, AppendProperties
<1>4. \A i \in 1..n : history'[i].id < history'[n + 1].id /\ history'[i].id \in Nat /\ history'[n + 1].id \in Nat
  <2>1. \A i \in 1..(n + 1) : history'[i] \in Event
    BY <1>1, <1>3, ElementOfSeq
  <2>2. \A i \in 1..n : history'[i].id < history'[n + 1].id
    <3>1. \A i, j \in 1..Len(history') : i < j => history'[i].id < history'[j].id
      BY DEF IInv, HistoryOK
    <3>2. \A i \in 1..n : i \in 1..Len(history') /\ n + 1 \in 1..Len(history') /\ i < n + 1
      BY <1>1, <1>3
    <3>3. QED
      BY <3>1, <3>2
  <2>3. \A i \in 1..(n + 1) : history'[i].id \in Nat
    BY <2>1 DEF Event
  <2>4. \A i \in 1..n : i \in 1..(n + 1) /\ n + 1 \in 1..(n + 1)
    BY <1>1
  <2>5. QED
    BY <2>2, <2>3, <2>4
<1>5. Len(ids) = n /\ Len(ids)' = n + 1
  BY <1>1, <1>3
<1>6. \A i \in 1..n : ids'[i] = ids[i] /\ ids[i] # ids'[n + 1]
  BY <1>1, <1>3, <1>4
<1>7. CompactedEnd' = CompactedEnd
  BY DEF CompactedEnd, LatestCheckpoint
<1>8. QED
  BY <1>1, <1>3, <1>5, <1>6, <1>7 DEF Log!Extend, Resume

\* Every step is one of the log's or leaves the log alone.
LEMMA StepImplements ==
    ASSUME IInv, IInv', [Next]_vars
    PROVE  [Log!LogNext]_Log!logVars
<1> DEFINE ids  == [i \in 1..Len(history) |-> history[i].id]
           Same == history' = history /\ CompactedEnd' = CompactedEnd /\ Resume' = Resume
<1>1. /\ SnapshotsOK /\ SnapshotsOK'
      /\ issued \in Nat /\ Len(history) \in Nat /\ CompactedEnd \in Nat
      /\ \A s \in snaps : s.id \in 1..issued
      /\ latest # NoId => latest \in 1..issued
  <2>1. \A s \in snaps : s.id \in 1..issued
    BY DEF IInv, SnapshotsOK
  <2>2. latest # NoId => latest \in 1..issued
    BY <2>1 DEF IInv, RestartPointSound
  <2>3. QED
    BY <2>1, <2>2, EndType, EventsOfHistory DEF IInv, TypeOK
<1>2. ckpts' = ckpts => CompactedEnd' = CompactedEnd
  BY DEF CompactedEnd, LatestCheckpoint
<1>3. ASSUME Same PROVE UNCHANGED Log!logVars
  BY <1>3 DEF Log!logVars, Resume
<1>4. ASSUME UNCHANGED <<history, ckpts, snaps, latest>> PROVE Same
  <2>1. Resume' = Resume
    BY <1>1, <1>4, ResumeKept
  <2>2. QED
    BY <2>1, <1>2, <1>4
<1>5. ASSUME NEW t \in Types, AppendEvent(t) \/ EmitReady(t) PROVE Log!Extend
  <2>1. InsertEvent(t) /\ UNCHANGED <<ckpts, snaps, latest>>
    BY <1>5 DEF AppendEvent, EmitReady
  <2>2. Resume' = Resume
    BY <2>1, <1>1, ResumeKept
  <2>3. QED
    BY <2>1, <2>2, InsertExtends
<1>6. ASSUME ReplaceBody PROVE Log!Extend
  <2> DEFINE s == [id |-> issued + 2, seq |-> LastSequence + 1, refs |-> refs, prot |-> FALSE]
  <2>1. InsertEvent(BodyReplaced) /\ ckpts' = ckpts /\ s \in snaps' /\ latest' = s.id
    BY <1>6 DEF ReplaceBody, BodySnapshot
  <2>2. Resume' = LastSequence + 1
    BY <2>1, <1>1, ResumeAtNext
  <2>3. Len(history') = Len(history) + 1 /\ LastSequence = Len(history)
    BY <2>1, TipFacts, AppendProperties DEF IInv, TypeOK, InsertEvent
  <2>4. BodyReplaced \in Types
    BY LedgerAssumption
  <2>5. QED
    BY <2>1, <2>2, <2>3, <2>4, InsertExtends
<1>7. ASSUME SaveSnapshot PROVE Same
  <2>1. PICK s : s.id = issued + 1 /\ snaps' = snaps \cup {s}
    BY <1>7 DEF SaveSnapshot, NewId
  <2>2. UNCHANGED <<tables, latest>>
    BY <1>7 DEF SaveSnapshot
  <2>3. latest # issued + 1
    BY <1>1 DEF NoId
  <2>4. Resume' = Resume
    BY <2>1, <2>2, <2>3, <1>1, ResumeKept
  <2>5. QED
    BY <2>2, <2>4, <1>2 DEF tables
<1>8. ASSUME PointToSnapshot PROVE Log!Anchor
  <2>1. UNCHANGED <<tables, snaps>> /\ latest' = issued /\ pc = "saved"
    BY <1>8 DEF PointToSnapshot, Running
  <2>2. PICK s \in snaps : s.id = issued /\ s.seq = Len(history)
    BY <2>1 DEF IInv, PhaseOK, FreshSnapshot
  <2>3. s \in snaps' /\ s.id = latest'
    BY <2>1, <2>2
  <2>4. Resume' = Len(history)
    BY <2>2, <2>3, <1>1, ResumeAtNext
  <2>5. Len(ids) = Len(history) /\ ids' = ids /\ CompactedEnd' = CompactedEnd
    BY <2>1, <1>1, <1>2 DEF tables
  <2>6. QED
    BY <2>4, <2>5 DEF Log!Anchor, Resume
<1>9. ASSUME Compact PROVE Log!Forget
  <2>1. PICK s \in snaps : s.id = latest /\ s.seq = LastSequence
                           /\ snaps' = (snaps \ {s}) \cup {[s EXCEPT !.prot = TRUE]}
    BY <1>9 DEF Compact
  <2>2. UNCHANGED <<history, latest, tip>>
    BY <1>9 DEF Compact
  <2>3. LastSequence = Len(history)
    BY TipFacts DEF IInv
  <2>4. Resume = Len(history)
    BY <2>1, <2>3, <1>1, ResumeAt
  <2>5. [s EXCEPT !.prot = TRUE] \in snaps' /\ s \in Snapshot
    BY <2>1 DEF IInv, TypeOK
  <2>6. [s EXCEPT !.prot = TRUE].id = latest' /\ [s EXCEPT !.prot = TRUE].seq = Len(history)
    BY <2>1, <2>2, <2>3, <2>5 DEF Snapshot
  <2>7. Resume' = Len(history)
    BY <2>5, <2>6, <1>1, ResumeAtNext
  <2>8. CompactedEnd' \in CompactedEnd..Len(history)
    <3>1. CompactedEnd' = Len(history) /\ CompactedEnd <= Len(history)
      BY <1>9, CompactStep
    <3>2. QED
      BY <3>1, <1>1
  <2>9. Len(ids) = Len(history) /\ ids' = ids
    BY <2>2, <1>1
  <2>10. QED
    BY <2>4, <2>7, <2>8, <2>9 DEF Log!Forget, Resume
<1>10. ASSUME Unprotect PROVE Same
  <2>1. UNCHANGED <<tables, latest>>
    BY <1>10 DEF Unprotect
  <2>2. /\ \A s \in snaps : s.id = latest => \E t \in snaps' : t.id = latest /\ t.seq = s.seq
        /\ \A t \in snaps' : t.id = latest => \E s \in snaps : s.id = latest
    <3> DEFINE Freed(s) == IF s.id = victim THEN [s EXCEPT !.prot = FALSE] ELSE s
    <3>1. \A s \in snaps : Freed(s).id = s.id /\ Freed(s).seq = s.seq
      BY DEF IInv, TypeOK, Snapshot
    <3>2. snaps' = snaps \/ snaps' = {Freed(s) : s \in snaps}
      BY <1>10 DEF Unprotect
    <3> HIDE DEF Freed
    <3>3. QED
      BY <3>1, <3>2
  <2>3. Resume' = Resume
    BY <2>1, <2>2, <1>1, ResumeKept
  <2>4. QED
    BY <2>1, <2>3, <1>2 DEF tables
<1>11. ASSUME PruneOne PROVE Same
  <2>1. UNCHANGED <<tables, latest, issued>> /\ snaps' \subseteq snaps /\ pc \in {"prune", "repoint"}
        /\ pc' = "repoint"
    BY <1>11 DEF PruneOne
  <2>2. latest = issued
    BY <2>1 DEF IInv, PhaseOK
  <2>3. \E f \in snaps' : f.id = issued
    BY <2>1 DEF IInv, PhaseOK, FreshSnapshot
  <2>4. \A s \in snaps : s.id = latest => s \in snaps'
    BY <2>1, <2>2, <2>3, <1>1 DEF SnapshotsOK
  <2>5. Resume' = Resume
    BY <2>1, <2>4, <1>1, ResumeKept
  <2>6. QED
    BY <2>1, <2>5, <1>2 DEF tables
<1>12. ASSUME Repoint PROVE Same
  <2>1. latest' = latest /\ UNCHANGED <<tables, snaps>>
    BY <1>12, RepointStep DEF Repoint
  <2>2. QED
    BY <2>1, <1>4 DEF tables
<1>13. ASSUME \/ ForgetReference \/ SetPrepared \/ RefuseCompaction \/ NothingToCompact
              \/ AnchorsTrimmed \/ NothingToPrune \/ Crash \/ Restart
              \/ DropProvenance \/ UNCHANGED vars
       PROVE  Same
  BY <1>13, <1>4
     DEF ForgetReference, SetPrepared, RefuseCompaction, NothingToCompact, AnchorsTrimmed,
         NothingToPrune, Crash, Restart, DropProvenance, vars, durable, tables
<1>14. ASSUME DropCheckpoint PROVE Same
  <2>1. UNCHANGED <<history, snaps, latest>>
    BY <1>14 DEF DropCheckpoint
  <2>2. CompactedEnd' = CompactedEnd
    BY <1>14, DropCheckpointStep
  <2>3. Resume' = Resume
    BY <2>1, <1>1, ResumeKept
  <2>4. QED
    BY <2>1, <2>2, <2>3
<1>15. QED
  BY <1>3, <1>5, <1>6, <1>7, <1>8, <1>9, <1>10, <1>11, <1>12, <1>13, <1>14
     DEF Next, Maintain, Trim, Prune, Log!LogNext

\* The concrete store implements the append-only log: what an observer sees only
\* grows, is only ever forgotten from the front, and never past the point a
\* restart resumes from.
THEOREM StoreImplementsLog == Spec => ImplementsLog
<1>1. Init => Log!LogInit
  <2> SUFFICES ASSUME Init PROVE Log!LogInit
    OBVIOUS
  <2>1. history = <<>> /\ Len(history) = 0 /\ CompactedEnd = 0 /\ ~Loadable(latest)
    BY DEF Init, CompactedEnd, Loadable
  <2>2. [i \in 1..Len(history) |-> history[i].id] = <<>>
    BY <2>1
  <2>3. QED
    BY <2>1, <2>2 DEF Log!LogInit
<1>2. IInv /\ IInv' /\ [Next]_vars => [Log!LogNext]_Log!logVars
  BY StepImplements
<1>3. QED
  BY <1>1, <1>2, Invariance, PTL DEF Spec, ImplementsLog, Log!LogSpec

-----------------------------------------------------------------------------
(* What compaction carries over *)

\* The event is in the hot table or carried for a reference to it: unlike an event
\* carried for its type it will be carried again.
Kept(r) ==
    \/ \E e \in hot : e.id = r
    \/ \E p \in LiveProvenance : p.kind = "ref" /\ p.ev.id = r

\* What is referred to is kept, and the snapshot with which maintenance started
\* names what is referred to now.
ReferencesOK ==
    /\ \A r \in refs : Kept(r)
    /\ \A s \in snaps : s.id = latest => \A r \in s.refs : Kept(r)
    /\ pc \notin {"idle", "resume"} => \A s \in snaps : s.id = issued => s.refs = refs

IsLast(t, i) ==
    /\ history[i].type = t
    /\ \A j \in 1..Len(history) : j > i => history[j].type # t

\* The last event of a protected type can be looked up.
AnchorsOK ==
    \A t \in ProtectedTypes : \A i \in 1..Len(history) :
        IsLast(t, i) => history[i] \in Candidates(t)

CarriedIInv == IInv /\ ReferencesOK /\ AnchorsOK

\* Nothing but compaction removes an event, and trimming takes no live provenance.
LEMMA LiveKept ==
    ASSUME IInv, [Next]_vars, ~Compact
    PROVE  hot \subseteq hot' /\ LiveProvenance' = LiveProvenance
<1>1. ASSUME ckpts' = ckpts, prov' = prov PROVE LiveProvenance' = LiveProvenance
  BY <1>1 DEF LiveProvenance, LatestCheckpoint
<1>2. CASE \E t \in Types : AppendEvent(t) \/ EmitReady(t)
  BY <1>1, <1>2 DEF AppendEvent, EmitReady, InsertEvent
<1>3. CASE ReplaceBody
  BY <1>1, <1>3 DEF ReplaceBody, InsertEvent
<1>4. CASE DropProvenance
  <2>1. /\ Expired # {} /\ prov' = {p \in prov : p.epoch # NextExpired.epoch}
        /\ ckpts' = ckpts /\ hot' = hot
    BY <1>4 DEF DropProvenance
  <2>2. NextExpired \in ckpts /\ LatestCheckpoint \in ckpts /\ NextExpired # LatestCheckpoint
    BY <2>1, ExpiredFacts DEF IInv
  <2>3. NextExpired.epoch # LatestCheckpoint.epoch
    BY <2>2 DEF IInv, CheckpointsOK
  <2>4. LatestCheckpoint' = LatestCheckpoint
    BY <2>1 DEF LatestCheckpoint
  <2>5. {p \in prov' : p.epoch = LatestCheckpoint.epoch}
            = {p \in prov : p.epoch = LatestCheckpoint.epoch}
    BY <2>1, <2>3
  <2>6. QED
    BY <2>1, <2>4, <2>5 DEF LiveProvenance
<1>5. CASE DropCheckpoint
  <2>1. pc = "dropCheckpoint" /\ ckpts' = ckpts \ {NextExpired} /\ UNCHANGED <<hot, prov>>
    BY <1>5 DEF DropCheckpoint, Running
  <2>2. /\ NextExpired \in ckpts /\ LatestCheckpoint \in ckpts
        /\ NextExpired # LatestCheckpoint
        /\ \A d \in ckpts : d.epoch \in Nat /\ d.epoch <= LatestCheckpoint.epoch
        /\ \A c, d \in ckpts : c.epoch = d.epoch => c = d
    BY <2>1, ExpiredFacts DEF IInv, PhaseOK, CheckpointsOK, TypeOK, Checkpoint
  <2>3. LatestCheckpoint \in ckpts' /\ \A d \in ckpts' : d.epoch <= LatestCheckpoint.epoch
    BY <2>1, <2>2
  <2>4. LatestCheckpoint' \in ckpts' /\ \A d \in ckpts' : d.epoch <= LatestCheckpoint'.epoch
    BY <2>3 DEF LatestCheckpoint
  <2>5. LatestCheckpoint'.epoch = LatestCheckpoint.epoch
    BY <2>1, <2>2, <2>3, <2>4
  <2>6. QED
    BY <2>1, <2>2, <2>3, <2>5 DEF LiveProvenance
<1>6. CASE \/ SaveSnapshot \/ PointToSnapshot \/ Unprotect \/ PruneOne \/ Repoint
  BY <1>1, <1>6 DEF SaveSnapshot, PointToSnapshot, Unprotect, PruneOne, Repoint, tables
<1>7. CASE \/ RefuseCompaction \/ NothingToCompact \/ AnchorsTrimmed \/ NothingToPrune
           \/ ForgetReference \/ SetPrepared \/ Crash \/ Restart \/ UNCHANGED vars
  BY <1>1, <1>7 DEF RefuseCompaction, NothingToCompact, AnchorsTrimmed, NothingToPrune,
                    ForgetReference, SetPrepared, Crash, Restart, durable, vars
<1>8. QED
  BY <1>2, <1>3, <1>4, <1>5, <1>6, <1>7 DEF Next, Maintain, Trim, Prune

LEMMA KeptStays ==
    ASSUME hot \subseteq hot', LiveProvenance' = LiveProvenance, NEW r, Kept(r)
    PROVE  Kept(r)'
  BY DEF Kept

\* Steps that may replace a snapshot by one with the same references, or drop one.
LEMMA ReferencesStay ==
    ASSUME ReferencesOK, hot \subseteq hot', LiveProvenance' = LiveProvenance,
           \A s \in snaps' : \E t \in snaps : t.id = s.id /\ t.refs = s.refs,
           UNCHANGED <<latest, refs, issued>>,
           pc' \notin {"idle", "resume"} => pc \notin {"idle", "resume"}
    PROVE  ReferencesOK'
<1>1. \A r : Kept(r) => Kept(r)'
  BY KeptStays
<1>2. QED
  BY <1>1 DEF ReferencesOK

LEMMA ReferencesStep ==
    ASSUME IInv, [Next]_vars, ~Compact, ReferencesOK
    PROVE  ReferencesOK'
<1>1. hot \subseteq hot' /\ LiveProvenance' = LiveProvenance
  BY LiveKept
<1>2. \A r : Kept(r) => Kept(r)'
  BY <1>1, KeptStays
<1>3. issued \in Nat /\ \A s \in snaps : s.id \in 1..issued
  BY DEF IInv, TypeOK, SnapshotsOK
<1> USE DEF NewId
<1>4. CASE \E t \in Types : AppendEvent(t) \/ EmitReady(t)
  <2> PICK id : id = issued + 1
    OBVIOUS
  <2>1. PICK t \in Types : AppendEvent(t) \/ EmitReady(t)
    BY <1>4
  <2>2. /\ InsertEvent(t) /\ pc' = "idle" /\ snaps' = snaps /\ latest' = latest
        /\ refs' = refs \/ refs' = refs \cup {id}
    BY <2>1 DEF AppendEvent, EmitReady, Running
  <2>3. NextEvent(t) \in hot' /\ NextEvent(t).id = id
    BY <2>2 DEF InsertEvent, NextEvent
  <2>4. Kept(id)'
    BY <2>3 DEF Kept
  <2>5. QED
    BY <1>2, <2>2, <2>4 DEF ReferencesOK
<1>5. CASE ReplaceBody
  <2>1. /\ pc' = "idle" /\ refs' = refs /\ latest' = issued + 2
        /\ snaps' = snaps \cup {BodySnapshot}
    BY <1>5 DEF ReplaceBody, Running
  <2>2. BodySnapshot.id = issued + 2 /\ BodySnapshot.refs = refs
    BY DEF BodySnapshot
  <2>3. \A s \in snaps : s.id # issued + 2
    BY <1>3
  <2>4. QED
    BY <1>2, <2>1, <2>2, <2>3 DEF ReferencesOK
<1>6. CASE SaveSnapshot
  <2>1. PICK s : s = [id |-> issued + 1, seq |-> LastSequence, refs |-> refs, prot |-> FALSE]
    OBVIOUS
  <2>2. /\ snaps' = snaps \cup {s} /\ issued' = issued + 1
        /\ UNCHANGED <<latest, refs>>
    BY <1>6, <2>1 DEF SaveSnapshot
  <2>3. s.id = issued + 1 /\ s.refs = refs
    BY <2>1
  <2>4. \A t \in snaps : t.id # issued + 1
    BY <1>3
  <2>5. QED
    BY <1>2, <2>2, <2>3, <2>4 DEF ReferencesOK
<1>7. CASE PointToSnapshot
  BY <1>2, <1>7 DEF PointToSnapshot, Running, ReferencesOK
<1>8. CASE Unprotect \/ PruneOne
  <2>1. \A s \in snaps' : \E t \in snaps : t.id = s.id /\ t.refs = s.refs
    <3>1. CASE Unprotect
      <4>1. \A s \in snaps : LET f == IF s.id = victim THEN [s EXCEPT !.prot = FALSE] ELSE s
                             IN  f.id = s.id /\ f.refs = s.refs
        BY DEF IInv, TypeOK, Snapshot
      <4>2. QED
        BY <3>1, <4>1 DEF Unprotect
    <3>2. CASE PruneOne
      BY <3>2 DEF PruneOne
    <3>3. QED
      BY <1>8, <3>1, <3>2
  <2>2. QED
    BY <1>1, <1>8, <2>1, ReferencesStay DEF Unprotect, PruneOne, Running
<1>9. CASE Repoint
  <2>1. latest' = latest /\ UNCHANGED <<snaps, refs, issued>> /\ pc' = "idle"
    BY <1>9, RepointStep DEF Repoint
  <2>2. QED
    BY <1>1, <2>1, ReferencesStay
<1>10. CASE DropProvenance \/ DropCheckpoint \/ AnchorsTrimmed
  BY <1>1, <1>10, ReferencesStay DEF DropProvenance, DropCheckpoint, AnchorsTrimmed, Running, durable
<1>11. CASE \/ RefuseCompaction \/ NothingToCompact \/ NothingToPrune \/ SetPrepared
            \/ UNCHANGED vars
  BY <1>1, <1>11, ReferencesStay DEF RefuseCompaction, NothingToCompact, NothingToPrune,
                                     SetPrepared, Running, durable, vars
<1>12. CASE ForgetReference
  BY <1>2, <1>12 DEF ForgetReference, Running, ReferencesOK, durable
<1>13. CASE Crash
  BY <1>2, <1>13 DEF Crash, ReferencesOK, durable
<1>14. CASE Restart
  <2>1. /\ Loadable(latest) /\ refs' = SnapshotOf(latest).refs /\ pc' = "resume"
        /\ UNCHANGED <<snaps, latest, issued>>
    BY <1>14 DEF Restart, durable
  <2>2. SnapshotOf(latest) \in snaps /\ SnapshotOf(latest).id = latest
    BY <2>1 DEF Loadable, SnapshotOf
  <2>3. QED
    BY <1>2, <2>1, <2>2 DEF ReferencesOK
<1>15. QED
  BY <1>4, <1>5, <1>6, <1>7, <1>8, <1>9, <1>10, <1>11, <1>12, <1>13, <1>14
     DEF Next, Maintain, Trim, Prune
\* What can be looked up is what was committed, and a last event is found.
LEMMA CandidatesFacts ==
    ASSUME IInv, NEW t
    PROVE  \A e \in Candidates(t) : \E i \in 1..Len(history) : e = history[i] /\ e.type = t
<1>1. CompactedEnd \in Nat /\ Len(history) \in Nat
  BY EndType, EventsOfHistory DEF IInv
<1>2. \A e \in hot : \E i \in 1..Len(history) : e = history[i]
  BY <1>1 DEF IInv, TailOK
<1>3. \A p \in LiveProvenance : \E i \in 1..Len(history) : p.ev = history[i]
  BY DEF IInv, ProvenanceOK, LiveProvenance
<1>4. QED
  BY <1>2, <1>3 DEF Candidates

LEMMA LastIsFound ==
    ASSUME IInv, AnchorsOK, NEW t \in ProtectedTypes, NEW i \in 1..Len(history), IsLast(t, i)
    PROVE  Candidates(t) # {} /\ LastEventOfType(t) = history[i]
<1>1. history[i] \in Candidates(t)
  BY DEF AnchorsOK
<1>2. \A j \in 1..Len(history) : history[j].seq = j
  BY DEF IInv, HistoryOK
<1>3. ASSUME NEW e \in Candidates(t)
      PROVE  e.seq <= history[i].seq /\ (history[i].seq <= e.seq => e = history[i])
  <2>1. PICK j \in 1..Len(history) : e = history[j] /\ e.type = t
    BY CandidatesFacts
  <2>2. j <= i
    BY <2>1, EventsOfHistory DEF IsLast, IInv
  <2>3. e.seq = j /\ history[i].seq = i
    BY <1>2, <2>1
  <2>4. i \in Nat /\ j \in Nat
    BY EventsOfHistory DEF IInv
  <2>5. i <= j => i = j
    BY <2>2, <2>4
  <2>6. QED
    BY <2>1, <2>2, <2>3, <2>5
<1>4. PICK e \in Candidates(t) : /\ e = LastEventOfType(t)
                                /\ \A f \in Candidates(t) : f.seq <= e.seq
  BY <1>1, <1>3 DEF LastEventOfType
<1>5. QED
  BY <1>1, <1>3, <1>4

LEMMA AnchorsStep ==
    ASSUME IInv, IInv', [Next]_vars, ~Compact, AnchorsOK
    PROVE  AnchorsOK'
<1>1. hot \subseteq hot' /\ LiveProvenance' = LiveProvenance
  BY LiveKept
<1>2. ASSUME NEW t PROVE Candidates(t) \subseteq Candidates(t)'
  BY <1>1 DEF Candidates
<1>3. CASE \E t \in Types : InsertEvent(t)
  <2> PICK n : n = Len(history)
    OBVIOUS
  <2>1. PICK u \in Types : InsertEvent(u)
    BY <1>3
  <2> PICK new : new = NextEvent(u)
    OBVIOUS
  <2>2. history \in Seq(Event) /\ n \in Nat /\ history' = Append(history, new) /\ new \in hot'
    BY <2>1, EventsOfHistory DEF IInv, TypeOK, InsertEvent
  <2>3. /\ Len(history') = n + 1 /\ history'[n + 1] = new
        /\ \A i \in 1..n : history'[i] = history[i]
    BY <2>2
  <2>4. \A i \in 1..(n + 1) : i \in 1..n \/ i = n + 1
    BY <2>2
  <2>5. ASSUME NEW t \in ProtectedTypes, NEW i \in 1..(n + 1), IsLast(t, i)'
        PROVE  history'[i] \in Candidates(t)'
    <3>1. history'[i].type = t /\ \A j \in 1..(n + 1) : j > i => history'[j].type # t
      BY <2>3, <2>5 DEF IsLast
    <3>2. CASE i = n + 1
      BY <2>2, <2>3, <3>1, <3>2 DEF Candidates
    <3>3. CASE i \in 1..n
      <4>1. \A j \in 1..n : j \in 1..(n + 1) /\ history'[j] = history[j]
        BY <2>2, <2>3
      <4>2. IsLast(t, i)
        BY <3>1, <3>3, <4>1 DEF IsLast
      <4>3. history[i] \in Candidates(t)
        BY <3>3, <4>2 DEF AnchorsOK
      <4>4. QED
        BY <1>2, <3>3, <4>1, <4>3
    <3>4. QED
      BY <2>4, <3>2, <3>3
  <2>6. QED
    BY <2>3, <2>5 DEF AnchorsOK
<1>4. ASSUME history' = history
      PROVE  AnchorsOK'
  BY <1>2, <1>4 DEF AnchorsOK, IsLast
<1>5. (\E t \in Types : InsertEvent(t)) \/ history' = history
  <2>1. CASE (\E t \in Types : AppendEvent(t) \/ EmitReady(t)) \/ ReplaceBody
    BY <2>1, LedgerAssumption DEF AppendEvent, EmitReady, ReplaceBody, LedgerAssumption
  <2>2. CASE \/ SaveSnapshot \/ PointToSnapshot \/ Unprotect \/ PruneOne \/ Repoint
             \/ DropProvenance \/ DropCheckpoint \/ SetPrepared
    BY <2>2 DEF SaveSnapshot, PointToSnapshot, Unprotect, PruneOne, Repoint, tables,
                DropProvenance, DropCheckpoint, SetPrepared
  <2>3. CASE \/ RefuseCompaction \/ NothingToCompact \/ AnchorsTrimmed \/ NothingToPrune
             \/ ForgetReference \/ Crash \/ Restart \/ UNCHANGED vars
    BY <2>3 DEF RefuseCompaction, NothingToCompact, AnchorsTrimmed, NothingToPrune,
                ForgetReference, Crash, Restart, vars
  <2>4. QED
    BY <2>1, <2>2, <2>3 DEF Next, Maintain, Trim, Prune
<1>6. QED
  BY <1>3, <1>4, <1>5

\* Compaction carries over every event that its snapshot names and the last event
\* of every protected type.
LEMMA CompactCarries ==
    ASSUME IInv, IInv', Compact, ReferencesOK, AnchorsOK
    PROVE  ReferencesOK' /\ AnchorsOK'
<1>1. PICK s \in snaps :
        /\ s.id = latest
        /\ snaps' = (snaps \ {s}) \cup {[s EXCEPT !.prot = TRUE]}
        /\ prov' = prov \cup CarriedProvenance(s.refs)
  BY DEF Compact
<1>2. /\ pc = "maintain" /\ latest = issued
      /\ UNCHANGED <<latest, refs, history, issued>>
  BY DEF Compact, Running, IInv, PhaseOK
<1>3. s.refs = refs
  BY <1>1, <1>2 DEF ReferencesOK
<1>4. LiveProvenance' = {p \in prov' : p.epoch = NextEpoch}
  BY CompactStep DEF LiveProvenance
<1>5. \A r \in refs : Kept(r)'
  <2> TAKE r \in refs
  <2> DEFINE Found == hot \cup {p.ev : p \in {q \in LiveProvenance : q.kind = "ref"}}
  <2>1. PICK e \in Found : e.id = r
    BY DEF ReferencesOK, Kept
  <2> PICK p : p = [epoch |-> NextEpoch, kind |-> "ref", ev |-> e]
    OBVIOUS
  <2>2. p \in CarriedProvenance(s.refs)
    BY <1>3, <2>1 DEF CarriedProvenance, ProvenanceOf
  <2>3. p.epoch = NextEpoch /\ p.kind = "ref" /\ p.ev = e
    OBVIOUS
  <2>4. p \in LiveProvenance'
    BY <1>1, <1>4, <2>2, <2>3
  <2>5. QED
    BY <2>1, <2>3, <2>4 DEF Kept
<1>6. ReferencesOK'
  <2>1. [s EXCEPT !.prot = TRUE].id = s.id /\ [s EXCEPT !.prot = TRUE].refs = s.refs
    BY DEF IInv, TypeOK, Snapshot
  <2>2. \A t \in snaps' : t.id = latest => t.refs = refs
    BY <1>1, <1>2, <1>3, <2>1 DEF ReferencesOK
  <2>3. QED
    BY <1>2, <1>5, <2>2 DEF ReferencesOK
<1>7. AnchorsOK'
  <2> SUFFICES ASSUME NEW t \in ProtectedTypes, NEW i \in 1..Len(history), IsLast(t, i)
               PROVE  history[i] \in Candidates(t)'
    BY <1>2 DEF AnchorsOK, IsLast
  <2> PICK e : e = history[i]
    OBVIOUS
  <2>1. Candidates(t) # {} /\ LastEventOfType(t) = e /\ e.type = t
    BY LastIsFound DEF IsLast
  <2> PICK p : p = [epoch |-> NextEpoch, kind |-> "type", ev |-> e]
    OBVIOUS
  <2>2. p \in CarriedProvenance(s.refs)
    BY <2>1 DEF CarriedProvenance, ProvenanceOf
  <2>3. p.epoch = NextEpoch /\ p.ev = e
    OBVIOUS
  <2>4. p \in LiveProvenance'
    BY <1>1, <1>4, <2>2, <2>3
  <2>5. QED
    BY <2>1, <2>3, <2>4 DEF Candidates
<1>8. QED
  BY <1>6, <1>7

LEMMA CarriedInvariance == Spec => []CarriedIInv
<1>1. Init => CarriedIInv
  <2> SUFFICES ASSUME Init PROVE CarriedIInv
    OBVIOUS
  <2>1. ReferencesOK
    BY DEF Init, ReferencesOK
  <2>2. AnchorsOK
    BY DEF Init, AnchorsOK
  <2>3. QED
    BY <2>1, <2>2, InitIInv DEF CarriedIInv
<1>2. CarriedIInv /\ [Next]_vars => CarriedIInv'
  BY StepIInv, ReferencesStep, AnchorsStep, CompactCarries DEF CarriedIInv
<1>3. QED
  BY <1>1, <1>2, PTL DEF Spec

\* An event id named by live material state, or by the state a restart would load,
\* can be resolved, whatever compaction, trimming and crashes came between.
THEOREM ReferencesKept == Spec => []ReferencesResolvable
<1>1. ASSUME ReferencesOK
      PROVE  ReferencesResolvable
  <2>1. ASSUME NEW r, Kept(r)
        PROVE  \E e \in hot \cup {p.ev : p \in LiveProvenance} : e.id = r
    BY <2>1 DEF Kept
  <2>2. QED
    BY <1>1, <2>1 DEF ReferencesOK, ReferencesResolvable
<1>2. QED
  BY <1>1, CarriedInvariance, PTL DEF CarriedIInv

\* The lookup by type answers with the last attachment event ever committed, after
\* every compaction: load_organism rebuilds the body from the right one.
THEOREM AttachmentsFound == Spec => []LastAttachmentFound
<1>1. ASSUME CarriedIInv
      PROVE  LastAttachmentFound
  <2> SUFFICES ASSUME NEW t \in ProtectedTypes, NEW all,
                      all = {i \in 1..Len(history) : history[i].type = t}, all # {}
               PROVE  /\ Candidates(t) # {}
                      /\ \A i \in all : history[i].seq <= LastEventOfType(t).seq
                      /\ \E i \in all : history[i] = LastEventOfType(t)
    BY DEF LastAttachmentFound
  <2>1. IInv /\ AnchorsOK /\ Len(history) \in Nat
    BY <1>1, EventsOfHistory DEF CarriedIInv, IInv
  <2>2. all \in SUBSET Nat /\ \A i \in all : i <= Len(history)
    BY <2>1
  <2>3. PICK k \in all : \A i \in all : i <= k
    BY <2>1, <2>2, MaxExists
  <2>4. k \in 1..Len(history) /\ IsLast(t, k)
    <3>1. \A j \in 1..Len(history) : j > k => j \notin all
      BY <2>2, <2>3
    <3>2. QED
      BY <2>3, <3>1 DEF IsLast
  <2>5. Candidates(t) # {} /\ LastEventOfType(t) = history[k]
    BY <2>1, <2>4, LastIsFound
  <2>6. \A i \in 1..Len(history) : history[i].seq = i
    BY <2>1 DEF IInv, HistoryOK
  <2>7. QED
    BY <2>3, <2>4, <2>5, <2>6
<1>2. QED
  BY <1>1, CarriedInvariance, PTL

-----------------------------------------------------------------------------
(* How long the hot tail gets (HotTail) *)

\* Events of the tick in progress, or of the tick that maintenance refused.
Unfinished == IF phase \in {"ticking", "failed"} THEN emitted ELSE 0

\* Why the bound holds: a tick starts from a tail that maintenance left below
\* Trigger, apart from stray events, and adds what it has emitted.  Neither
\* conjunct of TailExcessBounded is inductive without it.
TailAccounted ==
    /\ tail <= Trigger + stray + Unfinished
    /\ phase = "failed" => tail > HotTailMax

TailIInv == TailTypeOK /\ TailAccounted

LEMMA TriggerType == Trigger \in Nat
  BY HotTailAssumption, ConfigAssumption DEF Trigger

LEMMA TailInitIInv == TailInit => TailIInv
  BY HotTailAssumption, ConfigAssumption, TriggerType
     DEF TailInit, TailIInv, TailTypeOK, TailPhases, TailAccounted, Unfinished

LEMMA TailStepIInv == TailIInv /\ [TailNext]_tailVars => TailIInv'
<1> SUFFICES ASSUME TailIInv, [TailNext]_tailVars PROVE TailIInv'
  OBVIOUS
<1> USE HotTailAssumption, ConfigAssumption, TriggerType
<1> USE DEF TailIInv, TailTypeOK, TailPhases, TailAccounted, Unfinished
<1>1. CASE BeginTick
  BY <1>1 DEF BeginTick
<1>2. CASE EmitEvent
  BY <1>2 DEF EmitEvent
<1>3. CASE EndTick
  BY <1>3 DEF EndTick, TailFull
<1>4. CASE SnapshotTail
  BY <1>4 DEF SnapshotTail, TailFull
<1>5. CASE CompactTail
  BY <1>5 DEF CompactTail
<1>6. CASE RefuseTail
  BY <1>6 DEF RefuseTail
<1>7. CASE Intake
  BY <1>7 DEF Intake
<1>8. CASE StopProcess
  BY <1>8 DEF StopProcess
<1>9. CASE LoadTail
  BY <1>9 DEF LoadTail
<1>10. CASE UNCHANGED tailVars
  BY <1>10 DEF tailVars
<1>11. QED
  BY <1>1, <1>2, <1>3, <1>4, <1>5, <1>6, <1>7, <1>8, <1>9, <1>10 DEF TailNext

LEMMA TailCounted == TailSpec => []TailIInv
<1>1. QED
  BY TailInitIInv, TailStepIInv, PTL DEF TailSpec

\* Every variable of the hot-tail model keeps its type.
THEOREM TailTypeCorrect == TailSpec => []TailTypeOK
<1>1. TailIInv => TailTypeOK
  BY DEF TailIInv
<1>2. QED
  BY <1>1, TailCounted, PTL

\* The hot tail exceeds ledger_hot_tail_event_max by no more than the events that
\* were appended outside completed ticks, and without such events
\* snapshot_if_due never refuses to maintain the ledger.
THEOREM ExcessBounded == TailSpec => []TailExcessBounded
<1>1. TailIInv => TailExcessBounded
  BY HotTailAssumption, ConfigAssumption
     DEF TailIInv, TailTypeOK, TailPhases, TailAccounted, TailExcessBounded,
         Unfinished, Trigger
<1>2. QED
  BY <1>1, TailCounted, PTL
=============================================================================
