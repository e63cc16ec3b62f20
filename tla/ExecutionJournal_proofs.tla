----------------------- MODULE ExecutionJournal_proofs ------------------------
(***************************************************************************)
(* Proofs about the execution journal, for every set of executions and of  *)
(* effects, every choice of lossy and yielding ones, every budget and      *)
(* number of crashes.                                                      *)
(*                                                                         *)
(* The inductive invariant ties the rows to the committed history (RowsOK),*)
(* the commit in progress to both (CallOK), and keeps every habitat state  *)
(* the program holds on record (StatesRecorded, EventsGrounded): the       *)
(* engine's, the snapshot's and the ones events start in.  On it rests the *)
(* refinement: every step is one of BranchingWorld, or none.               *)
(***************************************************************************)
EXTENDS ExecutionJournal, FiniteSetTheorems, SequenceTheorems, WellFoundedInduction, TLAPS

\* The rows say what is in the history, and no execution is in it twice.
RowsOK ==
    /\ \A i, j \in DOMAIN applied : applied[i] = applied[j] => i = j
    /\ \A e \in Executions :
        /\ journal[e] = "COMMITTED_SUCCESS" <=> \E i \in DOMAIN applied : applied[i] = e
        /\ journal[e] = "absent" <=> request[e].validation = "none"
        /\ journal[e] = "absent" => request[e].caller = "none"

\* A commit works on an undecided execution, and what it is about to install is on
\* record.
CallOK ==
    /\ ~Serving => call = NoCall
    /\ call.stage = "prepared" => journal[call.exec] = "PREPARED"
    /\ call.stage = "install" => Append(mem, EffectOf[call.exec]) \in Recorded
    /\ call.stage = "finish" => call.caller = "tick"
    /\ call.stage # "none" /\ call.caller = "tick" => request[call.exec].caller = "tick"

\* A success that is still in evidence can be found among the habitat events.
EvidenceOK ==
    \A i \in DOMAIN hot :
        hot[i].kind = "outcome" /\ hot[i].success =>
            \E j \in DOMAIN hot : hot[j].kind = "habitat" /\ hot[j].exec = hot[i].exec

\* The states of the engine and of the snapshot are on record, and commits led to
\* every state that is.
StatesRecorded ==
    /\ Serving => mem \in Recorded
    /\ snap.habitat \in Recorded
    /\ Recorded \subseteq worlds

\* Habitat events start in states on record.
EventsGrounded ==
    \A i \in HabitatEvents :
        hot[i].prior # ckpt => \E j \in HabitatEvents : j < i /\ hot[i].prior = After(hot[j])

\* The effects in the body are those in the habitat.
Matching(habitat, body) == \A f \in Yielding : FromCalls(f) => body[f] = Times(habitat, f)

EffectsOK ==
    /\ Serving => Matching(mem, phys)
    /\ Matching(snap.habitat, snap.phys)
    /\ engine = "required" => phys = snap.phys

IInv ==
    /\ TypeOK /\ RowsOK /\ CallOK /\ PreparedHasNoEvidence /\ EvidenceOK
    /\ StatesRecorded /\ EventsGrounded /\ EffectsOK

-----------------------------------------------------------------------------
(* Sequences and sets of numbers *)

LEMMA Appended ==
    ASSUME NEW T, NEW s \in Seq(T), NEW x \in T
    PROVE  /\ Append(s, x) \in Seq(T) /\ Len(s) \in Nat /\ Len(Append(s, x)) = Len(s) + 1
           /\ DOMAIN s = 1..Len(s) /\ DOMAIN Append(s, x) = 1..(Len(s) + 1)
           /\ \A i \in 1..Len(s) : Append(s, x)[i] = s[i]
           /\ Append(s, x)[Len(s) + 1] = x
  OBVIOUS

LEMMA PrefixMeaning ==
    ASSUME NEW T, NEW s \in Seq(T), NEW t \in Seq(T)
    PROVE  IsPrefix(s, t) <=> Len(s) <= Len(t) /\ \A i \in 1..Len(s) : s[i] = t[i]
  <1>1. ASSUME Len(s) <= Len(t)
        PROVE  /\ SubSeq(t, 1, Len(s)) \in Seq(T) /\ Len(SubSeq(t, 1, Len(s))) = Len(s)
               /\ \A i \in 1..Len(s) : SubSeq(t, 1, Len(s))[i] = t[i]
    BY <1>1
  <1>2. SubSeq(s, 1, Len(s)) = s
    OBVIOUS
  <1>3. ASSUME Len(s) <= Len(t), \A i \in 1..Len(s) : s[i] = t[i]
        PROVE  SubSeq(t, 1, Len(s)) = s
    BY <1>1, <1>3
  <1> QED BY <1>1, <1>2, <1>3 DEF IsPrefix

LEMMA PrefixReflexive ==
    ASSUME NEW T, NEW s \in Seq(T)
    PROVE  IsPrefix(s, s)
  BY DEF IsPrefix

LEMMA PrefixTransitive ==
    ASSUME NEW T, NEW s \in Seq(T), NEW t \in Seq(T), NEW u \in Seq(T),
           IsPrefix(s, t), IsPrefix(t, u)
    PROVE  IsPrefix(s, u)
  BY PrefixMeaning

LEMMA PrefixOfAppended ==
    ASSUME NEW T, NEW s \in Seq(T), NEW x \in T
    PROVE  IsPrefix(s, Append(s, x))
  <1>1. PICK t \in Seq(T) : t = Append(s, x)
    BY Appended
  <1>2. Len(s) <= Len(t) /\ \A i \in 1..Len(s) : s[i] = t[i]
    BY <1>1, Appended
  <1>3. IsPrefix(s, t)
    BY <1>2, PrefixMeaning
  <1> QED BY <1>1, <1>3

LEMMA TimesAppended ==
    ASSUME NEW T, NEW s \in Seq(T), NEW x \in T, NEW f
    PROVE  /\ Times(s, f) \in Nat
           /\ Times(Append(s, x), f) = IF x = f THEN Times(s, f) + 1 ELSE Times(s, f)
  <1> DEFINE S == {i \in 1..Len(s) : s[i] = f}
  <1>1. PICK t \in Seq(T) : t = Append(s, x)
    BY Appended
  <1>2. PICK n \in Nat : n = Len(s)
    OBVIOUS
  <1>3. /\ Len(t) = n + 1 /\ t[n + 1] = x
        /\ \A i \in 1..n : t[i] = s[i]
    BY <1>1, <1>2, Appended
  <1>4. IsFiniteSet(S)
    <2>1. IsFiniteSet(1..n)
      BY <1>2, FS_Interval
    <2> QED BY <1>2, <2>1, FS_Subset
  <1>5. {i \in 1..Len(t) : t[i] = f} = IF x = f THEN S \cup {n + 1} ELSE S
    <2>1. \A i \in 1..(n + 1) : i \in 1..n \/ i = n + 1
      BY <1>2
    <2>2. \A i \in 1..n : i \in 1..(n + 1)
      BY <1>2
    <2> QED BY <1>2, <1>3, <2>1, <2>2
  <1>6. n + 1 \notin S
    BY <1>2
  <1> HIDE DEF S
  <1>7. Cardinality(S) \in Nat /\ Cardinality(S \cup {n + 1}) = Cardinality(S) + 1
    BY <1>4, <1>6, FS_CardinalityType, FS_AddElement
  <1> QED BY <1>1, <1>5, <1>7 DEF Times, S

\* Induction up to m over a set: what a property at n is, is in S.
LEMMA UpTo ==
    ASSUME NEW S, NEW m \in Nat, 0 \in S,
           \A n \in Nat : n < m /\ n \in S => n + 1 \in S
    PROVE  \A n \in 0..m : n \in S
  <1> SUFFICES ASSUME NEW n \in 0..m, n \notin S
               PROVE  FALSE
    OBVIOUS
  <1> DEFINE R == {p \in Nat \X Nat : p[1] < p[2]}
             Missing == {k \in 0..m : k \notin S}
  <1>1. IsWellFoundedOn(R, Nat)
    BY NatLessThanWellFounded DEF OpToRel
  <1>2. Missing \subseteq Nat /\ Missing # {}
    OBVIOUS
  <1> HIDE DEF Missing, R
  <1>3. PICK k \in Missing : \A j \in Missing : ~ (<<j, k>> \in R)
    BY <1>1, <1>2, WFMin
  <1> USE DEF Missing
  <1>4. k \in Nat /\ k # 0 /\ k - 1 \in Nat /\ k - 1 < m
    BY <1>3
  <1>5. <<k - 1, k>> \in R
    BY <1>4 DEF R
  <1>6. k - 1 \in S
    BY <1>3, <1>4, <1>5
  <1>7. k \in S
    BY <1>4, <1>6
  <1> QED BY <1>3, <1>7

-----------------------------------------------------------------------------
(* The states on record *)

\* The ledger is extended, nothing in it changes.
Extended ==
    /\ hot' \in Seq(HotEvent) /\ Len(hot) <= Len(hot') /\ ckpt' = ckpt
    /\ \A i \in 1..Len(hot) : hot'[i] = hot[i]

\* The events of e's success follow the ledger's tail from position n on.
SucceededAt(n, e) ==
    /\ Extended /\ n \in 1..Len(hot')
    /\ hot'[n].kind = "habitat" /\ hot'[n].exec = e
    /\ hot'[n].prior = mem /\ hot'[n].success
    /\ \A i \in (n + 1)..Len(hot') :
           hot'[i].kind # "habitat" /\ hot'[i].exec = e /\ hot'[i].success

\* Events that are none of the habitat's record nothing about it.
LEMMA NothingRecorded ==
    ASSUME hot \in Seq(HotEvent), Extended, EventsGrounded,
           \A i \in (Len(hot) + 1)..Len(hot') : hot'[i].kind # "habitat"
    PROVE  Recorded' = Recorded /\ EventsGrounded'
  <1>1. DOMAIN hot = 1..Len(hot) /\ DOMAIN hot' = 1..Len(hot')
    BY DEF Extended
  <1>2. \A i \in 1..Len(hot') : i \in 1..Len(hot) \/ i \in (Len(hot) + 1)..Len(hot')
    BY DEF Extended
  <1>3. \A i \in 1..Len(hot) : i \in 1..Len(hot')
    BY DEF Extended
  <1>4. HabitatEvents' = HabitatEvents /\ \A i \in HabitatEvents : hot'[i] = hot[i]
    BY <1>1, <1>2, <1>3 DEF HabitatEvents, Extended
  <1>5. Recorded' = Recorded
    BY <1>4 DEF Recorded, After, Extended
  <1>6. \A i \in HabitatEvents : After(hot'[i]) = After(hot[i])
    BY <1>4 DEF After
  <1>7. EventsGrounded'
    <2>1. ckpt' = ckpt /\ (\A i : After(hot[i])' = After(hot'[i]))
      BY DEF Extended, After
    <2> QED BY <1>4, <1>6, <2>1 DEF EventsGrounded
  <1> QED BY <1>5, <1>7

\* A success puts one more state on record, and starts from one that was there.
LEMMA SuccessRecorded ==
    ASSUME hot \in Seq(HotEvent), EventsGrounded, mem \in Recorded,
           NEW n, n = Len(hot) + 1, NEW e, SucceededAt(n, e)
    PROVE  Recorded' = Recorded \cup {Append(mem, EffectOf[e])} /\ EventsGrounded'
  <1>1. /\ DOMAIN hot = 1..Len(hot) /\ DOMAIN hot' = 1..Len(hot') /\ Len(hot) \in Nat
        /\ ckpt' = ckpt /\ \A i \in 1..Len(hot) : i \in 1..Len(hot') /\ hot'[i] = hot[i]
    BY DEF SucceededAt, Extended
  <1>2. \A i \in 1..Len(hot') : i \in 1..Len(hot) \/ i = n \/ i \in (n + 1)..Len(hot')
    BY DEF SucceededAt, Extended
  <1>3. /\ HabitatEvents' = HabitatEvents \cup {n}
        /\ \A i \in HabitatEvents : hot'[i] = hot[i] /\ i < n
    BY <1>1, <1>2 DEF HabitatEvents, SucceededAt
  <1>4. After(hot'[n]) = Append(mem, EffectOf[e])
    BY DEF SucceededAt, After
  <1>5. Recorded' = Recorded \cup {Append(mem, EffectOf[e])}
    <2>1. {After(hot'[i]) : i \in HabitatEvents'}
              = {After(hot[i]) : i \in HabitatEvents} \cup {After(hot'[n])}
      BY <1>3
    <2>2. Recorded' = {ckpt'} \cup {After(hot'[i]) : i \in HabitatEvents'}
      BY DEF Recorded, After
    <2> QED BY <1>1, <1>4, <2>1, <2>2 DEF Recorded
  <1>6. ASSUME NEW i \in HabitatEvents', hot'[i].prior # ckpt
        PROVE  \E j \in HabitatEvents' : j < i /\ hot'[i].prior = After(hot'[j])
    <2>1. CASE i \in HabitatEvents
      <3>1. PICK j \in HabitatEvents : j < i /\ hot[i].prior = After(hot[j])
        BY <1>3, <1>6, <2>1 DEF EventsGrounded
      <3> QED BY <1>3, <2>1, <3>1
    <2>2. CASE i = n
      <3>1. PICK j \in HabitatEvents : mem = After(hot[j])
        BY <1>6, <2>2 DEF Recorded, SucceededAt
      <3>2. hot'[i].prior = mem
        BY <2>2 DEF SucceededAt
      <3> QED BY <1>3, <2>2, <3>1, <3>2
    <2> QED BY <1>3, <2>1, <2>2
  <1>7. EventsGrounded'
    BY <1>1, <1>6 DEF EventsGrounded, After
  <1> QED BY <1>5, <1>7

-----------------------------------------------------------------------------
(* The parts of the invariant *)

LEMMA CallInProgress ==
    ASSUME TypeOK, call.stage # "none"
    PROVE  /\ call \in Call /\ call # NoCall
           /\ call.stage \in Stages /\ call.exec \in Executions
           /\ call.validation \in Validations /\ call.caller \in Callers
           /\ EffectOf[call.exec] \in Effects
  BY JournalAssumption DEF TypeOK, NoCall, Call, JournalAssumption

LEMMA HotEvents ==
    ASSUME TypeOK
    PROVE  \A i \in DOMAIN hot : /\ hot[i] \in HotEvent /\ hot[i].exec \in Executions
                                 /\ EffectOf[hot[i].exec] \in Effects
                                 /\ hot[i].prior \in Seq(Effects)
                                 /\ After(hot[i]) \in Seq(Effects)
  <1>1. hot \in Seq(HotEvent)
    BY DEF TypeOK
  <1>2. \A i \in DOMAIN hot : hot[i] \in HotEvent
    BY <1>1
  <1>3. \A event \in HotEvent : /\ event.exec \in Executions /\ event.prior \in Seq(Effects)
                                /\ EffectOf[event.exec] \in Effects
    BY JournalAssumption DEF HotEvent, JournalAssumption
  <1> QED BY <1>2, <1>3, Appended DEF After

\* What concerns the ledger and the history stays true while both stay as they are.
LEMMA LedgerKept ==
    ASSUME IInv, UNCHANGED <<journal, hot, ckpt, applied, request>>
    PROVE  /\ RowsOK' /\ PreparedHasNoEvidence' /\ EvidenceOK' /\ EventsGrounded'
           /\ Recorded' = Recorded
  <1>1. RowsOK' /\ PreparedHasNoEvidence' /\ EvidenceOK'
    BY DEF IInv, RowsOK, PreparedHasNoEvidence, EvidenceOK
  <1>2. HabitatEvents' = HabitatEvents
    BY DEF HabitatEvents
  <1>3. EventsGrounded' /\ Recorded' = Recorded
    BY <1>2 DEF IInv, EventsGrounded, Recorded, After
  <1> QED BY <1>1, <1>3

\* An effect received by body and habitat alike.
LEMMA EffectReceived ==
    ASSUME NEW h \in Seq(Effects), NEW p \in [Effects -> Nat], NEW e \in Executions,
           Matching(h, p)
    PROVE  /\ Received(p, e) \in [Effects -> Nat]
           /\ Matching(Append(h, EffectOf[e]), Received(p, e))
  <1> DEFINE x == EffectOf[e]
  <1>1. x \in Effects /\ Yielding \subseteq Effects
    BY JournalAssumption DEF JournalAssumption
  <1>2. Received(p, e) = IF x \in Yielding THEN [p EXCEPT ![x] = @ + 1] ELSE p
    BY DEF Received
  <1> HIDE DEF x
  <1>3. PICK q : q = Received(p, e)
    OBVIOUS
  <1>4. /\ q \in [Effects -> Nat]
        /\ \A f \in Yielding : q[f] = IF f = x THEN p[f] + 1 ELSE p[f]
    BY <1>1, <1>2, <1>3
  <1>5. \A f \in Yielding :
            Times(Append(h, x), f) = IF x = f THEN Times(h, f) + 1 ELSE Times(h, f)
    BY <1>1, TimesAppended
  <1>6. Matching(Append(h, x), q)
    BY <1>4, <1>5 DEF Matching
  <1> QED BY <1>3, <1>4, <1>6 DEF x

-----------------------------------------------------------------------------
(* Every step preserves it *)

LEMMA InitOK ==
    ASSUME Init
    PROVE  IInv
  <1>1. <<>> \in Seq(Effects) /\ <<>> \in Seq(Executions) /\ <<>> \in Seq(HotEvent)
    OBVIOUS
  <1>2. TypeOK
    BY <1>1 DEF Init, TypeOK, Status, Snapshot, NoBody, Request
  <1>3. RowsOK /\ PreparedHasNoEvidence /\ EvidenceOK
    BY DEF Init, RowsOK, PreparedHasNoEvidence, EvidenceOK
  <1>4. CallOK
    BY DEF Init, CallOK, NoCall
  <1>5. HabitatEvents = {} /\ Recorded = {<<>>}
    BY DEF Init, HabitatEvents, Recorded
  <1>6. StatesRecorded /\ EventsGrounded
    BY <1>5 DEF Init, StatesRecorded, EventsGrounded
  <1>7. \A f : Times(<<>>, f) = 0
    <2>1. \A f : {i \in 1..Len(<<>>) : <<>>[i] = f} = {}
      OBVIOUS
    <2> QED BY <2>1, FS_EmptySet DEF Times
  <1>8. EffectsOK
    BY <1>7, JournalAssumption DEF Init, EffectsOK, Matching, NoBody, JournalAssumption
  <1> QED BY <1>2, <1>3, <1>4, <1>6, <1>8 DEF IInv

LEMMA SubmitOK ==
    ASSUME IInv, NEW e \in Executions, Submit(e)
    PROVE  IInv'
  <1>1. PICK v \in Validations, c \in Callers :
           /\ request' = [request EXCEPT ![e] = [expected |-> mem, validation |-> v, caller |-> c]]
           /\ call' = [stage |-> "prepared", exec |-> e, validation |-> v, caller |-> c]
    BY DEF Submit
  <1>2. /\ call = NoCall /\ Serving /\ request[e].validation = "none"
        /\ journal' = [journal EXCEPT ![e] = "PREPARED"]
        /\ UNCHANGED <<hot, ckpt, snap, engine, mem, phys, applied, worlds, crashes>>
    BY DEF Submit, Idle
  <1>3. journal[e] = "absent" /\ request[e].caller = "none"
    BY <1>2 DEF IInv, RowsOK
  <1>4. TypeOK'
    BY <1>1, <1>2 DEF IInv, TypeOK, Status, Call, Request, Stages
  <1>5. RowsOK'
    <2>1. v # "none"
      BY DEF Validations
    <2>2. request' \in [Executions -> Request] /\ request'[e].validation = v
      BY <1>1, <1>2 DEF IInv, TypeOK, Request
    <2>3. \A f \in Executions : f # e => request'[f] = request[f] /\ journal'[f] = journal[f]
      BY <1>1, <1>2 DEF IInv, TypeOK
    <2>4. journal'[e] = "PREPARED"
      BY <1>2 DEF IInv, TypeOK
    <2> QED BY <1>2, <1>3, <2>1, <2>2, <2>3, <2>4 DEF IInv, RowsOK
  <1>6. CallOK'
    BY <1>1, <1>2 DEF IInv, TypeOK, CallOK, Serving
  <1>7. PreparedHasNoEvidence' /\ EvidenceOK'
    <2>1. \A i \in 1..Len(hot) : hot[i].kind = "outcome" =>
              hot[i].exec # e /\ hot[i].exec \in Executions
      <3>1. DOMAIN hot = 1..Len(hot)
        BY DEF IInv, TypeOK
      <3> QED BY <1>3, <3>1, HotEvents DEF IInv, PreparedHasNoEvidence
    <2>2. \A f \in Executions : f # e => journal'[f] = journal[f]
      BY <1>2 DEF IInv, TypeOK
    <2>3. PreparedHasNoEvidence'
      BY <1>2, <2>1, <2>2 DEF IInv, PreparedHasNoEvidence
    <2>4. EvidenceOK'
      BY <1>2 DEF IInv, EvidenceOK
    <2> QED BY <2>3, <2>4
  <1>8. StatesRecorded' /\ EventsGrounded'
    <2>1. HabitatEvents' = HabitatEvents
      BY <1>2 DEF HabitatEvents
    <2> QED BY <1>2, <2>1 DEF IInv, StatesRecorded, EventsGrounded, Recorded, After, Serving
  <1>9. EffectsOK'
    <2>1. \A f \in Executions : request'[f].caller # "tick" => request[f].caller # "tick"
      BY <1>1, <1>3 DEF IInv, TypeOK
    <2>2. \A f : FromCalls(f)' => FromCalls(f)
      BY <2>1 DEF FromCalls
    <2>3. \A f : Times(mem, f)' = Times(mem, f) /\ Times(snap.habitat, f)' = Times(snap.habitat, f)
      BY <1>2 DEF Times
    <2> QED BY <1>2, <2>2, <2>3 DEF IInv, EffectsOK, Matching, Serving
  <1> QED BY <1>4, <1>5, <1>6, <1>7, <1>8, <1>9 DEF IInv

\* Nothing but the commit in progress changes.
LEMMA OnlyCall ==
    ASSUME IInv, UNCHANGED <<durable, engine, mem, phys, request, applied, worlds, crashes>>,
           call' \in Call \cup {NoCall}, CallOK'
    PROVE  IInv'
  <1>1. UNCHANGED <<journal, hot, ckpt, snap, applied, request>>
    BY DEF durable
  <1>2. TypeOK'
    BY <1>1 DEF IInv, TypeOK
  <1>3. StatesRecorded'
    BY <1>1, LedgerKept DEF IInv, StatesRecorded, Serving
  <1>4. EffectsOK'
    BY <1>1 DEF IInv, EffectsOK, Matching, FromCalls, Times, Serving
  <1> QED BY <1>1, <1>2, <1>3, <1>4, LedgerKept DEF IInv

LEMMA RetryOK ==
    ASSUME IInv, NEW e \in Executions, Retry(e)
    PROVE  IInv'
  <1>1. PICK v \in {request[e].validation, "refused"} :
           call' = [stage |-> "prepared", exec |-> e, validation |-> v, caller |-> "api"]
    BY DEF Retry
  <1>2. /\ "api" \in Callers /\ Serving /\ journal[e] = "PREPARED"
        /\ UNCHANGED <<durable, engine, mem, phys, request, applied, worlds, crashes>>
    BY DEF Retry, Idle
  <1>3. v \in Validations
    <2>1. request[e].validation \in Validations \cup {"none"}
      BY DEF IInv, TypeOK, Request
    <2>2. request[e].validation # "none"
      BY <1>2 DEF IInv, RowsOK
    <2> QED BY <1>1, <2>1, <2>2 DEF Validations
  <1>4. call' \in Call
    BY <1>1, <1>2, <1>3 DEF Call, Stages
  <1>5. CallOK'
    BY <1>1, <1>2 DEF CallOK, Serving, durable
  <1> QED BY <1>2, <1>4, <1>5, OnlyCall

LEMMA CommitRaisesOK ==
    ASSUME IInv, CommitRaises
    PROVE  IInv'
  <1>1. CallOK'
    BY DEF CommitRaises, CallOK, NoCall
  <1> QED BY <1>1, OnlyCall DEF CommitRaises

LEMMA SaveSnapshotOK ==
    ASSUME IInv, SaveSnapshot
    PROVE  IInv'
  <1>1. /\ Serving /\ call = NoCall /\ snap' = [habitat |-> mem, phys |-> phys]
        /\ engine = "attached"
        /\ UNCHANGED <<journal, hot, ckpt, engine, mem, phys, call, request, applied, worlds,
                       crashes>>
    BY DEF SaveSnapshot, Idle, volatile
  <1>2. TypeOK'
    BY <1>1 DEF IInv, TypeOK, Snapshot
  <1>3. StatesRecorded'
    BY <1>1, LedgerKept DEF IInv, StatesRecorded, Serving
  <1>4. EffectsOK'
    BY <1>1 DEF IInv, EffectsOK, Matching, FromCalls, Times, Serving
  <1>5. CallOK'
    BY <1>1 DEF IInv, CallOK, NoCall, Serving
  <1> QED BY <1>1, <1>2, <1>3, <1>4, <1>5, LedgerKept DEF IInv

LEMMA CompactOK ==
    ASSUME IInv, Compact
    PROVE  IInv'
  <1>1. /\ Serving /\ call = NoCall /\ engine = "attached"
        /\ snap' = [habitat |-> mem, phys |-> phys] /\ ckpt' = mem /\ hot' = <<>>
        /\ UNCHANGED <<journal, engine, mem, phys, call, request, applied, worlds, crashes>>
    BY DEF Compact, Idle, volatile
  <1>2. TypeOK'
    BY <1>1 DEF IInv, TypeOK, Snapshot
  <1>3. RowsOK' /\ PreparedHasNoEvidence' /\ EvidenceOK'
    BY <1>1 DEF IInv, RowsOK, PreparedHasNoEvidence, EvidenceOK
  <1>4. CallOK'
    BY <1>1 DEF IInv, CallOK, NoCall, Serving
  <1>5. HabitatEvents' = {} /\ Recorded' = {mem}
    BY <1>1 DEF HabitatEvents, Recorded
  <1>6. StatesRecorded' /\ EventsGrounded'
    BY <1>1, <1>5 DEF IInv, StatesRecorded, EventsGrounded
  <1>7. EffectsOK'
    BY <1>1 DEF IInv, EffectsOK, Matching, FromCalls, Times, Serving
  <1> QED BY <1>2, <1>3, <1>4, <1>6, <1>7 DEF IInv

LEMMA CrashOK ==
    ASSUME IInv, Crash
    PROVE  IInv'
  <1>1. /\ engine' = "lost" /\ mem' = <<>> /\ phys' = NoBody /\ call' = NoCall
        /\ crashes' = crashes + 1
        /\ UNCHANGED <<journal, hot, ckpt, snap, request, applied, worlds>>
    BY DEF Crash, durable
  <1>2. TypeOK'
    BY <1>1 DEF IInv, TypeOK, NoBody
  <1>3. CallOK'
    BY <1>1 DEF CallOK, NoCall
  <1>4. StatesRecorded'
    BY <1>1, LedgerKept DEF IInv, StatesRecorded, Serving
  <1>5. EffectsOK'
    BY <1>1 DEF IInv, EffectsOK, Matching, FromCalls, Times, Serving
  <1> QED BY <1>1, <1>2, <1>3, <1>4, <1>5, LedgerKept DEF IInv

LEMMA LoadOK ==
    ASSUME IInv, Load
    PROVE  IInv'
  <1>1. /\ engine = "lost" /\ engine' = "required" /\ phys' = snap.phys
        /\ UNCHANGED <<journal, hot, ckpt, snap, mem, call, request, applied, worlds, crashes>>
    BY DEF Load, durable
  <1>2. TypeOK'
    BY <1>1 DEF IInv, TypeOK, Snapshot
  <1>3. CallOK'
    BY <1>1 DEF IInv, CallOK, NoCall, Serving
  <1>4. StatesRecorded'
    BY <1>1, LedgerKept DEF IInv, StatesRecorded, Serving
  <1>5. EffectsOK'
    BY <1>1 DEF IInv, EffectsOK, Matching, FromCalls, Times, Serving
  <1> QED BY <1>1, <1>2, <1>3, <1>4, <1>5, LedgerKept DEF IInv

\* An engine in the state of the snapshot is taken into use.
LEMMA EngineTaken ==
    ASSUME IInv, engine = "required", mem' = snap.habitat, engine' \in {"attached", "passed"},
           UNCHANGED <<durable, phys, call, request, applied, worlds, crashes>>
    PROVE  IInv'
  <1>1. UNCHANGED <<journal, hot, ckpt, snap, applied, request>>
    BY DEF durable
  <1>2. call = NoCall
    BY DEF IInv, CallOK, Serving
  <1>3. TypeOK'
    BY <1>1 DEF IInv, TypeOK, Snapshot
  <1>4. StatesRecorded'
    BY <1>1, LedgerKept DEF IInv, StatesRecorded
  <1>5. EffectsOK'
    BY <1>1 DEF IInv, EffectsOK, Matching, FromCalls, Times
  <1>6. CallOK'
    BY <1>1, <1>2 DEF CallOK, NoCall
  <1> QED BY <1>1, <1>3, <1>4, <1>5, <1>6, LedgerKept DEF IInv

LEMMA AttachEngineOK ==
    ASSUME IInv, AttachEngine
    PROVE  IInv'
  <1>1. CASE engine = "required"
    BY <1>1, EngineTaken DEF AttachEngine
  <1>2. CASE engine = "passed"
    <2>1. /\ mem = snap.habitat /\ mem' = mem /\ engine' = "attached"
          /\ UNCHANGED <<journal, hot, ckpt, snap, phys, call, request, applied, worlds, crashes>>
      BY <1>2 DEF AttachEngine, durable
    <2>2. TypeOK'
      BY <2>1 DEF IInv, TypeOK
    <2>3. StatesRecorded'
      BY <1>2, <2>1, LedgerKept DEF IInv, StatesRecorded, Serving
    <2>4. EffectsOK'
      BY <1>2, <2>1 DEF IInv, EffectsOK, Matching, FromCalls, Times, Serving
    <2>5. CallOK'
      BY <1>2, <2>1, LedgerKept DEF IInv, CallOK, Serving
    <2> QED BY <2>1, <2>2, <2>3, <2>4, <2>5, LedgerKept DEF IInv
  <1> QED BY <1>1, <1>2 DEF AttachEngine

LEMMA InstallOK ==
    ASSUME IInv, Install
    PROVE  IInv'
  <1> DEFINE e == call.exec
  <1>1. /\ call.stage = "install" /\ mem' = Append(mem, EffectOf[e])
        /\ phys' = Received(phys, e) /\ call' = Returned
        /\ UNCHANGED <<journal, hot, ckpt, snap, engine, request, applied, worlds, crashes>>
    BY DEF Install, durable
  <1>2. call \in Call /\ e \in Executions /\ EffectOf[e] \in Effects /\ Serving
    BY <1>1, CallInProgress DEF IInv, CallOK, NoCall
  <1>3. mem' \in Recorded /\ mem \in Seq(Effects) /\ phys \in [Effects -> Nat] /\ Matching(mem, phys)
    BY <1>1, <1>2 DEF IInv, CallOK, TypeOK, EffectsOK
  <1>4. call' \in Call \cup {NoCall} /\ call'.stage \in {"none", "finish"}
        /\ (call'.stage = "finish" =>
                call.caller = "tick" /\ call'.caller = "tick" /\ call'.exec = e)
    BY <1>1, <1>2 DEF Returned, Call, NoCall, Stages
  <1>5. call.caller = "tick" => request[e].caller = "tick"
    BY <1>1 DEF IInv, CallOK
  <1> HIDE DEF e
  <1>6. Matching(mem', phys') /\ phys' \in [Effects -> Nat]
    BY <1>1, <1>2, <1>3, EffectReceived
  <1>7. mem' \in Seq(Effects)
    BY <1>1, <1>2, <1>3, Appended
  <1>8. TypeOK'
    BY <1>1, <1>4, <1>6, <1>7 DEF IInv, TypeOK
  <1>9. CallOK'
    BY <1>1, <1>2, <1>4, <1>5 DEF CallOK, Serving
  <1>10. StatesRecorded'
    BY <1>1, <1>3, LedgerKept DEF IInv, StatesRecorded
  <1>11. EffectsOK'
    BY <1>1, <1>2, <1>6 DEF IInv, EffectsOK, Matching, FromCalls, Times, Serving
  <1> QED BY <1>1, <1>8, <1>9, <1>10, <1>11, LedgerKept DEF IInv

\* A retry can only bring an engine up to date that is exactly one effect behind the
\* event.
LEMMA RehydratedByOne ==
    ASSUME IInv, NEW e \in Executions, Rehydrate(e)
    PROVE  LET event == hot[EventOf(e)]
           IN  /\ EventOf(e) \in HabitatEvents /\ event.exec = e
               /\ mem' = After(event) /\ mem' = Append(mem, EffectOf[e])
  <1> DEFINE event == hot[EventOf(e)]
  <1>1. PICK planned \in BOOLEAN : Rehydrated(e, planned).ok /\ mem' = Rehydrated(e, planned).state
    BY DEF Rehydrate
  <1>2. NeedsRehydration(e)
    BY DEF Rehydrate
  <1>3. EventOf(e) \in DOMAIN hot /\ event.kind = "habitat" /\ event.exec = e
    <2>1. PICK i \in DOMAIN hot : hot[i].kind = "outcome" /\ hot[i].exec = e
      BY <1>2 DEF NeedsRehydration, Evidence
    <2>2. hot[i].success
      BY <1>2, <2>1 DEF NeedsRehydration, IInv, PreparedHasNoEvidence
    <2>3. \E j \in DOMAIN hot : hot[j].kind = "habitat" /\ hot[j].exec = e
      BY <2>1, <2>2 DEF IInv, EvidenceOK
    <2> QED BY <2>3 DEF EventOf
  <1>4. mem' = After(event) /\ mem' = Append(mem, EffectOf[e])
    <2>1. mem # After(event)
      BY <1>2 DEF NeedsRehydration
    <2>2. CASE planned /\ Append(mem, EffectOf[e]) = After(event)
      BY <1>1, <2>2 DEF Rehydrated
    <2>3. CASE ~(planned /\ Append(mem, EffectOf[e]) = After(event))
      <3>1. /\ ApplyEvent([ok |-> TRUE, state |-> mem], event).ok
            /\ mem' = ApplyEvent([ok |-> TRUE, state |-> mem], event).state
        BY <1>1, <2>3 DEF Rehydrated
      <3>2. mem = event.prior /\ mem' = After(event)
        BY <2>1, <3>1 DEF ApplyEvent
      <3> QED BY <1>3, <3>2 DEF After
    <2> QED BY <2>2, <2>3
  <1> QED BY <1>3, <1>4 DEF HabitatEvents

LEMMA RehydrateOK ==
    ASSUME IInv, NEW e \in Executions, Rehydrate(e)
    PROVE  IInv'
  <1>1. EventOf(e) \in HabitatEvents /\ mem' = After(hot[EventOf(e)])
        /\ mem' = Append(mem, EffectOf[e])
    BY RehydratedByOne
  <1>2. /\ Serving /\ call = NoCall /\ phys' = Received(phys, e)
        /\ UNCHANGED <<journal, hot, ckpt, snap, engine, call, request, applied, worlds, crashes>>
    BY DEF Rehydrate, Idle, durable
  <1>3. mem \in Seq(Effects) /\ phys \in [Effects -> Nat] /\ Matching(mem, phys)
    BY <1>2 DEF IInv, TypeOK, EffectsOK
  <1>4. mem' \in Recorded
    BY <1>1 DEF Recorded
  <1>5. Matching(mem', phys') /\ phys' \in [Effects -> Nat]
    BY <1>1, <1>2, <1>3, EffectReceived
  <1>6. mem' \in Seq(Effects)
    <2>1. EffectOf[e] \in Effects
      BY JournalAssumption DEF JournalAssumption
    <2> QED BY <1>1, <1>3, <2>1, Appended
  <1>7. TypeOK'
    BY <1>2, <1>5, <1>6 DEF IInv, TypeOK
  <1>8. CallOK'
    BY <1>2 DEF CallOK, NoCall, Serving
  <1>9. StatesRecorded'
    BY <1>2, <1>4, LedgerKept DEF IInv, StatesRecorded
  <1>10. EffectsOK'
    BY <1>2, <1>5 DEF IInv, EffectsOK, Matching, FromCalls, Times, Serving
  <1> QED BY <1>2, <1>7, <1>8, <1>9, <1>10, LedgerKept DEF IInv

LEMMA Concatenated ==
    ASSUME NEW T, NEW s \in Seq(T), NEW t \in Seq(T)
    PROVE  /\ s \o t \in Seq(T) /\ Len(s \o t) = Len(s) + Len(t)
           /\ \A i \in 1..Len(s) : (s \o t)[i] = s[i]
           /\ \A i \in (Len(s) + 1)..(Len(s) + Len(t)) : (s \o t)[i] = t[i - Len(s)]
  OBVIOUS

LEMMA Tuples ==
    ASSUME NEW T, NEW a \in T, NEW b \in T, NEW c \in T
    PROVE  /\ <<a, b, c>> \in Seq(T) /\ <<a, c>> \in Seq(T)
           /\ Len(<<a, b, c>>) = 3 /\ Len(<<a, c>>) = 2
  OBVIOUS

\* What a committed success appends: the habitat event, then events about it.
LEMMA SuccessAppended ==
    ASSUME TypeOK, NEW e \in Executions, hot' = hot \o SuccessEvents(e), ckpt' = ckpt,
           NEW n, n = Len(hot) + 1
    PROVE  SucceededAt(n, e)
  <1> DEFINE a == Event("habitat", e, TRUE)
             b == Event("effect", e, TRUE)
             c == Event("outcome", e, TRUE)
  <1>1. a \in HotEvent /\ b \in HotEvent /\ c \in HotEvent
    BY DEF TypeOK, Event, HotEvent
  <1>2. /\ a.kind = "habitat" /\ a.exec = e /\ a.prior = mem /\ a.success
        /\ b.kind = "effect" /\ b.exec = e /\ b.success
        /\ c.kind = "outcome" /\ c.exec = e /\ c.success
    BY DEF Event
  <1> HIDE DEF a, b, c
  <1>3. SuccessEvents(e) = IF EffectOf[e] \in Yielding THEN <<a, b, c>> ELSE <<a, c>>
    BY DEF SuccessEvents, a, b, c
  <1>4. PICK es \in Seq(HotEvent) : es = SuccessEvents(e)
    BY <1>1, <1>3, Tuples
  <1>5. Len(es) \in {2, 3} /\ es[1] = a /\ \A i \in 2..Len(es) : es[i] \in {b, c}
    <2>1. CASE EffectOf[e] \in Yielding
      <3>1. es = <<a, b, c>>
        BY <1>3, <1>4, <2>1
      <3> QED BY <3>1
    <2>2. CASE EffectOf[e] \notin Yielding
      <3>1. es = <<a, c>>
        BY <1>3, <1>4, <2>2
      <3> QED BY <3>1
    <2> QED BY <2>1, <2>2
  <1>6. hot \in Seq(HotEvent) /\ hot' = hot \o es
    BY <1>4 DEF TypeOK
  <1>7. PICK m \in Nat : m = Len(hot)
    BY <1>6
  <1>8. /\ hot' \in Seq(HotEvent) /\ Len(hot') = m + Len(es)
        /\ \A i \in 1..m : hot'[i] = hot[i]
        /\ \A i \in (m + 1)..(m + Len(es)) : hot'[i] = es[i - m]
    BY <1>6, <1>7, Concatenated
  <1>9. Extended
    BY <1>5, <1>7, <1>8 DEF Extended
  <1>10. n \in 1..Len(hot') /\ n - m = 1 /\ n \in (m + 1)..(m + Len(es))
    BY <1>5, <1>7, <1>8
  <1>11. hot'[n] = a
    BY <1>5, <1>8, <1>10
  <1>12. ASSUME NEW i \in (n + 1)..Len(hot')
         PROVE  hot'[i] \in {b, c}
    <2>1. i - m \in 2..Len(es) /\ i \in (m + 1)..(m + Len(es))
      BY <1>5, <1>7, <1>8
    <2> QED BY <1>5, <1>8, <2>1
  <1> QED BY <1>2, <1>9, <1>10, <1>11, <1>12 DEF SucceededAt

LEMMA CommitSuccessOK ==
    ASSUME IInv, CommitSuccess
    PROVE  IInv'
  <1> DEFINE e == call.exec
  <1>1. /\ call.stage = "prepared"
        /\ journal' = [journal EXCEPT ![e] = "COMMITTED_SUCCESS"]
        /\ hot' = hot \o SuccessEvents(e) /\ applied' = Append(applied, e)
        /\ call' = [call EXCEPT !.stage = "install"]
        /\ worlds' = worlds \cup {Append(mem, EffectOf[e])}
        /\ UNCHANGED <<ckpt, snap, engine, mem, phys, request, crashes>>
    BY DEF CommitSuccess
  <1>2. call \in Call /\ e \in Executions /\ EffectOf[e] \in Effects /\ Serving
    BY <1>1, CallInProgress DEF IInv, CallOK, NoCall
  <1>3. journal[e] = "PREPARED" /\ mem \in Recorded
    BY <1>1, <1>2 DEF IInv, CallOK, StatesRecorded
  <1>4. applied \in Seq(Executions) /\ journal \in [Executions -> Status]
    BY DEF IInv, TypeOK
  <1> HIDE DEF e
  <1> PICK h : h = Append(applied, e)
    OBVIOUS
  <1>5. /\ h \in Seq(Executions) /\ h = applied'
        /\ Len(h) = Len(applied) + 1 /\ Len(applied) \in Nat
        /\ h[Len(applied) + 1] = e /\ \A i \in 1..Len(applied) : h[i] = applied[i]
    BY <1>1, <1>2, <1>4, Appended
  <1>6. PICK n : n = Len(hot) + 1
    OBVIOUS
  <1>7. /\ SucceededAt(n, e) /\ Extended /\ n \in 1..Len(hot')
        /\ hot'[n].kind = "habitat" /\ hot'[n].exec = e
        /\ \A i \in (n + 1)..Len(hot') :
               hot'[i].kind # "habitat" /\ hot'[i].exec = e /\ hot'[i].success
    <2>1. TypeOK
      BY DEF IInv
    <2>2. SucceededAt(n, e)
      BY ONLY <1>1, <1>2, <1>6, <2>1, SuccessAppended
    <2> QED BY ONLY <2>2 DEF SucceededAt
  <1>8. hot \in Seq(HotEvent) /\ hot' \in Seq(HotEvent)
    BY <1>7 DEF IInv, TypeOK, Extended
  <1>9. \A i \in 1..Len(hot') : i \in 1..Len(hot) \/ i = n \/ i \in (n + 1)..Len(hot')
    BY <1>6, <1>8
  <1>10. \A i \in 1..Len(hot) : i \in 1..Len(hot') /\ hot'[i] = hot[i]
    BY <1>8, <1>7 DEF Extended
  <1>11. DOMAIN hot = 1..Len(hot) /\ DOMAIN hot' = 1..Len(hot')
    BY <1>8
  <1>12. /\ journal'[e] = "COMMITTED_SUCCESS" /\ journal' \in [Executions -> Status]
         /\ \A f \in Executions : f # e => journal'[f] = journal[f]
    BY <1>1, <1>2, <1>4 DEF Status, Terminal
  <1>13. TypeOK'
    <2>1. call' \in Call
      BY <1>1, <1>2 DEF Call, Stages
    <2>2. worlds' \subseteq Seq(Effects)
      <3>1. mem \in Seq(Effects) /\ worlds \subseteq Seq(Effects)
        BY DEF IInv, TypeOK
      <3>2. Append(mem, EffectOf[e]) \in Seq(Effects)
        BY <1>2, <3>1, Appended
      <3> QED BY <1>1, <3>1, <3>2
    <2> QED BY <1>1, <1>5, <1>8, <1>12, <2>1, <2>2 DEF IInv, TypeOK
  <1>14. RowsOK'
    <2>1. \A i \in DOMAIN applied : applied[i] # e
      BY <1>2, <1>3 DEF IInv, RowsOK
    <2>2. DOMAIN applied = 1..Len(applied) /\ DOMAIN h = 1..(Len(applied) + 1)
      BY <1>4, <1>5
    <2>3. \A i \in DOMAIN h : i \in DOMAIN applied \/ i = Len(applied) + 1
      BY <1>5, <2>2
    <2>4. Len(applied) + 1 \in DOMAIN h /\ \A i \in DOMAIN applied : i \in DOMAIN h
      BY <1>5, <2>2
    <2>5. \A i \in DOMAIN applied : h[i] = applied[i]
      BY <1>5, <2>2
    <2>6. \A i, j \in DOMAIN h : h[i] = h[j] => i = j
      BY <1>5, <2>1, <2>3, <2>5 DEF IInv, RowsOK
    <2>7. \A f \in Executions :
              (\E i \in DOMAIN h : h[i] = f) <=> f = e \/ \E i \in DOMAIN applied : applied[i] = f
      BY <1>5, <2>3, <2>4, <2>5
    <2>8. journal[e] # "absent"
      BY <1>3
    <2>9. \A f \in Executions :
              /\ journal'[f] = "COMMITTED_SUCCESS" <=> \E i \in DOMAIN h : h[i] = f
              /\ journal'[f] = "absent" <=> request[f].validation = "none"
              /\ journal'[f] = "absent" => request[f].caller = "none"
      BY <1>12, <2>7, <2>8 DEF IInv, RowsOK
    <2> QED BY <1>1, <1>5, <2>6, <2>9 DEF RowsOK
  <1>15. Recorded' = Recorded \cup {Append(mem, EffectOf[e])} /\ EventsGrounded'
    BY <1>3, <1>6, <1>7, <1>8, SuccessRecorded DEF IInv
  <1>18. CallOK'
    <2>1. call'.stage = "install" /\ call'.exec = e /\ call'.caller = call.caller
      BY <1>1, <1>2 DEF Call, e
    <2>2. call.caller = "tick" => request[e].caller = "tick"
      BY <1>1 DEF IInv, CallOK, e
    <2> QED BY <1>1, <1>2, <1>15, <2>1, <2>2 DEF CallOK, Serving
  <1>16. PreparedHasNoEvidence'
    <2>1. \A i \in 1..Len(hot) : hot[i].kind = "outcome" =>
              hot[i].exec # e /\ hot[i].exec \in Executions
      BY <1>3, <1>11, HotEvents DEF IInv, PreparedHasNoEvidence
    <2>2. ASSUME NEW i \in 1..Len(hot'), hot'[i].kind = "outcome"
          PROVE  journal'[hot'[i].exec] =
                     IF hot'[i].success THEN "COMMITTED_SUCCESS" ELSE "COMMITTED_FAILURE"
      <3>1. CASE i \in 1..Len(hot)
        <4>1. hot'[i] = hot[i] /\ hot[i].kind = "outcome"
          BY <1>10, <2>2, <3>1
        <4>2. hot[i].exec # e /\ hot[i].exec \in Executions
          BY <2>1, <3>1, <4>1
        <4>3. journal[hot[i].exec] =
                  IF hot[i].success THEN "COMMITTED_SUCCESS" ELSE "COMMITTED_FAILURE"
          BY <3>1, <4>1 DEF IInv, PreparedHasNoEvidence
        <4> QED BY <1>12, <4>1, <4>2, <4>3
      <3>2. CASE i = n
        BY <1>7, <2>2, <3>2
      <3>3. CASE i \in (n + 1)..Len(hot')
        <4>1. hot'[i].exec = e /\ hot'[i].success
          BY <1>7, <3>3
        <4> QED BY <1>12, <4>1
      <3> QED BY <1>9, <3>1, <3>2, <3>3
    <2> QED BY <2>2 DEF PreparedHasNoEvidence
  <1>17. EvidenceOK'
    <2>1. ASSUME NEW i \in 1..Len(hot'), hot'[i].kind = "outcome", hot'[i].success
          PROVE  \E j \in 1..Len(hot') : hot'[j].kind = "habitat" /\ hot'[j].exec = hot'[i].exec
      <3>1. CASE i \in 1..Len(hot)
        BY <1>10, <1>11, <2>1, <3>1 DEF IInv, EvidenceOK
      <3>2. CASE i = n \/ i \in (n + 1)..Len(hot')
        BY <1>7, <3>2
      <3> QED BY <1>9, <3>1, <3>2
    <2> QED BY <1>11, <2>1 DEF EvidenceOK
  <1>19. StatesRecorded'
    BY <1>1, <1>3, <1>15 DEF IInv, StatesRecorded
  <1>20. EffectsOK'
    BY <1>1 DEF IInv, EffectsOK, Matching, FromCalls, Times, Serving
  <1> QED BY <1>13, <1>14, <1>15, <1>16, <1>17, <1>18, <1>19, <1>20 DEF IInv

\* An event that is none of the habitat's leaves the recorded history as it is.
LEMMA OtherAppended ==
    ASSUME IInv, NEW x \in HotEvent, x.kind # "habitat", hot' = Append(hot, x),
           ckpt' = ckpt, NEW n, n = Len(hot) + 1
    PROVE  /\ hot' \in Seq(HotEvent)
           /\ DOMAIN hot = 1..Len(hot) /\ DOMAIN hot' = 1..Len(hot') /\ n \in 1..Len(hot')
           /\ hot'[n] = x /\ \A i \in 1..Len(hot') : i \in 1..Len(hot) \/ i = n
           /\ \A i \in 1..Len(hot) : i \in 1..Len(hot') /\ hot'[i] = hot[i]
           /\ Recorded' = Recorded /\ EventsGrounded'
  <1>1. hot \in Seq(HotEvent) /\ EventsGrounded
    BY DEF IInv, TypeOK
  <1>2. /\ hot' \in Seq(HotEvent) /\ Len(hot) \in Nat /\ Len(hot') = n
        /\ DOMAIN hot = 1..Len(hot) /\ DOMAIN hot' = 1..n /\ n \in 1..n
        /\ hot'[n] = x /\ \A i \in 1..n : i \in 1..Len(hot) \/ i = n
        /\ \A i \in 1..Len(hot) : i \in 1..n /\ hot'[i] = hot[i]
    BY <1>1, Appended
  <1>3. Extended
    BY <1>2 DEF Extended
  <1>4. \A i \in (Len(hot) + 1)..Len(hot') : hot'[i].kind # "habitat"
    <2>1. \A i \in (Len(hot) + 1)..Len(hot') : i = n
      BY <1>2
    <2> QED BY <1>2, <2>1
  <1>5. Recorded' = Recorded /\ EventsGrounded'
    BY <1>1, <1>3, <1>4, NothingRecorded
  <1> QED BY <1>2, <1>5

LEMMA CommitFailureOK ==
    ASSUME IInv, CommitFailure
    PROVE  IInv'
  <1> DEFINE e == call.exec
             x == Event("outcome", e, FALSE)
  <1>1. /\ call.stage = "prepared"
        /\ journal' = [journal EXCEPT ![e] = "COMMITTED_FAILURE"]
        /\ hot' = Append(hot, x) /\ call' = Returned
        /\ UNCHANGED <<ckpt, snap, engine, mem, phys, request, applied, worlds, crashes>>
    BY DEF CommitFailure
  <1>2. call \in Call /\ e \in Executions /\ Serving
    BY <1>1, CallInProgress DEF IInv, CallOK, NoCall
  <1>3. journal[e] = "PREPARED"
    BY <1>1 DEF IInv, CallOK
  <1>4. /\ x \in HotEvent /\ x.kind = "outcome" /\ x.exec = e /\ ~x.success
    BY <1>2 DEF IInv, TypeOK, Event, HotEvent
  <1>5. /\ call' \in Call \cup {NoCall} /\ call'.stage \in {"none", "finish"}
        /\ (call'.stage = "finish" =>
                call.caller = "tick" /\ call'.caller = "tick" /\ call'.exec = e)
    BY <1>1, <1>2 DEF Returned, Call, NoCall, Stages
  <1>6. PICK n : n = Len(hot) + 1
    OBVIOUS
  <1> HIDE DEF e, x
  <1>7. /\ hot' \in Seq(HotEvent)
        /\ DOMAIN hot = 1..Len(hot) /\ DOMAIN hot' = 1..Len(hot') /\ n \in 1..Len(hot')
        /\ hot'[n] = x /\ \A i \in 1..Len(hot') : i \in 1..Len(hot) \/ i = n
        /\ \A i \in 1..Len(hot) : i \in 1..Len(hot') /\ hot'[i] = hot[i]
        /\ Recorded' = Recorded /\ EventsGrounded'
    BY <1>1, <1>4, <1>6, OtherAppended
  <1>8. /\ journal'[e] = "COMMITTED_FAILURE" /\ journal' \in [Executions -> Status]
        /\ \A f \in Executions : f # e => journal'[f] = journal[f]
    BY <1>1, <1>2 DEF IInv, TypeOK, Status, Terminal
  <1>9. TypeOK'
    BY <1>1, <1>5, <1>7, <1>8 DEF IInv, TypeOK
  <1>10. RowsOK'
    <2>1. \A f \in Executions :
              /\ journal'[f] = "COMMITTED_SUCCESS" <=> journal[f] = "COMMITTED_SUCCESS"
              /\ journal'[f] = "absent" <=> journal[f] = "absent"
      BY <1>3, <1>8
    <2> QED BY <1>1, <2>1 DEF IInv, RowsOK
  <1>11. CallOK'
    <2>1. call.caller = "tick" => request[e].caller = "tick"
      BY <1>1 DEF IInv, CallOK, e
    <2> QED BY <1>1, <1>2, <1>5, <2>1 DEF CallOK, Serving
  <1>12. PreparedHasNoEvidence'
    <2>1. \A i \in 1..Len(hot) : hot[i].kind = "outcome" =>
              hot[i].exec # e /\ hot[i].exec \in Executions
      BY <1>3, <1>7, HotEvents DEF IInv, PreparedHasNoEvidence
    <2>2. ASSUME NEW i \in 1..Len(hot'), hot'[i].kind = "outcome"
          PROVE  journal'[hot'[i].exec] =
                     IF hot'[i].success THEN "COMMITTED_SUCCESS" ELSE "COMMITTED_FAILURE"
      <3>1. CASE i \in 1..Len(hot)
        BY <1>7, <1>8, <2>1, <2>2, <3>1 DEF IInv, PreparedHasNoEvidence
      <3>2. CASE i = n
        BY <1>4, <1>7, <1>8, <3>2
      <3> QED BY <1>7, <3>1, <3>2
    <2> QED BY <2>2 DEF PreparedHasNoEvidence
  <1>13. EvidenceOK'
    BY <1>4, <1>7 DEF IInv, EvidenceOK
  <1>14. StatesRecorded'
    BY <1>1, <1>7 DEF IInv, StatesRecorded, Serving
  <1>15. EffectsOK'
    BY <1>1 DEF IInv, EffectsOK, Matching, FromCalls, Times, Serving
  <1> QED BY <1>7, <1>9, <1>10, <1>11, <1>12, <1>13, <1>14, <1>15 DEF IInv

LEMMA FinishOutcomeOK ==
    ASSUME IInv, FinishOutcome
    PROVE  IInv'
  <1> DEFINE e == call.exec
             x == Event("summary", e, journal[e] = "COMMITTED_SUCCESS")
  <1>1. /\ call.stage = "finish" /\ call' = NoCall
        /\ \/ phys' = phys
           \/ phys' = [phys EXCEPT ![EffectOf[e]] = @ + 1]
        /\ \/ hot' = hot
           \/ hot' = Append(hot, x)
        /\ UNCHANGED <<journal, ckpt, snap, engine, mem, request, applied, worlds, crashes>>
    BY DEF FinishOutcome, Received
  <1>2. call \in Call /\ e \in Executions /\ EffectOf[e] \in Effects /\ Serving
    BY <1>1, CallInProgress DEF IInv, CallOK, NoCall
  <1>4. x \in HotEvent /\ x.kind = "summary"
    BY <1>2 DEF IInv, TypeOK, Event, HotEvent
  <1>5. PICK n : n = Len(hot) + 1
    OBVIOUS
  <1>6. phys' \in [Effects -> Nat] /\ \A f \in Effects : f # EffectOf[e] => phys'[f] = phys[f]
    <2>1. phys \in [Effects -> Nat] /\ EffectOf[e] \in Effects
      BY <1>2 DEF IInv, TypeOK
    <2> HIDE DEF e
    <2>2. CASE phys' = phys
      BY ONLY <2>1, <2>2
    <2>3. CASE phys' = [phys EXCEPT ![EffectOf[e]] = @ + 1]
      BY ONLY <2>1, <2>3
    <2> QED BY <1>1, <2>2, <2>3
  <1> HIDE DEF x
  <1>7. RowsOK'
    BY <1>1 DEF IInv, RowsOK
  <1>8. /\ hot' \in Seq(HotEvent) /\ Recorded' = Recorded /\ EventsGrounded'
        /\ PreparedHasNoEvidence' /\ EvidenceOK'
    <2>1. CASE hot' = hot
      BY <1>1, <2>1, LedgerKept DEF IInv, TypeOK
    <2>2. CASE hot' = Append(hot, x)
      <3>1. /\ hot' \in Seq(HotEvent)
            /\ DOMAIN hot = 1..Len(hot) /\ DOMAIN hot' = 1..Len(hot') /\ n \in 1..Len(hot')
            /\ hot'[n] = x /\ \A i \in 1..Len(hot') : i \in 1..Len(hot) \/ i = n
            /\ \A i \in 1..Len(hot) : i \in 1..Len(hot') /\ hot'[i] = hot[i]
            /\ Recorded' = Recorded /\ EventsGrounded'
        BY <1>1, <1>4, <1>5, <2>2, OtherAppended
      <3>2. PreparedHasNoEvidence'
        BY <1>1, <1>4, <3>1 DEF IInv, PreparedHasNoEvidence
      <3>3. EvidenceOK'
        BY <1>4, <3>1 DEF IInv, EvidenceOK
      <3> QED BY <3>1, <3>2, <3>3
    <2> QED BY <1>1, <2>1, <2>2
  <1>9. TypeOK'
    BY <1>1, <1>6, <1>8 DEF IInv, TypeOK
  <1>10. CallOK'
    BY <1>1 DEF CallOK, NoCall
  <1>11. StatesRecorded'
    BY <1>1, <1>8 DEF IInv, StatesRecorded, Serving
  <1>12. EffectsOK'
    <2>1. request[e].caller = "tick"
      BY <1>1 DEF IInv, CallOK
    <2>2. ~FromCalls(EffectOf[e])
      BY <1>2, <2>1 DEF FromCalls
    <2>3. \A f \in Yielding : FromCalls(f) => phys'[f] = phys[f]
      BY <1>6, <2>2, JournalAssumption DEF JournalAssumption
    <2> HIDE DEF e
    <2>4. \A h : Matching(h, phys) => Matching(h, phys')
      BY <2>3 DEF Matching
    <2>5. Matching(mem, phys') /\ Matching(snap.habitat, snap.phys) /\ engine # "required"
      BY <1>2, <2>4 DEF IInv, EffectsOK, Serving
    <2> QED BY <1>1, <2>5 DEF EffectsOK, Matching, FromCalls, Times
  <1> QED BY <1>7, <1>8, <1>9, <1>10, <1>11, <1>12 DEF IInv

-----------------------------------------------------------------------------
(* Replay *)

\* The recursive definition has a solution: it can be extended event by event.
LEMMA ReplayedByEvent ==
    ASSUME hot \in Seq(HotEvent)
    PROVE  \A n \in 0..Len(hot) :
              ReplayedUpTo[n] =
                  IF n = 0 THEN [ok |-> TRUE, state |-> ckpt]
                  ELSE IF hot[n].kind = "habitat" THEN ApplyEvent(ReplayedUpTo[n - 1], hot[n])
                  ELSE ReplayedUpTo[n - 1]
  <1> DEFINE start == [ok |-> TRUE, state |-> ckpt]
             Step(g, n) == IF n = 0 THEN start
                           ELSE IF hot[n].kind = "habitat" THEN ApplyEvent(g[n - 1], hot[n])
                           ELSE g[n - 1]
             Solved == {m \in Nat : \E g : g = [n \in 0..m |-> Step(g, n)]}
  <1>1. Len(hot) \in Nat
    OBVIOUS
  <1> HIDE DEF start
  <1>2. 0 \in Solved
    <2>1. PICK g : g = [n \in 0..0 |-> start]
      OBVIOUS
    <2>2. g = [n \in 0..0 |-> Step(g, n)]
      BY <2>1
    <2> QED BY <2>2
  <1>3. \A m \in Nat : m < Len(hot) /\ m \in Solved => m + 1 \in Solved
    <2> SUFFICES ASSUME NEW m \in Nat, m \in Solved
                 PROVE  m + 1 \in Solved
      OBVIOUS
    <2>1. PICK g : g = [n \in 0..m |-> Step(g, n)]
      OBVIOUS
    <2>2. PICK h : h = [n \in 0..(m + 1) |-> IF n \in 0..m THEN g[n] ELSE Step(g, n)]
      OBVIOUS
    <2>3. \A n \in 0..(m + 1) : n # 0 => n - 1 \in 0..m
      OBVIOUS
    <2>4. \A n \in 0..m : h[n] = g[n] /\ g[n] = Step(g, n)
      BY <2>1, <2>2
    <2>5. \A n \in 0..(m + 1) : Step(h, n) = Step(g, n)
      BY <2>3, <2>4
    <2>6. \A n \in 0..(m + 1) : h[n] = Step(g, n)
      BY <2>2, <2>4
    <2> HIDE DEF Step
    <2>7. h = [n \in 0..(m + 1) |-> Step(h, n)]
      BY <2>2, <2>5, <2>6
    <2> QED BY <2>7
  <1> HIDE DEF Solved
  <1>4. Len(hot) \in 0..Len(hot)
    BY <1>1
  <1>5. Len(hot) \in Solved
    BY <1>1, <1>2, <1>3, <1>4, UpTo
  <1> USE DEF Solved
  <1>6. PICK g : g = [n \in 0..Len(hot) |-> Step(g, n)]
    BY <1>5
  <1>7. ReplayedUpTo = [n \in 0..Len(hot) |-> Step(ReplayedUpTo, n)]
    BY <1>6 DEF ReplayedUpTo, start
  <1> HIDE DEF Step, Solved
  <1>8. \A n \in 0..Len(hot) : ReplayedUpTo[n] = Step(ReplayedUpTo, n)
    BY <1>7
  <1> QED BY <1>8 DEF Step, start

\* While it succeeds, replay has passed every event so far and is at one of their
\* ends.
PassedUpTo(n, state) ==
    /\ state \in Seq(Effects) /\ IsPrefix(ckpt, state)
    /\ \A i \in 1..n : hot[i].kind = "habitat" => IsPrefix(After(hot[i]), state)
    /\ \/ state = ckpt
       \/ \E i \in 1..n : hot[i].kind = "habitat" /\ state = After(hot[i])

LEMMA ReplayPasses ==
    ASSUME IInv
    PROVE  \A n \in 0..Len(hot) :
              ReplayedUpTo[n].ok => PassedUpTo(n, ReplayedUpTo[n].state)
  <1> DEFINE Passed == {n \in 0..Len(hot) :
                          ReplayedUpTo[n].ok => PassedUpTo(n, ReplayedUpTo[n].state)}
  <1>1. hot \in Seq(HotEvent) /\ Len(hot) \in Nat /\ DOMAIN hot = 1..Len(hot)
    BY DEF IInv, TypeOK
  <1>2. 0 \in Passed
    <2>1. ReplayedUpTo[0] = [ok |-> TRUE, state |-> ckpt]
      <3>1. 0 \in 0..Len(hot)
        BY <1>1
      <3> QED BY <1>1, <3>1, ReplayedByEvent
    <2>2. ckpt \in Seq(Effects) /\ IsPrefix(ckpt, ckpt)
      BY PrefixReflexive DEF IInv, TypeOK
    <2>3. PassedUpTo(0, ckpt)
      BY <2>2 DEF PassedUpTo
    <2> QED BY <1>1, <2>1, <2>3
  <1>3. \A n \in Nat : n < Len(hot) /\ n \in Passed => n + 1 \in Passed
    <2> SUFFICES ASSUME NEW n \in Nat, n < Len(hot), n \in Passed, NEW m, m = n + 1,
                        ReplayedUpTo[m].ok
                 PROVE  PassedUpTo(m, ReplayedUpTo[m].state)
      BY <1>1
    <2> DEFINE before == ReplayedUpTo[n]
               event  == hot[m]
    <2>1. m \in 0..Len(hot) /\ m # 0 /\ m - 1 = n /\ m \in DOMAIN hot
      BY <1>1
    <2>2. ReplayedUpTo[m] = IF event.kind = "habitat" THEN ApplyEvent(before, event) ELSE before
      BY <1>1, <2>1, ReplayedByEvent
    <2>3. before.ok => PassedUpTo(n, before.state)
      OBVIOUS
    <2>4. \A i \in 1..m : i \in 1..n \/ i = m
      BY <2>1
    <2>5. m \in 1..m /\ \A i \in 1..n : i \in 1..m
      BY <2>1
    <2>6. \A i \in 1..n : i \in DOMAIN hot
      BY <1>1, <2>1
    <2> HIDE DEF before
    <2>7. CASE event.kind # "habitat"
      <3>1. ReplayedUpTo[m] = before /\ PassedUpTo(n, before.state)
        BY <2>2, <2>3, <2>7
      <3> QED BY <2>4, <2>5, <2>7, <3>1 DEF PassedUpTo
    <2>8. CASE event.kind = "habitat"
      <3>1. before.ok /\ PassedUpTo(n, before.state)
        BY <2>2, <2>3, <2>8 DEF ApplyEvent
      <3>2. CASE before.state = After(event)
        <4>1. ReplayedUpTo[m] = before
          BY <2>2, <2>8, <3>2 DEF ApplyEvent
        <4>2. IsPrefix(After(event), before.state)
          BY <3>1, <3>2, PrefixReflexive DEF PassedUpTo
        <4> QED BY <2>4, <2>5, <3>1, <4>1, <4>2 DEF PassedUpTo
      <3>3. CASE before.state # After(event)
        <4>1. before.state = event.prior /\ ReplayedUpTo[m].state = After(event)
          <5>1. PICK fits \in BOOLEAN :
                   fits = (before.state = event.prior /\ EffectOf[event.exec] \notin Lossy)
            OBVIOUS
          <5>2. ReplayedUpTo[m] = [ok |-> fits, state |-> After(event)]
            BY <2>2, <2>8, <3>1, <3>3, <5>1 DEF ApplyEvent
          <5>3. fits
            BY <5>2
          <5>4. before.state = event.prior
            BY ONLY <5>1, <5>3, Zenon
          <5>5. ReplayedUpTo[m].state = After(event)
            BY <5>2
          <5> QED BY <5>4, <5>5
        <4>2. /\ event.prior \in Seq(Effects) /\ EffectOf[event.exec] \in Effects
              /\ After(event) \in Seq(Effects)
          BY <2>1, HotEvents DEF IInv
        <4>3. IsPrefix(before.state, After(event)) /\ IsPrefix(After(event), After(event))
          BY <4>1, <4>2, PrefixOfAppended, PrefixReflexive DEF After
        <4>4. \A i \in 1..n : After(hot[i]) \in Seq(Effects)
          BY <2>6, HotEvents DEF IInv
        <4>5. ASSUME NEW s \in Seq(Effects), IsPrefix(s, before.state)
              PROVE  IsPrefix(s, After(event))
          BY <3>1, <4>2, <4>3, <4>5, PrefixTransitive DEF PassedUpTo
        <4>6. IsPrefix(ckpt, After(event))
          BY <3>1, <4>5 DEF PassedUpTo, IInv, TypeOK
        <4>7. \A i \in 1..n : hot[i].kind = "habitat" => IsPrefix(After(hot[i]), After(event))
          BY <3>1, <4>4, <4>5 DEF PassedUpTo
        <4> QED BY <2>4, <2>5, <2>8, <4>1, <4>2, <4>3, <4>6, <4>7 DEF PassedUpTo
      <3> QED BY <3>2, <3>3
    <2> QED BY <2>7, <2>8
  <1> HIDE DEF Passed
  <1>4. \A n \in 0..Len(hot) : n \in Passed
    BY <1>1, <1>2, <1>3, UpTo
  <1> USE DEF Passed
  <1> QED BY <1>4


\* A restore that succeeds has passed every state on record.
LEMMA ReplayExtends ==
    ASSUME IInv, Replayed.ok
    PROVE  \A s \in Recorded : IsPrefix(s, Replayed.state)
  <1> DEFINE state == Replayed.state
  <1>1. hot \in Seq(HotEvent) /\ Len(hot) \in 0..Len(hot) /\ DOMAIN hot = 1..Len(hot)
    BY DEF IInv, TypeOK
  <1>2. PassedUpTo(Len(hot), state)
    BY <1>1, ReplayPasses DEF Replayed
  <1> HIDE DEF state
  <1>3. \A i \in HabitatEvents : IsPrefix(After(hot[i]), state)
    BY <1>1, <1>2 DEF PassedUpTo, HabitatEvents
  <1>4. IsPrefix(ckpt, state)
    BY <1>2 DEF PassedUpTo
  <1> QED BY <1>3, <1>4 DEF Recorded, state

-----------------------------------------------------------------------------
(* Theorems *)

\* Rows, history, commit in progress, events, engine and effects fit together in
\* every reachable state.
THEOREM Invariance == Spec => []IInv
  <1>1. Init => IInv
    BY InitOK
  <1>2. IInv /\ [Next]_vars => IInv'
    <2> SUFFICES ASSUME IInv, [Next]_vars
                 PROVE  IInv'
      OBVIOUS
    <2>1. CASE \E e \in Executions : Submit(e) \/ Retry(e) \/ Rehydrate(e)
      BY <2>1, SubmitOK, RetryOK, RehydrateOK
    <2>2. CASE CommitSuccess \/ Install \/ CommitFailure \/ CommitRaises \/ FinishOutcome
      BY <2>2, CommitSuccessOK, InstallOK, CommitFailureOK, CommitRaisesOK, FinishOutcomeOK
    <2>3. CASE SaveSnapshot \/ Compact \/ Crash \/ Load
      BY <2>3, SaveSnapshotOK, CompactOK, CrashOK, LoadOK
    <2>4. CASE RestoreEngine \/ PassEngine
      BY <2>4, EngineTaken DEF RestoreEngine, Restorable, PassEngine
    <2>5. CASE AttachEngine
      BY <2>5, AttachEngineOK
    <2>6. CASE UNCHANGED vars
      <3>1. UNCHANGED <<journal, hot, ckpt, snap, engine, mem, phys, call, request,
                        applied, worlds, crashes>>
        BY <2>6 DEF vars, durable, volatile
      <3>2. TypeOK' /\ StatesRecorded'
        BY <3>1, LedgerKept DEF IInv, TypeOK, StatesRecorded, Serving
      <3>3. CallOK'
        BY <3>1, LedgerKept DEF IInv, CallOK, Serving
      <3>4. EffectsOK'
        BY <3>1 DEF IInv, EffectsOK, Matching, FromCalls, Times, Serving
      <3> QED BY <3>1, <3>2, <3>3, <3>4, LedgerKept DEF IInv
    <2> QED BY <2>1, <2>2, <2>3, <2>4, <2>5, <2>6 DEF Next
  <1> QED BY <1>1, <1>2, PTL DEF Spec

\* Every variable keeps its type.
THEOREM TypeCorrect == Spec => []TypeOK
  <1>1. IInv => TypeOK
    BY DEF IInv
  <1> QED BY <1>1, Invariance, PTL

\* The status of an execution is the truth about it: its mutation is in the
\* committed history once if the row says success, else never, and the outcomes in
\* the ledger say what the rows say.
THEOREM RowsTellTheTruth == Spec => []StatusIsTruth
  <1>1. ASSUME IInv
        PROVE  StatusIsTruth
    <2>1. applied \in Seq(Executions) /\ DOMAIN applied = 1..Len(applied)
      BY <1>1 DEF IInv, TypeOK
    <2>2. ASSUME NEW e \in Executions
          PROVE  Times(applied, e) = IF journal[e] = "COMMITTED_SUCCESS" THEN 1 ELSE 0
      <3>1. CASE journal[e] = "COMMITTED_SUCCESS"
        <4>1. PICK k \in 1..Len(applied) : applied[k] = e
          BY <1>1, <2>1, <3>1 DEF IInv, RowsOK
        <4>2. {i \in 1..Len(applied) : applied[i] = e} = {k}
          BY <1>1, <2>1, <4>1 DEF IInv, RowsOK
        <4> QED BY <3>1, <4>2, FS_Singleton DEF Times
      <3>2. CASE journal[e] # "COMMITTED_SUCCESS"
        <4>1. {i \in 1..Len(applied) : applied[i] = e} = {}
          BY <1>1, <2>1, <3>2 DEF IInv, RowsOK
        <4> QED BY <3>2, <4>1, FS_EmptySet DEF Times
      <3> QED BY <3>1, <3>2
    <2> QED BY <1>1, <2>2 DEF IInv, StatusIsTruth, MutatesAtMostOnce
  <1> QED BY <1>1, Invariance, PTL

\* A terminal status is never changed again, however often a commit is retried.
THEOREM TerminalForGood == Spec => TerminalIsFinal
  <1> DEFINE A == \A e \in Executions : journal[e] \in Terminal => journal'[e] = journal[e]
  <1>1. ASSUME IInv, [Next]_vars
        PROVE  [A]_vars
    <2>1. CASE \E f \in Executions : Submit(f)
      <3>1. PICK f \in Executions : Submit(f)
        BY <2>1
      <3>2. journal[f] = "absent" /\ journal' = [journal EXCEPT ![f] = "PREPARED"]
        BY <1>1, <3>1 DEF Submit, IInv, RowsOK
      <3> QED BY <1>1, <3>2 DEF IInv, TypeOK, Terminal
    <2>2. CASE CommitSuccess \/ CommitFailure
      <3>1. /\ journal[call.exec] = "PREPARED"
            /\ \E s \in Status : journal' = [journal EXCEPT ![call.exec] = s]
        BY <1>1, <2>2 DEF CommitSuccess, CommitFailure, IInv, CallOK, Status, Terminal
      <3> QED BY <1>1, <3>1 DEF IInv, TypeOK, Terminal
    <2>3. ASSUME journal' = journal
          PROVE  A
      BY <2>3
    <2>4. CASE \E f \in Executions : Retry(f) \/ Rehydrate(f)
      BY <2>3, <2>4 DEF Retry, Rehydrate, durable
    <2>5. CASE \/ Install \/ CommitRaises \/ FinishOutcome \/ SaveSnapshot \/ Compact
               \/ Crash \/ Load \/ RestoreEngine \/ AttachEngine \/ PassEngine
      BY <2>3, <2>5 DEF Install, CommitRaises, FinishOutcome, SaveSnapshot, Compact,
                        Crash, Load, RestoreEngine, AttachEngine, PassEngine, durable
    <2> QED BY <1>1, <2>1, <2>2, <2>4, <2>5 DEF Next
  <1> QED BY <1>1, Invariance, PTL DEF Spec, TerminalIsFinal

\* Whatever engines committed on, every habitat event starts in the checkpoint's
\* state or where an earlier event ended, and the snapshot is bound to such a state.
THEOREM EventsStartOnRecord == Spec => []HistoryGrounded
  <1>1. IInv => HistoryGrounded
    BY DEF IInv, StatesRecorded, EventsGrounded, HistoryGrounded
  <1> QED BY <1>1, Invariance, PTL

\* The engine in use shows a state that is on record.
THEOREM EngineStaysOnRecord == Spec => []EngineOnRecord
  <1>1. IInv => EngineOnRecord
    BY DEF IInv, StatesRecorded, EngineOnRecord
  <1> QED BY <1>1, Invariance, PTL

\* The effects the body has received are those of the mutations in the habitat.
THEOREM BodyMatchesHabitat == Spec => []EffectsMatchHabitat
  <1>1. IInv => EffectsMatchHabitat
    BY DEF IInv, EffectsOK, Matching, EffectsMatchHabitat
  <1> QED BY <1>1, Invariance, PTL

\* A restore that succeeds extends every state on record: a ledger that forked into
\* different states is refused.
THEOREM RestoreIsComplete == Spec => []ReplayLosesNothing
  <1>1. IInv => ReplayLosesNothing
    BY ReplayExtends DEF ReplayLosesNothing
  <1> QED BY <1>1, Invariance, PTL
-----------------------------------------------------------------------------
(* What callers and engines see *)

Verdicts == [e \in Executions |-> Verdict(e)]

\* Nothing is decided while every row keeps its status, or is only prepared.
LEMMA SameVerdicts ==
    ASSUME \A e \in Executions :
               \/ journal'[e] = journal[e]
               \/ journal[e] = "absent" /\ journal'[e] = "PREPARED"
    PROVE  Verdicts' = Verdicts
  <1>1. \A e \in Executions : Verdict(e)' = Verdict(e)
    BY DEF Verdict
  <1> QED BY <1>1 DEF Verdicts

\* A status that changes from PREPARED to v decides that execution alone.
LEMMA OneVerdict ==
    ASSUME TypeOK, NEW e \in Executions, journal[e] = "PREPARED",
           NEW s \in Terminal, journal' = [journal EXCEPT ![e] = s],
           NEW v, v = IF s = "COMMITTED_SUCCESS" THEN "success" ELSE "failure"
    PROVE  Verdicts[e] = "open" /\ Verdicts' = [Verdicts EXCEPT ![e] = v]
  <1>1. journal \in [Executions -> Status]
    BY DEF TypeOK
  <1>2. journal'[e] = s /\ \A f \in Executions : f # e => journal'[f] = journal[f]
    BY <1>1
  <1>3. Verdict(e) = "open" /\ Verdict(e)' = v
    BY <1>2 DEF Verdict, Terminal
  <1>4. \A f \in Executions : f # e => Verdict(f)' = Verdict(f)
    BY <1>2 DEF Verdict
  <1>5. Verdicts' = [f \in Executions |-> IF f = e THEN v ELSE Verdict(f)]
    BY <1>3, <1>4 DEF Verdicts
  <1> QED BY <1>3, <1>5 DEF Verdicts

\* An engine has caught up that is on record, not behind where it was, and has
\* installed what was committed.
LEMMA Caught ==
    ASSUME IInv, IInv', journal' = journal, worlds' = worlds, Serving',
           call'.stage # "install",
           Serving => IsPrefix(mem, mem'),
           call.stage = "install" => mem' = Append(mem, EffectOf[call.exec])
    PROVE  World!CatchUp
  <1>1. mem \in Seq(Effects) /\ mem' \in Seq(Effects) /\ mem' \in worlds
    BY DEF IInv, TypeOK, StatesRecorded
  <1>2. Shown' = mem' /\ Tip' = mem'
    BY DEF Shown, Tip
  <1>3. World!Prefix(Shown, Shown')
    <2>1. CASE Serving
      BY <1>1, <1>2, <2>1, PrefixMeaning DEF World!Prefix, Shown
    <2>2. CASE ~Serving
      BY <1>1, <1>2, <2>2 DEF World!Prefix, Shown
    <2> QED BY <2>1, <2>2
  <1>4. Shown # Tip => Shown' = Tip
    BY <1>2 DEF Tip
  <1>5. Verdicts' = Verdicts
    BY SameVerdicts
  <1> QED BY <1>1, <1>2, <1>3, <1>4, <1>5 DEF World!CatchUp, Verdicts

\* Every step of the journal is a step of the world, or none.
LEMMA StepImplements ==
    ASSUME IInv, IInv', [Next]_vars
    PROVE  [World!WorldNext]_World!worldVars
  <1>1. /\ TypeOK /\ RowsOK /\ CallOK /\ mem \in Seq(Effects)
        /\ journal \in [Executions -> Status]
        /\ \A e \in Executions : EffectOf[e] \in Effects
    BY JournalAssumption DEF IInv, TypeOK, JournalAssumption
  <1>2. ASSUME Verdicts' = Verdicts, worlds' = worlds, Shown' = Shown, Tip' = Tip
        PROVE  UNCHANGED World!worldVars
    BY <1>2 DEF World!worldVars, Verdicts
  <1>3. ASSUME NEW e \in Executions, Submit(e)
        PROVE  UNCHANGED World!worldVars
    <2>1. journal[e] = "absent" /\ journal' = [journal EXCEPT ![e] = "PREPARED"]
      BY <1>1, <1>3 DEF Submit, RowsOK
    <2>2. Verdicts' = Verdicts
      BY <1>1, <2>1, SameVerdicts
    <2>3. Shown' = Shown /\ worlds' = worlds
      BY <1>3 DEF Submit, Shown, Serving
    <2>4. call.stage # "install" /\ call'.stage # "install"
      BY <1>3 DEF Submit, Idle, NoCall
    <2>5. Tip' = Tip
      BY <2>3, <2>4 DEF Tip
    <2> QED BY <1>2, <2>2, <2>3, <2>5
  <1>4. CASE (\E e \in Executions : Retry(e)) \/ CommitRaises \/ FinishOutcome
    <2>1. journal' = journal /\ worlds' = worlds /\ Shown' = Shown
      BY <1>4 DEF Retry, CommitRaises, FinishOutcome, durable, Shown, Serving
    <2>2. Verdicts' = Verdicts
      BY <2>1, SameVerdicts
    <2>3. call.stage # "install" /\ call'.stage # "install"
      BY <1>4 DEF Retry, CommitRaises, FinishOutcome, Idle, NoCall
    <2>4. Tip' = Tip
      BY <2>1, <2>3 DEF Tip
    <2> QED BY <1>2, <2>1, <2>2, <2>4
  <1>5. CASE SaveSnapshot \/ Compact \/ UNCHANGED vars
    <2>1. UNCHANGED <<journal, worlds, engine, mem, call>>
      BY <1>5 DEF SaveSnapshot, Compact, vars, volatile, durable
    <2>2. Verdicts' = Verdicts
      BY <2>1, SameVerdicts
    <2>3. Shown' = Shown /\ Tip' = Tip
      BY <2>1 DEF Shown, Tip, Serving
    <2> QED BY <1>2, <2>1, <2>2, <2>3
  <1>6. CASE Load
    <2>1. /\ journal' = journal /\ worlds' = worlds /\ ~Serving /\ ~Serving'
          /\ call = NoCall /\ call' = NoCall
      BY <1>1, <1>6 DEF Load, durable, Serving, CallOK
    <2>2. Verdicts' = Verdicts
      BY <2>1, SameVerdicts
    <2>3. Shown' = Shown /\ Tip' = Tip
      BY <2>1 DEF Shown, Tip, NoCall
    <2> QED BY <1>2, <2>1, <2>2, <2>3
  <1>7. ASSUME NEW e \in Executions, Rehydrate(e)
        PROVE  World!CatchUp
    <2>1. /\ journal' = journal /\ worlds' = worlds /\ Serving'
          /\ call.stage = "none" /\ call'.stage = "none"
      BY <1>7 DEF Rehydrate, durable, Idle, Serving, NoCall
    <2>2. mem' = Append(mem, EffectOf[e]) /\ EffectOf[e] \in Effects
      BY <1>1, <1>7, RehydratedByOne
    <2>3. IsPrefix(mem, mem')
      BY <1>1, <2>2, PrefixOfAppended
    <2> QED BY <2>1, <2>3, Caught
  <1>8. CASE Install
    <2>1. /\ journal' = journal /\ worlds' = worlds /\ Serving' /\ call'.stage # "install"
          /\ mem' = Append(mem, EffectOf[call.exec]) /\ call.exec \in Executions
      BY <1>1, <1>8, CallInProgress DEF Install, durable, Serving, CallOK, NoCall, Returned, Call
    <2>2. IsPrefix(mem, mem')
      BY <1>1, <2>1, PrefixOfAppended
    <2>3. World!CatchUp
      BY <2>1, <2>2, Caught
    <2> QED BY <2>3 DEF World!WorldNext
  <1>9. CASE RestoreEngine \/ AttachEngine \/ PassEngine
    <2>1. /\ journal' = journal /\ worlds' = worlds /\ Serving'
          /\ call.stage = "none" /\ call'.stage = "none"
          /\ Serving => mem' = mem
      BY <1>1, <1>9 DEF RestoreEngine, AttachEngine, PassEngine, durable, Serving, CallOK, NoCall
    <2>2. Serving => IsPrefix(mem, mem')
      BY <1>1, <2>1, PrefixReflexive
    <2>3. World!CatchUp
      BY <2>1, <2>2, Caught
    <2> QED BY <2>3 DEF World!WorldNext
  <1>10. CASE Crash
    <2>1. journal' = journal /\ worlds' = worlds /\ ~Serving' /\ call' = NoCall
      BY <1>10 DEF Crash, durable, Serving
    <2>2. Verdicts' = Verdicts
      BY <2>1, SameVerdicts
    <2>3. Shown' = <<>> /\ Tip' = <<>>
      BY <2>1 DEF Shown, Tip, NoCall
    <2>4. World!LoseEngine
      BY <2>1, <2>2, <2>3 DEF World!LoseEngine, Verdicts
    <2> QED BY <2>4 DEF World!WorldNext
  <1>11. CASE CommitSuccess
    <2>1. /\ call.stage = "prepared" /\ UNCHANGED <<engine, mem>>
          /\ journal' = [journal EXCEPT ![call.exec] = "COMMITTED_SUCCESS"]
          /\ worlds' = worlds \cup {Append(mem, EffectOf[call.exec])}
          /\ call' = [call EXCEPT !.stage = "install"]
      BY <1>11 DEF CommitSuccess
    <2>2. /\ call.exec \in Executions /\ journal[call.exec] = "PREPARED" /\ Serving
          /\ call'.stage = "install" /\ call'.exec = call.exec
      BY <1>1, <2>1, CallInProgress DEF CallOK, NoCall, Call
    <2>3. /\ Verdicts[call.exec] = "open"
          /\ Verdicts' = [Verdicts EXCEPT ![call.exec] = "success"]
      BY <1>1, <2>1, <2>2, OneVerdict DEF Terminal
    <2>4. /\ Shown = mem /\ Shown' = mem /\ Tip = mem
          /\ Tip' = Append(mem, EffectOf[call.exec])
      BY <2>1, <2>2 DEF Shown, Tip, Serving
    <2>5. World!Take(call.exec)
      BY <2>1, <2>3, <2>4 DEF World!Take, Verdicts
    <2> QED BY <2>2, <2>5 DEF World!WorldNext
  <1>12. CASE CommitFailure
    <2>1. /\ call.stage = "prepared" /\ UNCHANGED <<engine, mem, worlds>>
          /\ journal' = [journal EXCEPT ![call.exec] = "COMMITTED_FAILURE"]
          /\ call' = Returned
      BY <1>12 DEF CommitFailure
    <2>2. /\ call.exec \in Executions /\ journal[call.exec] = "PREPARED"
          /\ call'.stage # "install"
      BY <1>1, <2>1, CallInProgress DEF CallOK, Returned, NoCall, Call
    <2>3. /\ Verdicts[call.exec] = "open"
          /\ Verdicts' = [Verdicts EXCEPT ![call.exec] = "failure"]
      BY <1>1, <2>1, <2>2, OneVerdict DEF Terminal
    <2>4. Shown' = Shown /\ Tip' = Tip
      BY <2>1, <2>2 DEF Shown, Tip, Serving
    <2>5. World!Refuse(call.exec)
      BY <2>1, <2>3, <2>4 DEF World!Refuse, Verdicts
    <2> QED BY <2>2, <2>5 DEF World!WorldNext
  <1>13. CASE \E e \in Executions : Submit(e) \/ Rehydrate(e)
    BY <1>3, <1>7, <1>13 DEF World!WorldNext
  <1> QED
    BY <1>4, <1>5, <1>6, <1>8, <1>9, <1>10, <1>11, <1>12, <1>13 DEF Next

\* The journal implements the branching world: an execution takes effect once, on
\* the committed state its engine shows, verdicts are for ever, and while an engine
\* lives it takes nothing back (habitat/execution_journal.py, runtime.py
\* commit_manipulation, load_organism; embodiment.py attach_habitat_engine).
THEOREM JournalImplementsWorld == Spec => ImplementsWorld
  <1>1. Init => World!WorldInit
    <2> SUFFICES ASSUME Init PROVE World!WorldInit
      OBVIOUS
    <2>1. Verdicts = [e \in Executions |-> "open"]
      BY DEF Init, Verdicts, Verdict
    <2>2. Shown = <<>> /\ Tip = <<>>
      BY DEF Init, Shown, Tip, Serving, NoCall
    <2> QED BY <2>1, <2>2 DEF Init, World!WorldInit, Verdicts
  <1>2. IInv /\ IInv' /\ [Next]_vars => [World!WorldNext]_World!worldVars
    BY StepImplements
  <1> QED BY <1>1, <1>2, Invariance, PTL DEF Spec, ImplementsWorld, World!WorldSpec
=============================================================================
