-------------------------- MODULE Attachment_proofs --------------------------
(***************************************************************************)
(* Proofs about Attachment, for any number of objects, any delay and any   *)
(* bounds.                                                                 *)
(*                                                                         *)
(* RestartAccepted is about the next load only; what carries it from step  *)
(* to step is SnapNotAhead and SnapAgrees, which say how the restart       *)
(* snapshot relates to the ledger.                                         *)
(***************************************************************************)
EXTENDS Attachment, FiniteSetTheorems, TLAPS

\* A body is named after the event that introduced it.
BodiesNamed == \A i \in 1..Len(attachments) : attachments[i].body \in 1..i

\* A snapshot covers no event the ledger does not have.
SnapNotAhead == snap.at <= Len(attachments)

\* A snapshot no event is newer than has the occupancy of the last one.
SnapAgrees ==
    (attachments # <<>> /\ snap.fields /\ snap.at = Len(attachments))
        => snap.holder = HolderOf(LedgerState)

\* A live organism has an adapter, and is attached or was before it is up.
HasAdapter ==
    /\ phase # "down" => adapter.status # "NONE"
    /\ phase = "up" => attachments # <<>>

\* The records of the ledger alone.
LedgerOK == attachments \in Seq(Record) /\ AttachmentHistory /\ BodiesNamed

IInv ==
    /\ TypeOK
    /\ LedgerOK
    /\ SnapNotAhead /\ SnapAgrees
    /\ HasAdapter
    /\ LiveFollowsLedger
    /\ HeldByThisBody
    /\ DelayedForThisBody

-----------------------------------------------------------------------------
(* One event more *)

LEMMA ReplacedFinite ==
    ASSUME attachments \in Seq(Record)
    PROVE  IsFiniteSet(Replaced) /\ Replacements \in Nat
  <1>1. Replaced \subseteq 1..Len(attachments) /\ Len(attachments) \in Nat
    BY DEF Replaced
  <1>2. IsFiniteSet(1..Len(attachments))
    BY <1>1, FS_Interval
  <1>3. IsFiniteSet(Replaced)
    BY <1>1, <1>2, FS_Subset
  <1> QED BY <1>3, FS_CardinalityType DEF Replacements

\* The event that may follow the ledger: the next generation, of the last body or
\* of one of its own, and attached exactly when the last event detached.
Follows(r) ==
    /\ r \in Record
    /\ r.gen = Len(attachments) + 1
    /\ r.body = IF r.kind = "replaced" THEN Len(attachments) + 1
                ELSE IF attachments = <<>> THEN 1 ELSE Last.body
    /\ attachments # <<>> => (r.kind = "attached" <=> Last.kind = "detached")

StateOf(r) == [body |-> r.body, gen |-> r.gen,
               status |-> IF r.kind = "detached" THEN "DETACHED" ELSE "ATTACHED"]

LEMMA OneEventMore ==
    ASSUME LedgerOK, NEW r, Follows(r), attachments' = Append(attachments, r)
    PROVE  /\ LedgerOK'
           /\ attachments' # <<>>
           /\ Len(attachments') = Len(attachments) + 1
           /\ Last' = r
           /\ LedgerState' = StateOf(r)
           /\ Replacements' = IF r.kind = "replaced" THEN Replacements + 1 ELSE Replacements
  <1> DEFINE n == Len(attachments)
  <1>1. /\ attachments \in Seq(Record) /\ r \in Record /\ n \in Nat
        /\ n = 0 <=> attachments = <<>>
    BY DEF LedgerOK, Follows
  <1>2. /\ Len(attachments') = n + 1
        /\ attachments'[n + 1] = r
        /\ \A i \in 1..n : attachments'[i] = attachments[i]
        /\ attachments' \in Seq(Record)
    BY <1>1
  <1>3. attachments' # <<>> /\ Last' = r
    BY <1>1, <1>2 DEF Last
  <1>4. LedgerState' = StateOf(r)
    BY <1>3 DEF LedgerState, StateOf
  <1>5. BodiesNamed'
    <2> SUFFICES ASSUME NEW i \in 1..n + 1
                 PROVE  attachments'[i].body \in 1..i
      BY <1>2 DEF BodiesNamed
    <2>1. CASE i \in 1..n
      BY <1>2, <2>1 DEF LedgerOK, BodiesNamed
    <2>2. CASE i = n + 1
      <3>1. n # 0 => Last.body \in 1..n
        BY <1>1 DEF LedgerOK, BodiesNamed, Last
      <3>2. r.body \in 1..n + 1
        BY <1>1, <3>1 DEF Follows
      <3> QED BY <1>2, <2>2, <3>2
    <2> QED BY <1>1, <2>1, <2>2
  <1>6. AttachmentHistory'
    <2>1. \A i \in 1..n + 1 : attachments'[i].gen = i
      BY <1>1, <1>2 DEF LedgerOK, AttachmentHistory, Follows
    <2>2. ASSUME NEW i \in 1..n + 1
          PROVE  attachments'[i].body = IF attachments'[i].kind = "replaced" THEN i
                                        ELSE IF i = 1 THEN 1 ELSE attachments'[i - 1].body
      <3>1. CASE i \in 1..n
        BY <1>1, <1>2, <3>1 DEF LedgerOK, AttachmentHistory
      <3>2. CASE i = n + 1
        <4>1. n # 0 => attachments'[i - 1] = Last
          BY <1>1, <1>2, <3>2 DEF Last
        <4> QED BY <1>1, <1>2, <3>2, <4>1 DEF Follows
      <3> QED BY <1>1, <3>1, <3>2
    <2>3. ASSUME NEW i \in 2..n + 1
          PROVE  attachments'[i].kind = "attached" <=> attachments'[i - 1].kind = "detached"
      <3>1. CASE i \in 2..n
        BY <1>1, <1>2, <3>1 DEF LedgerOK, AttachmentHistory
      <3>2. CASE i = n + 1
        <4>1. n # 0 /\ attachments'[i - 1] = Last
          BY <1>1, <1>2, <3>2 DEF Last
        <4> QED BY <1>1, <1>2, <3>2, <4>1 DEF Follows
      <3> QED BY <1>1, <3>1, <3>2
    <2> QED BY <1>2, <2>1, <2>2, <2>3 DEF AttachmentHistory
  <1>7. Replacements' = IF r.kind = "replaced" THEN Replacements + 1 ELSE Replacements
    <2>1. CASE r.kind = "replaced"
      <3>1. Replaced' = Replaced \cup {n + 1} /\ n + 1 \notin Replaced
        BY <1>1, <1>2, <2>1 DEF Replaced
      <3> QED BY <1>1, <2>1, <3>1, ReplacedFinite, FS_AddElement DEF Replacements
    <2>2. CASE r.kind # "replaced"
      <3>1. Replaced' = Replaced
        BY <1>1, <1>2, <2>2 DEF Replaced
      <3> QED BY <2>2, <3>1 DEF Replacements
    <2> QED BY <2>1, <2>2
  <1> QED BY <1>2, <1>3, <1>4, <1>5, <1>6, <1>7 DEF LedgerOK

\* What the ledger says is attached.
LEMMA LedgerStateFacts ==
    ASSUME LedgerOK
    PROVE  /\ Len(attachments) \in Nat
           /\ LedgerState.gen = Len(attachments)
           /\ attachments = <<>> => LedgerState = Unattached
           /\ attachments # <<>> =>
                 /\ Last \in Record
                 /\ LedgerState = StateOf(Last)
                 /\ Last.gen = Len(attachments)
                 /\ Last.body \in 1..Len(attachments)
  <1>1. attachments \in Seq(Record) /\ Len(attachments) \in Nat
    BY DEF LedgerOK
  <1>2. CASE attachments = <<>>
    BY <1>1, <1>2 DEF LedgerState, Unattached
  <1>3. CASE attachments # <<>>
    <2>1. Len(attachments) \in 1..Len(attachments)
      BY <1>1, <1>3
    <2>2. Last.gen = Len(attachments) /\ Last.body \in 1..Len(attachments) /\ Last \in Record
      BY <1>1, <2>1 DEF LedgerOK, AttachmentHistory, BodiesNamed, Last
    <2> QED BY <1>1, <1>3, <2>2 DEF LedgerState, StateOf
  <1> QED BY <1>2, <1>3

-----------------------------------------------------------------------------
(* Attach, detach, swap and the migrations *)

\* The body an attach, a detach or a swap leaves attached is the body of the ledger.
SameBody == IF adapter.body = 0 THEN NewId ELSE adapter.body

\* Every event but a replacement: what is held may move on with its body's generation.
LEMMA CommitStep ==
    ASSUME IInv, phase # "down",
           NEW kind \in {"attached", "detached", "swapped"}, NEW profile \in Profiles,
           adapter.status = IF kind = "attached" THEN "DETACHED" ELSE "ATTACHED",
           Commit(kind, SameBody, adapter.gen + 1, profile),
           UNCHANGED <<snap, phase, binding, bound, engine, actuation, proposal, unfinished>>,
           version' \in Nat, location' \in [Objects -> Holder],
           \A o \in Objects : location'[o] # Nobody =>
               /\ location[o] # Nobody
               /\ location'[o].body = location[o].body
               /\ location'[o].gen <= adapter.gen + 1
    PROVE  IInv'
  <1> DEFINE r == [kind |-> kind, body |-> SameBody, gen |-> adapter.gen + 1,
                   profile |-> profile]
  <1>1. /\ LedgerOK /\ TypeOK
        /\ adapter = LedgerState
        /\ attachments # <<>> => occupancy = HolderOf(LedgerState)
    BY DEF IInv, HasAdapter, LiveFollowsLedger
  <1>2. /\ attachments' = Append(attachments, r)
        /\ adapter' = [body |-> SameBody, gen |-> adapter.gen + 1,
                       status |-> IF kind = "detached" THEN "DETACHED" ELSE "ATTACHED"]
        /\ occupancy' = [body |-> SameBody, gen |-> adapter.gen + 1]
    BY DEF Commit
  <1>3. adapter.gen = Len(attachments) /\ Len(attachments) \in Nat
    BY <1>1, LedgerStateFacts
  <1>4. /\ attachments = <<>> => SameBody = 1 /\ kind = "attached"
        /\ attachments # <<>> => /\ SameBody = Last.body
                                 /\ SameBody \in Nat
                                 /\ kind = "attached" <=> Last.kind = "detached"
    <2>1. CASE attachments = <<>>
      BY <1>1, <2>1, LedgerStateFacts DEF Unattached, SameBody, NewId
    <2>2. CASE attachments # <<>>
      <3>1. Last.body \in 1..Len(attachments) /\ LedgerState = StateOf(Last)
        BY <1>1, <2>2, LedgerStateFacts
      <3>2. adapter.body = Last.body /\ (adapter.status = "DETACHED" <=> Last.kind = "detached")
        BY <1>1, <3>1 DEF StateOf
      <3> QED BY <1>3, <2>2, <3>1, <3>2 DEF SameBody
    <2> QED BY <2>1, <2>2
  <1>5. Follows(r)
    BY <1>3, <1>4 DEF Follows, Record, Kinds
  <1>6. /\ LedgerOK' /\ attachments' # <<>>
        /\ Len(attachments') = Len(attachments) + 1
        /\ Last' = r /\ LedgerState' = StateOf(r)
        /\ Replacements' = Replacements
    <2> HIDE DEF r
    <2>1. r.kind # "replaced"
      BY DEF r
    <2> QED BY <1>1, <1>2, <1>5, <2>1, OneEventMore
  <1>7. TypeOK'
    BY <1>1, <1>2, <1>3, <1>4, <1>6 DEF TypeOK, LedgerOK, Holder
  <1>8. SnapNotAhead' /\ SnapAgrees'
    <2>1. snap' = snap /\ snap.at \in Nat /\ snap.at <= Len(attachments)
      BY <1>1 DEF IInv, SnapNotAhead, TypeOK
    <2> QED BY <1>3, <1>6, <2>1 DEF SnapNotAhead, SnapAgrees
  <1>9. HasAdapter' /\ LiveFollowsLedger'
    BY <1>2, <1>6 DEF IInv, HasAdapter, LiveFollowsLedger, StateOf, HolderOf
  <1>10. HeldByThisBody'
    <2> SUFFICES ASSUME NEW o \in Objects, location'[o] # Nobody
                 PROVE  /\ location'[o].body = Last'.body
                        /\ location'[o].gen <= Last'.gen
      BY <1>6 DEF HeldByThisBody
    <2>1. location[o] # Nobody /\ location'[o].body = location[o].body
      OBVIOUS
    <2>2. attachments # <<>> /\ location[o].body = Last.body
      BY <2>1 DEF IInv, HeldByThisBody
    <2> QED BY <1>4, <1>6, <2>1, <2>2
  <1>11. DelayedForThisBody'
    BY <1>6 DEF IInv, DelayedForThisBody
  <1> QED BY <1>6, <1>7, <1>8, <1>9, <1>10, <1>11 DEF IInv

\* With nothing moved, what is held was picked up in an earlier generation.
LEMMA HeldBefore ==
    ASSUME IInv, phase # "down", UNCHANGED location
    PROVE  /\ location' \in [Objects -> Holder]
           /\ \A o \in Objects : location'[o] # Nobody =>
               /\ location[o] # Nobody
               /\ location'[o].body = location[o].body
               /\ location'[o].gen <= adapter.gen + 1
  <1>1. adapter = LedgerState /\ LedgerOK /\ location \in [Objects -> Holder]
    BY DEF IInv, HasAdapter, LiveFollowsLedger, TypeOK
  <1>2. ASSUME NEW o \in Objects, location[o] # Nobody
        PROVE  location[o].gen <= adapter.gen + 1
    <2>1. attachments # <<>> /\ location[o].gen <= Last.gen /\ location[o].gen \in Nat
      BY <1>1, <1>2 DEF IInv, HeldByThisBody, Holder
    <2>2. Last.gen = adapter.gen /\ adapter.gen \in Nat
      BY <1>1, <2>1, LedgerStateFacts
    <2> QED BY <2>1, <2>2
  <1> QED BY <1>1, <1>2

\* An attached body has a name.
LEMMA AttachedNamed ==
    ASSUME IInv, phase # "down", adapter.status = "ATTACHED"
    PROVE  adapter.body = SameBody /\ adapter.body # 0 /\ attachments # <<>>
  <1>1. adapter = LedgerState /\ LedgerOK
    BY DEF IInv, HasAdapter, LiveFollowsLedger
  <1>2. attachments # <<>>
    BY <1>1, LedgerStateFacts DEF Unattached
  <1>3. adapter.body \in 1..Len(attachments)
    BY <1>1, <1>2, LedgerStateFacts DEF StateOf
  <1> QED BY <1>2, <1>3 DEF SameBody

LEMMA AttachStep ==
    ASSUME IInv, phase # "down", NEW profile \in Profiles, AttachAs(profile),
           UNCHANGED <<version, location, snap, phase, binding, bound, engine, actuation,
                       proposal, unfinished>>
    PROVE  IInv'
  <1>1. /\ adapter.status = "DETACHED"
        /\ Commit("attached", SameBody, adapter.gen + 1, profile)
    BY DEF AttachAs, SameBody
  <1>2. version' \in Nat
    BY DEF IInv, TypeOK
  <1> QED BY <1>1, <1>2, CommitStep, HeldBefore

LEMMA DetachStep == ASSUME IInv, Detach PROVE IInv'
  <1>1. /\ phase = "up" /\ adapter.status = "ATTACHED"
        /\ Commit("detached", adapter.body, adapter.gen + 1, "none")
        /\ UNCHANGED <<version, location, snap, phase, binding, bound, engine, actuation,
                       proposal, unfinished>>
    BY DEF Detach
  <1>2. version' \in Nat /\ adapter.body = SameBody /\ "none" \in Profiles
    BY <1>1, AttachedNamed DEF IInv, TypeOK, Profiles
  <1> QED BY <1>1, <1>2, CommitStep, HeldBefore

LEMMA SwapStep == ASSUME IInv, SwapProfile PROVE IInv'
  <1>1. /\ phase = "up" /\ adapter.status = "ATTACHED"
        /\ Commit("swapped", adapter.body, adapter.gen + 1, "d009")
        /\ UNCHANGED <<version, location, snap, phase, binding, bound, engine, actuation,
                       proposal, unfinished>>
    BY DEF SwapProfile
  <1>2. version' \in Nat /\ adapter.body = SameBody /\ "d009" \in Profiles
    BY <1>1, AttachedNamed DEF IInv, TypeOK, Profiles
  <1> QED BY <1>1, <1>2, CommitStep, HeldBefore

\* What the body holds is rebased to the generation of the migration.
LEMMA MigrateD009Step == ASSUME IInv, MigrateD009 PROVE IInv'
  <1>1. /\ phase = "loaded" /\ adapter.status = "ATTACHED"
        /\ Commit("swapped", adapter.body, adapter.gen + 1, "d009")
        /\ location' = [o \in Objects |-> IF o \in HeldBy(adapter.body)
                                          THEN [body |-> adapter.body, gen |-> adapter.gen + 1]
                                          ELSE location[o]]
        /\ version' = version + Cardinality(HeldBy(adapter.body))
        /\ UNCHANGED <<snap, phase, binding, bound, engine, actuation, proposal, unfinished>>
    BY DEF MigrateD009
  <1>2. /\ adapter.body = SameBody /\ adapter.body # 0 /\ "d009" \in Profiles
        /\ adapter = LedgerState /\ LedgerOK
        /\ adapter.body \in Nat /\ adapter.gen \in Nat /\ version \in Nat
        /\ location \in [Objects -> Holder]
    BY <1>1, AttachedNamed DEF IInv, TypeOK, Profiles, HasAdapter, LiveFollowsLedger
  <1>3. version' \in Nat
    <2>1. IsFiniteSet(HeldBy(adapter.body))
      BY AttachmentAssumption, FS_Subset DEF HeldBy
    <2> QED BY <1>1, <1>2, <2>1, FS_CardinalityType
  <1>4. location' \in [Objects -> Holder]
    BY <1>1, <1>2 DEF Holder
  <1>5. ASSUME NEW o \in Objects, location'[o] # Nobody
        PROVE  /\ location[o] # Nobody
               /\ location'[o].body = location[o].body
               /\ location'[o].gen <= adapter.gen + 1
    <2>1. CASE o \in HeldBy(adapter.body)
      BY <1>1, <1>2, <2>1 DEF HeldBy, Nobody
    <2>2. CASE o \notin HeldBy(adapter.body)
      <3>1. location'[o] = location[o]
        BY <1>1, <2>2
      <3>2. attachments # <<>> /\ location[o].gen <= Last.gen /\ location[o].gen \in Nat
        BY <1>2, <1>5, <3>1 DEF IInv, HeldByThisBody, Holder
      <3>3. Last.gen = adapter.gen
        BY <1>2, <3>2, LedgerStateFacts
      <3> QED BY <1>2, <1>5, <3>1, <3>2, <3>3
    <2> QED BY <2>1, <2>2
  <1> QED BY <1>1, <1>2, <1>3, <1>4, <1>5, CommitStep

-----------------------------------------------------------------------------
(* The replacement of the body *)

\* What the old body holds would stay behind: a replacement finds every object free.
LEMMA ReplacementFreesAll ==
    ASSUME IInv, phase = "up", ReplacementAllowed
    PROVE  /\ \A o \in Objects : location[o] = Nobody
           /\ adapter = LedgerState /\ LedgerOK
           /\ attachments # <<>> /\ Last.kind # "detached"
           /\ Len(attachments) \in Nat /\ adapter.gen = Len(attachments)
           /\ actuation = NoDelayed /\ proposal = FALSE /\ unfinished = FALSE
  <1>1. /\ adapter = LedgerState /\ LedgerOK /\ attachments # <<>>
        /\ adapter.status = "ATTACHED" /\ HeldBy(adapter.body) = {}
        /\ actuation = NoDelayed /\ proposal = FALSE /\ unfinished = FALSE
    BY DEF ReplacementAllowed, Quiescent, IInv, TypeOK
  <1>2. /\ LedgerState = StateOf(Last) /\ Last.body \in 1..Len(attachments)
        /\ Len(attachments) \in Nat /\ adapter.gen = Len(attachments)
    BY <1>1, LedgerStateFacts
  <1>3. Last.kind # "detached" /\ adapter.body = Last.body /\ adapter.body # 0
    BY <1>1, <1>2 DEF StateOf
  <1>4. ASSUME NEW o \in Objects, location[o] # Nobody PROVE FALSE
    <2>1. location[o].body = adapter.body
      BY <1>3, <1>4 DEF IInv, HeldByThisBody
    <2> QED BY <1>1, <1>3, <2>1 DEF HeldBy
  <1> QED BY <1>1, <1>2, <1>3, <1>4

NewBody == [kind |-> "replaced", body |-> NewId, gen |-> adapter.gen + 1, profile |-> "d009"]
NewSnap == Snapshot(Len(attachments) + 1, [body |-> NewId, gen |-> adapter.gen + 1],
                    binding + 1, IF engine THEN version ELSE bound,
                    actuation, proposal, unfinished)

\* Ledger and snapshot after the transaction, which do for the live state as well as
\* for a crash.
LEMMA ReplacementCommitted ==
    ASSUME IInv, phase = "up", ReplacementAllowed,
           attachments' = Append(attachments, NewBody), snap' = NewSnap,
           UNCHANGED <<version, location>>
    PROVE  /\ LedgerOK' /\ attachments' # <<>>
           /\ Len(attachments') = Len(attachments) + 1
           /\ LedgerState' = [body |-> NewId, gen |-> adapter.gen + 1, status |-> "ATTACHED"]
           /\ Replacements' = binding + 1
           /\ SnapNotAhead' /\ SnapAgrees' /\ HeldByThisBody'
           /\ snap'.binding = binding + 1 /\ snap'.actuation = NoDelayed
           /\ snap' \in [at : Nat, fields : BOOLEAN, holder : Holder, binding : Nat,
                         bound : Nat, actuation : Pending, proposal : BOOLEAN,
                         unfinished : BOOLEAN]
           /\ attachments' \in Seq(Record)
           /\ [body |-> NewId, gen |-> adapter.gen + 1] \in Holder
  <1>1. /\ \A o \in Objects : location[o] = Nobody
        /\ LedgerOK /\ attachments # <<>> /\ Last.kind # "detached"
        /\ Len(attachments) \in Nat /\ adapter.gen = Len(attachments)
        /\ actuation = NoDelayed
    BY ReplacementFreesAll
  <1>2. Follows(NewBody)
    BY <1>1 DEF Follows, NewBody, NewId, Record, Kinds, Profiles
  <1>3. /\ LedgerOK' /\ attachments' # <<>>
        /\ Len(attachments') = Len(attachments) + 1
        /\ LedgerState' = StateOf(NewBody)
        /\ Replacements' = Replacements + 1
    <2>1. NewBody.kind = "replaced"
      BY DEF NewBody
    <2>2. /\ LedgerOK' /\ attachments' # <<>>
          /\ Len(attachments') = Len(attachments) + 1
          /\ LedgerState' = StateOf(NewBody)
          /\ Replacements' = IF NewBody.kind = "replaced" THEN Replacements + 1
                             ELSE Replacements
      BY <1>1, <1>2, OneEventMore
    <2> QED BY <2>1, <2>2
  <1>4. binding = Replacements /\ binding \in Nat
    BY DEF IInv, LiveFollowsLedger, TypeOK
  <1>5. LedgerState' = [body |-> NewId, gen |-> adapter.gen + 1, status |-> "ATTACHED"]
    BY <1>3 DEF StateOf, NewBody
  <1>6. [body |-> NewId, gen |-> adapter.gen + 1] \in Holder
    BY <1>1 DEF Holder, NewId
  <1>7. /\ snap' \in [at : Nat, fields : BOOLEAN, holder : Holder, binding : Nat,
                      bound : Nat, actuation : Pending, proposal : BOOLEAN,
                      unfinished : BOOLEAN]
        /\ snap'.at = Len(attachments')
        /\ snap'.holder = [body |-> NewId, gen |-> adapter.gen + 1]
        /\ snap'.binding = binding + 1 /\ snap'.actuation = NoDelayed
    <2>1. (IF engine THEN version ELSE bound) \in Nat /\ actuation \in Pending
          /\ proposal \in BOOLEAN /\ unfinished \in BOOLEAN
      BY DEF IInv, TypeOK
    <2> HIDE DEF Pending
    <2> QED BY <1>1, <1>3, <1>4, <1>6, <2>1 DEF NewSnap, Snapshot
  <1>8. SnapNotAhead' /\ SnapAgrees'
    BY <1>1, <1>3, <1>5, <1>7 DEF SnapNotAhead, SnapAgrees, HolderOf
  <1>9. HeldByThisBody'
    BY <1>1 DEF HeldByThisBody
  <1> QED BY <1>3, <1>4, <1>5, <1>6, <1>7, <1>8, <1>9 DEF LedgerOK

LEMMA ReplaceBodyStep == ASSUME IInv, ReplaceBody PROVE IInv'
  <1>1. /\ phase = "up" /\ ReplacementAllowed
        /\ attachments' = Append(attachments, NewBody) /\ snap' = NewSnap
        /\ adapter' = [body |-> NewId, gen |-> adapter.gen + 1, status |-> "ATTACHED"]
        /\ occupancy' = [body |-> NewId, gen |-> adapter.gen + 1]
        /\ binding' = binding + 1
        /\ UNCHANGED <<version, location, phase, bound, engine, actuation, proposal,
                       unfinished>>
    BY DEF ReplaceBody, Commit, NewBody, NewSnap
  <1>2. /\ LedgerOK' /\ attachments' # <<>>
        /\ LedgerState' = [body |-> NewId, gen |-> adapter.gen + 1, status |-> "ATTACHED"]
        /\ Replacements' = binding + 1
        /\ SnapNotAhead' /\ SnapAgrees' /\ HeldByThisBody'
        /\ snap'.binding = binding + 1 /\ snap'.actuation = NoDelayed
        /\ snap' \in [at : Nat, fields : BOOLEAN, holder : Holder, binding : Nat,
                      bound : Nat, actuation : Pending, proposal : BOOLEAN,
                      unfinished : BOOLEAN]
        /\ attachments' \in Seq(Record)
        /\ [body |-> NewId, gen |-> adapter.gen + 1] \in Holder
    BY <1>1, ReplacementCommitted
  <1>3. actuation = NoDelayed
    BY <1>1, ReplacementFreesAll
  <1>4. TypeOK'
    BY <1>1, <1>2 DEF IInv, TypeOK, Holder
  <1>5. HasAdapter' /\ LiveFollowsLedger'
    BY <1>1, <1>2 DEF IInv, HasAdapter, LiveFollowsLedger, HolderOf
  <1>6. DelayedForThisBody'
    BY <1>1, <1>2, <1>3 DEF DelayedForThisBody
  <1> QED BY <1>2, <1>4, <1>5, <1>6 DEF IInv

LEMMA ReplaceBodyAndCrashStep == ASSUME IInv, ReplaceBodyAndCrash PROVE IInv'
  <1>1. /\ phase = "up" /\ ReplacementAllowed
        /\ attachments' = Append(attachments, NewBody) /\ snap' = NewSnap
        /\ phase' = "down" /\ adapter' = NoAdapter /\ occupancy' = Nobody /\ binding' = 0
        /\ bound' = 0 /\ engine' = FALSE
        /\ actuation' = NoDelayed /\ proposal' = FALSE /\ unfinished' = FALSE
        /\ UNCHANGED <<version, location>>
    BY DEF ReplaceBodyAndCrash, NewBody, NewSnap
  <1>2. /\ LedgerOK' /\ attachments' # <<>>
        /\ Replacements' = binding + 1
        /\ SnapNotAhead' /\ SnapAgrees' /\ HeldByThisBody'
        /\ snap'.binding = binding + 1 /\ snap'.actuation = NoDelayed
        /\ snap' \in [at : Nat, fields : BOOLEAN, holder : Holder, binding : Nat,
                      bound : Nat, actuation : Pending, proposal : BOOLEAN,
                      unfinished : BOOLEAN]
        /\ attachments' \in Seq(Record)
    BY <1>1, ReplacementCommitted
  <1>3. TypeOK'
    <2>1. NoDelayed \in Pending
      BY AttachmentAssumption DEF NoDelayed, Pending
    <2> QED BY <1>1, <1>2, <2>1 DEF IInv, TypeOK, Holder, NoAdapter, Nobody
  <1>4. HasAdapter' /\ LiveFollowsLedger' /\ DelayedForThisBody'
    BY <1>1, <1>2 DEF HasAdapter, LiveFollowsLedger, DelayedForThisBody
  <1> QED BY <1>2, <1>3, <1>4 DEF IInv

-----------------------------------------------------------------------------
(* Ticks, saves and restarts: no attachment event *)

LEMMA LedgerStays ==
    ASSUME UNCHANGED attachments
    PROVE  /\ Last' = Last /\ LedgerState' = LedgerState /\ Replacements' = Replacements
           /\ LedgerOK => LedgerOK'
           /\ UNCHANGED location /\ HeldByThisBody => HeldByThisBody'
  BY DEF Last, LedgerState, Replacements, Replaced, LedgerOK, AttachmentHistory,
         BodiesNamed, HeldByThisBody, Unattached

\* A step of a live session that writes no attachment event keeps the invariant when
\* it keeps a pending motion together with its proposal.
LEMMA SessionStep ==
    ASSUME IInv, phase = "up",
           UNCHANGED <<attachments, version, location, phase, adapter, occupancy, binding>>,
           bound' \in Nat, engine' \in BOOLEAN,
           actuation' \in Pending, proposal' \in BOOLEAN, unfinished' \in BOOLEAN,
           actuation' # NoDelayed => proposal' /\ actuation'.epoch = Replacements,
           \/ snap' = snap
           \/ snap' = SnapshotNow(actuation', proposal', unfinished')
    PROVE  IInv'
  <1>1. /\ Last' = Last /\ LedgerState' = LedgerState /\ Replacements' = Replacements
        /\ LedgerOK' /\ HeldByThisBody'
    BY LedgerStays DEF IInv
  <1>2. HasAdapter' /\ (phase # "down" => binding' = Replacements')
    BY <1>1 DEF IInv, HasAdapter, LiveFollowsLedger
  <1>3. /\ adapter = LedgerState /\ occupancy = HolderOf(LedgerState)
        /\ binding = Replacements /\ attachments # <<>>
        /\ Len(attachments) \in Nat
    BY DEF IInv, HasAdapter, LiveFollowsLedger, LedgerOK
  <1>4. CASE snap' = snap
    <2>1. TypeOK'
      BY <1>4 DEF IInv, TypeOK
    <2>2. SnapNotAhead' /\ SnapAgrees' /\ LiveFollowsLedger' /\ DelayedForThisBody'
      BY <1>1, <1>2, <1>4 DEF IInv, SnapNotAhead, SnapAgrees, LiveFollowsLedger,
                              DelayedForThisBody
    <2> QED BY <1>1, <1>2, <2>1, <2>2 DEF IInv
  <1>5. CASE snap' = SnapshotNow(actuation', proposal', unfinished')
    <2>1. /\ snap'.at = Len(attachments) /\ snap'.holder = occupancy
          /\ snap'.binding = binding
          /\ snap'.actuation = actuation' /\ snap'.proposal = proposal'
      BY <1>5 DEF SnapshotNow, Snapshot
    <2>2. snap' \in [at : Nat, fields : BOOLEAN, holder : Holder, binding : Nat,
                     bound : Nat, actuation : Pending, proposal : BOOLEAN,
                     unfinished : BOOLEAN]
      <3>1. /\ (IF engine THEN version ELSE bound) \in Nat
            /\ occupancy \in Holder /\ binding \in Nat
        BY DEF IInv, TypeOK
      <3> HIDE DEF Pending, Holder
      <3> QED BY <1>3, <1>5, <3>1 DEF SnapshotNow, Snapshot
    <2>3. TypeOK'
      BY <2>2 DEF IInv, TypeOK
    <2>4. SnapNotAhead' /\ SnapAgrees' /\ LiveFollowsLedger' /\ DelayedForThisBody'
      BY <1>1, <1>3, <2>1 DEF IInv, SnapNotAhead, SnapAgrees, LiveFollowsLedger,
                              DelayedForThisBody
    <2> QED BY <1>1, <1>2, <2>3, <2>4 DEF IInv
  <1> QED BY <1>4, <1>5

\* What a session step may rely on.
LEMMA SessionFacts ==
    ASSUME IInv, phase = "up"
    PROVE  /\ actuation \in Pending /\ proposal \in BOOLEAN /\ unfinished \in BOOLEAN
           /\ bound \in Nat /\ engine \in BOOLEAN /\ version \in Nat
           /\ actuation # NoDelayed => proposal /\ actuation.epoch = Replacements
           /\ Replacements \in Nat /\ Delay \in Nat
  BY ReplacedFinite, AttachmentAssumption DEF IInv, TypeOK, DelayedForThisBody

LEMMA ElapsedType ==
    ASSUME actuation \in Pending, Delay \in Nat
    PROVE  /\ Elapsed \in Pending
           /\ Elapsed # NoDelayed => ~Completes /\ Elapsed.epoch = actuation.epoch
                                     /\ actuation # NoDelayed
  BY DEF Elapsed, Pending, NoDelayed, Completes

LEMMA TickStep ==
    ASSUME IInv, NEW moves \in BOOLEAN, NEW due \in BOOLEAN, Tick(moves, due)
    PROVE  IInv'
  <1> DEFINE next == Queued(moves, Elapsed)
  <1>1. /\ phase = "up"
        /\ actuation' = next
        /\ proposal' = ((IF Completes THEN FALSE ELSE proposal) \/ next # Elapsed)
        /\ unfinished' = IF moves \/ (Completes /\ proposal) THEN FALSE ELSE unfinished
        /\ snap' = IF due THEN SnapshotNow(actuation', proposal', unfinished') ELSE snap
        /\ UNCHANGED <<attachments, version, location, phase, adapter, occupancy, binding,
                       bound, engine>>
    BY DEF Tick, TickReady
  <1>2. /\ actuation \in Pending /\ proposal \in BOOLEAN /\ unfinished \in BOOLEAN
        /\ bound \in Nat /\ engine \in BOOLEAN
        /\ actuation # NoDelayed => proposal /\ actuation.epoch = Replacements
        /\ Replacements \in Nat /\ Delay \in Nat
    BY <1>1, SessionFacts
  <1>3. /\ Elapsed \in Pending
        /\ Elapsed # NoDelayed => ~Completes /\ Elapsed.epoch = actuation.epoch
                                  /\ actuation # NoDelayed
    BY <1>2, ElapsedType
  <1>4. \/ next = Elapsed
        \/ next = [left |-> Delay, epoch |-> Replacements] /\ Delay > 0 /\ Elapsed = NoDelayed
    BY DEF Queued
  <1>5. next \in Pending
    BY <1>2, <1>3, <1>4 DEF Pending
  <1>6. next # NoDelayed => proposal' /\ next.epoch = Replacements
    <2>1. CASE next = Elapsed
      BY <1>1, <1>2, <1>3, <2>1
    <2>2. CASE next = [left |-> Delay, epoch |-> Replacements] /\ Delay > 0
               /\ Elapsed = NoDelayed
      <3>1. next.left # Elapsed.left /\ next.epoch = Replacements
        BY <1>2, <2>2 DEF NoDelayed
      <3>2. next # Elapsed
        BY <3>1
      <3> QED BY <1>1, <3>1, <3>2
    <2> QED BY <1>4, <2>1, <2>2
  <1>7. proposal' \in BOOLEAN /\ unfinished' \in BOOLEAN
    BY <1>1, <1>2
  <1>8. snap' = snap \/ snap' = SnapshotNow(actuation', proposal', unfinished')
    BY <1>1
  <1> HIDE DEF next
  <1> QED BY <1>1, <1>2, <1>5, <1>6, <1>7, <1>8, SessionStep

LEMMA TickFailsFinishingStep == ASSUME IInv, TickFailsFinishing PROVE IInv'
  <1>1. /\ phase = "up" /\ actuation' = NoDelayed /\ unfinished' = FALSE
        /\ UNCHANGED <<attachments, version, location, snap, phase, adapter, occupancy,
                       binding, bound, engine, proposal>>
    BY DEF TickFailsFinishing, TickReady, durable
  <1>2. /\ bound \in Nat /\ engine \in BOOLEAN /\ proposal \in BOOLEAN
        /\ NoDelayed \in Pending
    BY <1>1, SessionFacts DEF NoDelayed, Pending
  <1> QED BY <1>1, <1>2, SessionStep

LEMMA TickFailsActingStep == ASSUME IInv, TickFailsActing PROVE IInv'
  <1>1. /\ phase = "up" /\ actuation' = Elapsed /\ unfinished' = TRUE
        /\ proposal' = IF Completes THEN FALSE ELSE proposal
        /\ UNCHANGED <<attachments, version, location, snap, phase, adapter, occupancy,
                       binding, bound, engine>>
    BY DEF TickFailsActing, TickReady, durable
  <1>2. /\ actuation \in Pending /\ proposal \in BOOLEAN
        /\ bound \in Nat /\ engine \in BOOLEAN
        /\ actuation # NoDelayed => proposal /\ actuation.epoch = Replacements
        /\ Delay \in Nat
    BY <1>1, SessionFacts
  <1>3. /\ Elapsed \in Pending
        /\ Elapsed # NoDelayed => ~Completes /\ Elapsed.epoch = actuation.epoch
                                  /\ actuation # NoDelayed
    BY <1>2, ElapsedType
  <1> QED BY <1>1, <1>2, <1>3, SessionStep

LEMMA SaveStep == ASSUME IInv, Save PROVE IInv'
  <1>1. /\ phase = "up"
        /\ snap' = SnapshotNow(actuation, proposal, unfinished)
        /\ UNCHANGED <<attachments, version, location, phase, adapter, occupancy, binding,
                       bound, engine, actuation, proposal, unfinished>>
    BY DEF Save, volatile
  <1>2. snap' = SnapshotNow(actuation', proposal', unfinished')
    BY <1>1 DEF SnapshotNow, Snapshot
  <1> QED BY <1>1, <1>2, SessionFacts, SessionStep

LEMMA AttachEngineStep == ASSUME IInv, AttachEngine PROVE IInv'
  <1>1. /\ phase = "up" /\ engine' = TRUE /\ bound' = version
        /\ UNCHANGED <<attachments, version, location, snap, phase, adapter, occupancy,
                       binding, actuation, proposal, unfinished>>
    BY DEF AttachEngine, durable
  <1> QED BY <1>1, SessionFacts, SessionStep

\* A PICK_UP or a PLACE: only where the object is changes.
LEMMA ManipulationStep ==
    ASSUME IInv, NEW o \in Objects, PickUp(o) \/ PutDown(o)
    PROVE  IInv'
  <1>1. /\ phase = "up" /\ adapter.status = "ATTACHED"
        /\ location' = [location EXCEPT ![o] = HolderOf(adapter)]
           \/ location' = [location EXCEPT ![o] = Nobody]
        /\ version' = version + 1
        /\ UNCHANGED <<attachments, snap, phase, adapter, occupancy, binding, bound, engine,
                       actuation, proposal, unfinished>>
    BY DEF PickUp, PutDown, CanManipulate, volatile
  <1>2. /\ adapter = LedgerState /\ LedgerOK /\ attachments # <<>>
        /\ location \in [Objects -> Holder] /\ adapter.body \in Nat /\ adapter.gen \in Nat
    BY <1>1 DEF IInv, HasAdapter, LiveFollowsLedger, TypeOK
  <1>3. adapter.body = Last.body /\ adapter.gen = Last.gen
    BY <1>2, LedgerStateFacts DEF StateOf
  <1>4. /\ Last' = Last /\ LedgerState' = LedgerState /\ Replacements' = Replacements
        /\ LedgerOK'
    BY <1>1, <1>2, LedgerStays
  <1>5. HolderOf(adapter) \in Holder /\ Nobody \in Holder
    BY <1>2 DEF HolderOf, Holder, Nobody
  <1>6. TypeOK'
    BY <1>1, <1>2, <1>5 DEF IInv, TypeOK
  <1>7. HeldByThisBody'
    <2> SUFFICES ASSUME NEW x \in Objects, location'[x] # Nobody
                 PROVE  location'[x].body = Last.body /\ location'[x].gen <= Last.gen
      BY <1>1, <1>2, <1>4 DEF HeldByThisBody
    <2>1. CASE location'[x] = location[x]
      BY <2>1 DEF IInv, HeldByThisBody
    <2>2. CASE location'[x] # location[x]
      <3>1. location'[x] = HolderOf(adapter)
        BY <1>1, <1>2, <2>2
      <3> QED BY <1>2, <1>3, <3>1 DEF HolderOf
    <2> QED BY <2>1, <2>2
  <1>8. /\ SnapNotAhead' /\ SnapAgrees' /\ HasAdapter' /\ LiveFollowsLedger'
        /\ DelayedForThisBody'
    BY <1>1, <1>4 DEF IInv, SnapNotAhead, SnapAgrees, HasAdapter, LiveFollowsLedger,
                      DelayedForThisBody
  <1> QED BY <1>4, <1>6, <1>7, <1>8 DEF IInv

\* The load takes what the snapshot says about the body only when no event is newer.
LEMMA LoadStep == ASSUME IInv, Load PROVE IInv'
  <1>1. /\ phase = "down" /\ ~Mismatch /\ phase' = "loaded"
        /\ adapter' = LedgerState
        /\ occupancy' = IF attachments # <<>> /\ (~snap.fields \/ Len(attachments) > snap.at)
                        THEN HolderOf(LedgerState) ELSE snap.holder
        /\ binding' = snap.binding /\ bound' = snap.bound
        /\ actuation' = snap.actuation /\ proposal' = snap.proposal
        /\ UNCHANGED <<attachments, version, location, snap, engine, unfinished>>
    BY DEF Load, durable
  <1>2. /\ Last' = Last /\ LedgerState' = LedgerState /\ Replacements' = Replacements
        /\ LedgerOK' /\ HeldByThisBody'
    BY <1>1, LedgerStays DEF IInv
  <1>3. /\ LedgerState \in [body : Nat, gen : Nat, status : {"DETACHED", "ATTACHED"}]
        /\ HolderOf(LedgerState) \in Holder
    BY LedgerStateFacts DEF IInv, StateOf, Unattached, HolderOf, Holder, Record
  <1>4. attachments # <<>> => occupancy' = HolderOf(LedgerState)
    <2>1. Len(attachments) \in Nat /\ snap.at \in Nat
      BY DEF IInv, TypeOK, LedgerOK
    <2> QED BY <1>1, <2>1 DEF Mismatch
  <1>5. TypeOK'
    BY <1>1, <1>3 DEF IInv, TypeOK
  <1>6. LedgerState.status # "NONE"
    BY <1>3
  <1>7. /\ SnapNotAhead' /\ SnapAgrees' /\ HasAdapter' /\ LiveFollowsLedger'
        /\ DelayedForThisBody'
    BY <1>1, <1>2, <1>4, <1>6 DEF IInv, SnapNotAhead, SnapAgrees, HasAdapter,
                                  LiveFollowsLedger, DelayedForThisBody
  <1> QED BY <1>2, <1>5, <1>7 DEF IInv

LEMMA CrashStep == ASSUME IInv, Crash PROVE IInv'
  <1>1. /\ phase' = "down" /\ adapter' = NoAdapter /\ occupancy' = Nobody /\ binding' = 0
        /\ bound' = 0 /\ engine' = FALSE
        /\ actuation' = NoDelayed /\ proposal' = FALSE /\ unfinished' = FALSE
        /\ UNCHANGED <<attachments, version, location, snap>>
    BY DEF Crash, durable
  <1>2. /\ LedgerState' = LedgerState /\ Replacements' = Replacements
        /\ LedgerOK' /\ HeldByThisBody'
    BY <1>1, LedgerStays DEF IInv
  <1>3. TypeOK'
    <2>1. NoDelayed \in Pending
      BY AttachmentAssumption DEF NoDelayed, Pending
    <2> QED BY <1>1, <2>1 DEF IInv, TypeOK, Holder, NoAdapter, Nobody
  <1>4. /\ SnapNotAhead' /\ SnapAgrees' /\ HasAdapter' /\ LiveFollowsLedger'
        /\ DelayedForThisBody'
    BY <1>1, <1>2 DEF IInv, SnapNotAhead, SnapAgrees, HasAdapter, LiveFollowsLedger,
                      DelayedForThisBody
  <1> QED BY <1>2, <1>3, <1>4 DEF IInv

LEMMA ReadyStep == ASSUME IInv, Ready PROVE IInv'
  <1>1. /\ phase = "loaded" /\ attachments # <<>> /\ phase' = "up"
        /\ UNCHANGED <<attachments, version, location, snap, adapter, occupancy, binding,
                       bound, engine, actuation, proposal, unfinished>>
    BY DEF Ready, durable
  <1>2. /\ LedgerState' = LedgerState /\ Replacements' = Replacements
        /\ LedgerOK' /\ HeldByThisBody'
    BY <1>1, LedgerStays DEF IInv
  <1>3. TypeOK'
    BY <1>1 DEF IInv, TypeOK
  <1>4. /\ SnapNotAhead' /\ SnapAgrees' /\ HasAdapter' /\ LiveFollowsLedger'
        /\ DelayedForThisBody'
    BY <1>1, <1>2 DEF IInv, SnapNotAhead, SnapAgrees, HasAdapter, LiveFollowsLedger,
                      DelayedForThisBody
  <1> QED BY <1>2, <1>3, <1>4 DEF IInv

-----------------------------------------------------------------------------
(* The invariant *)

\* The ledgers a session can start from.
LEMMA StoresSound ==
    ASSUME NEW store \in Stores, attachments = store.log
    PROVE  /\ LedgerOK
           /\ Replacements = 0
           /\ store.fields \in BOOLEAN /\ store.holder \in Holder
           /\ (attachments # <<>> /\ store.fields) => store.holder = HolderOf(LedgerState)
  <1>1. /\ First("d008") \in Record /\ First("d009") \in Record /\ Second \in Record
        /\ First("d008").kind = "attached" /\ First("d009").kind = "attached"
        /\ Second.kind = "detached"
        /\ First("d008").body = 1 /\ First("d009").body = 1 /\ Second.body = 1
        /\ First("d008").gen = 1 /\ First("d009").gen = 1 /\ Second.gen = 2
    BY DEF First, Second, Record, Kinds, Profiles
  <1>2. \/ attachments = <<>>
        \/ attachments = <<First("d009")>>
        \/ attachments = <<First("d008")>>
        \/ attachments = <<First("d008"), Second>>
    BY DEF Stores
  <1> HIDE DEF First, Second
  <1>3. attachments \in Seq(Record)
    <2>1. <<>> \in Seq(Record)
      OBVIOUS
    <2>2. <<First("d008")>> \in Seq(Record) /\ <<First("d009")>> \in Seq(Record)
      BY <1>1
    <2>3. <<First("d008"), Second>> \in Seq(Record)
      BY <1>1
    <2> QED BY <1>2, <2>1, <2>2, <2>3
  <1>4. /\ Len(attachments) \in {0, 1, 2}
        /\ \A i \in 1..Len(attachments) :
              /\ attachments[i].body = 1 /\ attachments[i].gen = i
              /\ attachments[i].kind = IF i = 1 THEN "attached" ELSE "detached"
    <2>1. CASE attachments = <<>>
      BY <2>1
    <2>2. CASE attachments = <<First("d009")>> \/ attachments = <<First("d008")>>
      <3>1. Len(attachments) = 1 /\ attachments[1] \in {First("d008"), First("d009")}
        BY <2>2
      <3> QED BY <1>1, <3>1
    <2>3. CASE attachments = <<First("d008"), Second>>
      <3>1. Len(attachments) = 2 /\ attachments[1] = First("d008") /\ attachments[2] = Second
        BY <2>3
      <3> QED BY <1>1, <3>1
    <2> QED BY <1>2, <2>1, <2>2, <2>3
  <1>5. LedgerOK
    BY <1>3, <1>4 DEF LedgerOK, AttachmentHistory, BodiesNamed
  <1>6. Replacements = 0
    <2>1. Replaced = {}
      BY <1>4 DEF Replaced
    <2> QED BY <2>1, FS_EmptySet DEF Replacements
  <1>7. store.fields \in BOOLEAN /\ store.holder \in Holder
    <2>1. \E fields \in BOOLEAN : \E holder \in {Nobody, [body |-> 1, gen |-> 1]} : \E log :
              store = [log |-> log, fields |-> fields, holder |-> holder]
      BY Zenon DEF Stores
    <2>2. Nobody \in Holder /\ [body |-> 1, gen |-> 1] \in Holder
      BY DEF Holder, Nobody
    <2>3. PICK fields \in BOOLEAN, holder \in {Nobody, [body |-> 1, gen |-> 1]} :
              store.fields = fields /\ store.holder = holder
      BY <2>1
    <2> QED BY <2>2, <2>3
  <1>8. (attachments # <<>> /\ store.fields) => store.holder = HolderOf(LedgerState)
    <2> SUFFICES ASSUME attachments # <<>>, store.fields
                 PROVE  store.holder = HolderOf(LedgerState)
      OBVIOUS
    <2>1. store.log = <<First("d009")>> /\ store.holder = [body |-> 1, gen |-> 1]
      BY DEF Stores
    <2>2. Last = First("d009")
      BY <2>1 DEF Last
    <2> QED BY <1>1, <2>1, <2>2 DEF LedgerState, HolderOf
  <1> QED BY <1>5, <1>6, <1>7, <1>8

LEMMA Initially == Init => IInv
  <1> SUFFICES ASSUME Init PROVE IInv
    OBVIOUS
  <1>1. PICK store \in Stores, pending \in {NoDelayed, [left |-> Delay, epoch |-> 0]},
             action \in BOOLEAN :
          /\ attachments = store.log
          /\ snap = [Snapshot(Len(store.log), store.holder, 0, 0, pending,
                              pending # NoDelayed, action)
                     EXCEPT !.fields = store.fields]
    BY DEF Init
  <1>2. PICK held \in SUBSET Objects :
          /\ held # {} => LedgerState.status = "ATTACHED"
          /\ location = [o \in Objects |-> IF o \in held THEN HolderOf(LedgerState) ELSE Nobody]
    BY DEF Init
  <1>3. version = 1 /\ Down
    BY DEF Init
  <1>4. /\ LedgerOK
        /\ Replacements = 0
        /\ store.fields \in BOOLEAN /\ store.holder \in Holder
        /\ (attachments # <<>> /\ store.fields) => store.holder = HolderOf(LedgerState)
    BY <1>1, StoresSound
  <1>5. /\ snap.at = Len(attachments) /\ snap.fields = store.fields
        /\ snap.holder = store.holder /\ snap.binding = 0 /\ snap.bound = 0
        /\ snap.actuation = pending /\ snap.proposal = (pending # NoDelayed)
        /\ snap.unfinished = action
        /\ snap = [at |-> Len(attachments), fields |-> store.fields, holder |-> store.holder,
                   binding |-> 0, bound |-> 0, actuation |-> pending,
                   proposal |-> (pending # NoDelayed), unfinished |-> action]
    BY <1>1 DEF Snapshot
  <1>6. NoDelayed \in Pending /\ pending \in Pending
    BY AttachmentAssumption DEF Pending, NoDelayed
  <1>7. location \in [Objects -> Holder]
    <2>1. held # {} => HolderOf(LedgerState) \in Holder
      BY <1>4, LedgerStateFacts DEF HolderOf, Holder, StateOf, Unattached, Record
    <2>2. Nobody \in Holder
      BY DEF Nobody, Holder
    <2> QED BY <1>2, <2>1, <2>2
  <1>8. TypeOK
    <2>1. attachments \in Seq(Record) /\ Len(attachments) \in Nat
      BY <1>4 DEF LedgerOK
    <2>2. snap \in [at : Nat, fields : BOOLEAN, holder : Holder, binding : Nat, bound : Nat,
                    actuation : Pending, proposal : BOOLEAN, unfinished : BOOLEAN]
      <3> HIDE DEF Pending, Holder
      <3> QED BY <1>4, <1>5, <1>6, <2>1
    <2> QED BY <1>3, <1>6, <1>7, <2>1, <2>2
            DEF TypeOK, Down, NoAdapter, Nobody, Holder
  <1>9. HeldByThisBody
    <2> SUFFICES ASSUME NEW o \in Objects, location[o] # Nobody
                 PROVE  /\ attachments # <<>> /\ location[o].body = Last.body
                        /\ location[o].gen <= Last.gen
      BY DEF HeldByThisBody
    <2>1. location[o] = HolderOf(LedgerState) /\ LedgerState.status = "ATTACHED"
      BY <1>2
    <2>2. attachments # <<>>
      BY <1>4, <2>1, LedgerStateFacts DEF Unattached
    <2> QED BY <1>4, <2>1, <2>2, LedgerStateFacts DEF StateOf, HolderOf
  <1>10. SnapNotAhead /\ SnapAgrees
    BY <1>4, <1>5 DEF SnapNotAhead, SnapAgrees, LedgerOK
  <1>11. HasAdapter /\ LiveFollowsLedger
    BY <1>3, <1>4, <1>5 DEF HasAdapter, LiveFollowsLedger, Down
  <1>12. DelayedForThisBody
    <2>1. pending # NoDelayed => pending.epoch = 0
      BY DEF NoDelayed
    <2> QED BY <1>3, <1>4, <1>5, <2>1 DEF DelayedForThisBody, Down
  <1> QED BY <1>4, <1>8, <1>9, <1>10, <1>11, <1>12 DEF IInv

LEMMA Inductive == IInv /\ [Next]_vars => IInv'
  <1> SUFFICES ASSUME IInv, [Next]_vars PROVE IInv'
    OBVIOUS
  <1>1. CASE Load \/ Crash \/ Ready
    BY <1>1, LoadStep, CrashStep, ReadyStep
  <1>2. CASE MigrateD008 \/ Attach
    <2>1. PICK profile \in Profiles :
              /\ phase # "down" /\ AttachAs(profile)
              /\ UNCHANGED <<version, location, snap, phase, binding, bound, engine,
                             actuation, proposal, unfinished>>
      BY <1>2 DEF MigrateD008, Attach, Profiles
    <2> QED BY <2>1, AttachStep
  <1>3. CASE MigrateD009 \/ Detach \/ SwapProfile
    BY <1>3, MigrateD009Step, DetachStep, SwapStep
  <1>4. CASE ReplaceBody \/ ReplaceBodyAndCrash
    BY <1>4, ReplaceBodyStep, ReplaceBodyAndCrashStep
  <1>5. CASE \E o \in Objects : PickUp(o) \/ PutDown(o)
    BY <1>5, ManipulationStep
  <1>6. CASE \E moves, due \in BOOLEAN : Tick(moves, due)
    BY <1>6, TickStep
  <1>7. CASE TickFailsFinishing \/ TickFailsActing \/ Save \/ AttachEngine
    BY <1>7, TickFailsFinishingStep, TickFailsActingStep, SaveStep, AttachEngineStep
  <1>8. CASE UNCHANGED vars
    <2>1. UNCHANGED <<attachments, version, location, snap, phase, adapter, occupancy,
                      binding, bound, engine, actuation, proposal, unfinished>>
      BY <1>8 DEF vars, durable, volatile
    <2>2. /\ LedgerState' = LedgerState /\ Replacements' = Replacements
          /\ LedgerOK' /\ HeldByThisBody'
      BY <2>1, LedgerStays DEF IInv
    <2>3. TypeOK'
      BY <2>1 DEF IInv, TypeOK
    <2> QED BY <2>1, <2>2, <2>3 DEF IInv, SnapNotAhead, SnapAgrees, HasAdapter,
                                    LiveFollowsLedger, DelayedForThisBody
  <1> QED BY <1>1, <1>2, <1>3, <1>4, <1>5, <1>6, <1>7, <1>8 DEF Next

LEMMA Invariance == Spec => []IInv
  BY Initially, Inductive, PTL DEF Spec

-----------------------------------------------------------------------------
(* Theorems *)

\* Every variable has its type, and a delayed motion waits no longer than Delay.
THEOREM TypeCorrect == Spec => []TypeOK
  BY Invariance, PTL DEF IInv

\* The next load is never refused for an occupancy that contradicts the ledger,
\* whenever the process stopped.
THEOREM RestartNeverRefused == Spec => []RestartAccepted
  <1>1. IInv => RestartAccepted
    <2> SUFFICES ASSUME IInv, Mismatch PROVE FALSE
      BY DEF RestartAccepted
    <2>1. snap.at \in Nat /\ Len(attachments) \in Nat /\ snap.at <= Len(attachments)
      BY DEF IInv, TypeOK, LedgerOK, SnapNotAhead
    <2> QED BY <2>1 DEF IInv, SnapAgrees, Mismatch
  <1> QED BY <1>1, Invariance, PTL

\* The attachment events tell one history across crashes, restarts and migrations.
THEOREM HistoryKept == Spec => []AttachmentHistory
  <1>1. IInv => AttachmentHistory
    BY DEF IInv, LedgerOK
  <1> QED BY <1>1, Invariance, PTL

\* A replaced body holds nothing: what is held is held by the body of today.
THEOREM NothingLeftBehind == Spec => []HeldByThisBody
  BY Invariance, PTL DEF IInv

\* A delayed motion is executed by the body it was issued for, with its proposal.
THEOREM MotionKeepsBody == Spec => []DelayedForThisBody
  BY Invariance, PTL DEF IInv

\* Adapter, occupancy and body binding agree with the ledger in every session.
THEOREM LiveIsLedger == Spec => []LiveFollowsLedger
  BY Invariance, PTL DEF IInv

-----------------------------------------------------------------------------
(* What the embodiment promises *)

Holders == [o \in Objects |-> location[o].body]
Moves   == actuation # NoDelayed
Saved   == snap.actuation # NoDelayed

\* Where no attachment event and no habitat event is written, body and holders stay.
LEMMA BodyStays ==
    ASSUME UNCHANGED <<attachments, location>>
    PROVE  LedgerState' = LedgerState /\ Holders' = Holders
  BY DEF LedgerState, Last, Unattached, Holders

\* A live organism is attached to what the ledger says, before and after a step.
LEMMA LiveBoth ==
    ASSUME IInv, IInv', phase # "down", phase' = phase
    PROVE  /\ adapter = LedgerState /\ adapter' = LedgerState'
           /\ LedgerState.gen = Len(attachments) /\ LedgerState.gen \in Nat
  <1>1. adapter = LedgerState /\ adapter' = LedgerState' /\ LedgerOK
    BY DEF IInv, HasAdapter, LiveFollowsLedger
  <1> QED BY <1>1, LedgerStateFacts

LEMMA AttachImplements ==
    ASSUME IInv, IInv', phase # "down", NEW profile, AttachAs(profile),
           UNCHANGED <<location, snap, phase, actuation>>
    PROVE  Embodied!Attach
  <1>1. /\ adapter.status = "DETACHED"
        /\ adapter'.body = IF adapter.body = 0 THEN NewId ELSE adapter.body
        /\ adapter'.gen = adapter.gen + 1 /\ adapter'.status = "ATTACHED"
    BY DEF AttachAs, Commit
  <1>2. NewId = adapter.gen + 1
    BY LiveBoth DEF NewId
  <1> QED BY <1>1, <1>2, LiveBoth DEF Embodied!Attach

LEMMA DetachImplements ==
    ASSUME IInv, IInv', Detach
    PROVE  Embodied!Detach
  <1>1. /\ phase = "up" /\ phase' = phase /\ adapter.status = "ATTACHED"
        /\ adapter'.body = adapter.body /\ adapter'.gen = adapter.gen + 1
        /\ adapter'.status = "DETACHED"
        /\ UNCHANGED <<location, snap, actuation>>
    BY DEF Detach, Commit
  <1> QED BY <1>1, LiveBoth DEF Embodied!Detach

\* In a migration what is held stays with the body, in its next generation.
LEMMA SwapImplements ==
    ASSUME IInv, IInv', SwapProfile \/ MigrateD009
    PROVE  Embodied!Swap
  <1>1. /\ phase # "down" /\ phase' = phase /\ adapter.status = "ATTACHED"
        /\ adapter'.body = adapter.body /\ adapter'.gen = adapter.gen + 1
        /\ adapter'.status = "ATTACHED"
        /\ UNCHANGED <<snap, actuation>>
    BY DEF SwapProfile, MigrateD009, Commit
  <1>2. \A o \in Objects : location'[o].body = location[o].body
    BY DEF SwapProfile, MigrateD009, HeldBy
  <1>3. Holders' = Holders
    BY <1>2 DEF Holders
  <1> QED BY <1>1, <1>3, LiveBoth DEF Embodied!Swap, Holders

LEMMA ReplaceImplements ==
    ASSUME IInv, ReplaceBody \/ ReplaceBodyAndCrash
    PROVE  Embodied!Replace
  <1>1. /\ phase = "up" /\ ReplacementAllowed
        /\ attachments' = Append(attachments, NewBody) /\ snap' = NewSnap
        /\ actuation' \in {actuation, NoDelayed}
        /\ UNCHANGED <<version, location>>
    BY DEF ReplaceBody, ReplaceBodyAndCrash, Commit, NewBody, NewSnap
  <1>2. /\ LedgerState' = [body |-> NewId, gen |-> adapter.gen + 1, status |-> "ATTACHED"]
        /\ snap'.actuation = NoDelayed
    BY <1>1, ReplacementCommitted
  <1>3. /\ \A o \in Objects : location[o] = Nobody
        /\ actuation = NoDelayed /\ adapter.gen = Len(attachments)
    BY <1>1, ReplacementFreesAll
  <1>4. adapter = LedgerState /\ adapter.status = "ATTACHED"
    BY <1>1 DEF IInv, HasAdapter, LiveFollowsLedger, ReplacementAllowed
  <1>5. Holders' = Holders /\ \A o \in Objects : Holders[o] = 0
    BY <1>1, <1>3 DEF Holders, Nobody
  <1>6. /\ LedgerState'.body = LedgerState.gen + 1 /\ LedgerState'.gen = LedgerState.gen + 1
        /\ LedgerState'.status = "ATTACHED" /\ LedgerState.status = "ATTACHED"
    BY <1>2, <1>3, <1>4 DEF NewId
  <1> QED BY <1>1, <1>2, <1>3, <1>5, <1>6 DEF Embodied!Replace, Holders

LEMMA ManipulationImplements ==
    ASSUME IInv, NEW o \in Objects, PickUp(o) \/ PutDown(o)
    PROVE  Embodied!PickUp(o) \/ Embodied!PutDown(o)
  <1>1. /\ adapter = LedgerState /\ adapter.status = "ATTACHED"
        /\ UNCHANGED <<attachments, snap, actuation>>
        /\ location \in [Objects -> Holder]
    BY DEF IInv, TypeOK, HasAdapter, LiveFollowsLedger, PickUp, PutDown, CanManipulate, volatile
  <1>2. LedgerState' = LedgerState
    BY <1>1 DEF LedgerState, Last, Unattached
  <1>3. CASE PickUp(o)
    <2>1. location[o] = Nobody /\ location' = [location EXCEPT ![o] = HolderOf(adapter)]
      BY <1>3 DEF PickUp
    <2>2. /\ location[o].body = 0
          /\ \A p \in Objects : location'[p].body = IF p = o THEN LedgerState.body
                                                   ELSE location[p].body
      BY <1>1, <2>1 DEF HolderOf, Nobody
    <2>3. Holders[o] = 0 /\ Holders' = [Holders EXCEPT ![o] = LedgerState.body]
      BY <2>2 DEF Holders
    <2> QED BY <1>1, <1>2, <2>3 DEF Embodied!PickUp, Holders
  <1>4. CASE PutDown(o)
    <2>1. /\ location[o].body = LedgerState.body
          /\ location' = [location EXCEPT ![o] = Nobody]
      BY <1>1, <1>4 DEF PutDown, HeldBy
    <2>2. Holders[o] = LedgerState.body /\ Holders' = [Holders EXCEPT ![o] = 0]
      BY <1>1, <2>1 DEF Holders, Nobody
    <2> QED BY <1>1, <1>2, <2>2 DEF Embodied!PutDown, Holders
  <1> QED BY <1>3, <1>4

\* Only an attached body is given a motion, and a snapshot has none but that one.
LEMMA TickImplements ==
    ASSUME IInv, NEW moves \in BOOLEAN, NEW due \in BOOLEAN, Tick(moves, due)
    PROVE  Embodied!Move
  <1>1. /\ actuation' = Queued(moves, Elapsed)
        /\ snap'.actuation = actuation' \/ snap' = snap
        /\ UNCHANGED <<attachments, location>> /\ phase = "up"
    BY DEF Tick, TickReady, SnapshotNow, Snapshot
  <1>2. adapter = LedgerState /\ adapter.status \in {"ATTACHED", "DETACHED"}
    BY <1>1 DEF IInv, TypeOK, HasAdapter, LiveFollowsLedger
  <1>3. Moves' /\ ~Moves => LedgerState.status = "ATTACHED"
    BY <1>1, <1>2 DEF Moves, Queued, Elapsed, NoDelayed
  <1>4. Saved' => Saved \/ Moves'
    BY <1>1 DEF Saved, Moves
  <1>5. LedgerState' = LedgerState /\ Holders' = Holders
    BY <1>1, BodyStays
  <1> QED BY <1>3, <1>4, <1>5 DEF Embodied!Move, Moves, Saved, Holders

LEMMA StepImplements ==
    ASSUME IInv, IInv', [Next]_vars
    PROVE  [Embodied!BodyNext]_Embodied!bodyVars
  <1>1. ASSUME UNCHANGED <<attachments, location, snap, actuation>>
        PROVE  UNCHANGED Embodied!bodyVars
    BY <1>1, BodyStays DEF Embodied!bodyVars, Holders
  <1>2. CASE Crash
    <2>1. actuation' = NoDelayed /\ UNCHANGED <<attachments, location, snap>>
      BY <1>2 DEF Crash, durable
    <2>2. Embodied!Stop
      BY <2>1, BodyStays DEF Embodied!Stop, Holders
    <2> QED BY <2>2 DEF Embodied!BodyNext
  <1>3. CASE Load
    <2>1. actuation' = snap.actuation /\ UNCHANGED <<attachments, location, snap>>
      BY <1>3 DEF Load, durable
    <2>2. Embodied!Resume
      BY <2>1, BodyStays DEF Embodied!Resume, Holders
    <2> QED BY <2>2 DEF Embodied!BodyNext
  <1>4. CASE MigrateD008 \/ Attach
    <2>1. PICK profile : AttachAs(profile)
      BY <1>4 DEF MigrateD008, Attach
    <2>2. phase # "down" /\ UNCHANGED <<location, snap, phase, actuation>>
      BY <1>4 DEF MigrateD008, Attach
    <2>3. Embodied!Attach
      BY <2>1, <2>2, AttachImplements
    <2> QED BY <2>3 DEF Embodied!BodyNext
  <1>5. CASE Detach
    BY <1>5, DetachImplements DEF Embodied!BodyNext
  <1>6. CASE SwapProfile \/ MigrateD009
    BY <1>6, SwapImplements DEF Embodied!BodyNext
  <1>7. CASE ReplaceBody \/ ReplaceBodyAndCrash
    BY <1>7, ReplaceImplements DEF Embodied!BodyNext
  <1>8. ASSUME NEW o \in Objects, PickUp(o) \/ PutDown(o) PROVE Embodied!BodyNext
    BY <1>8, ManipulationImplements DEF Embodied!BodyNext
  <1>9. ASSUME NEW moves \in BOOLEAN, NEW due \in BOOLEAN, Tick(moves, due)
        PROVE  Embodied!BodyNext
    BY <1>9, TickImplements DEF Embodied!BodyNext
  <1>10. CASE TickFailsFinishing \/ TickFailsActing \/ Save
    <2>1. /\ UNCHANGED <<attachments, location>>
          /\ actuation' \in {NoDelayed, Elapsed, actuation}
          /\ snap' = snap \/ snap'.actuation = actuation'
      <3>1. CASE TickFailsFinishing \/ TickFailsActing
        BY <3>1 DEF TickFailsFinishing, TickFailsActing, durable
      <3>2. CASE Save
        <4>1. /\ snap' = SnapshotNow(actuation, proposal, unfinished)
              /\ UNCHANGED <<attachments, location>> /\ actuation' = actuation
          BY <3>2 DEF Save, volatile
        <4> QED BY <4>1 DEF SnapshotNow, Snapshot
      <3> QED BY <1>10, <3>1, <3>2
    <2>2. Elapsed # NoDelayed => actuation # NoDelayed
      BY DEF Elapsed, NoDelayed
    <2>3. (Moves' => Moves) /\ (Saved' => Saved \/ Moves')
      BY <2>1, <2>2 DEF Moves, Saved
    <2>4. Embodied!Move
      BY <2>1, <2>3, BodyStays DEF Embodied!Move, Moves, Saved, Holders
    <2> QED BY <2>4 DEF Embodied!BodyNext
  <1>11. CASE Ready \/ AttachEngine \/ UNCHANGED vars
    BY <1>1, <1>11 DEF Ready, AttachEngine, durable, volatile, vars
  <1> QED BY <1>2, <1>3, <1>4, <1>5, <1>6, <1>7, <1>8, <1>9, <1>10, <1>11 DEF Next

LEMMA InitImplements == Init => Embodied!BodyInit
  <1> SUFFICES ASSUME Init PROVE Embodied!BodyInit
    OBVIOUS
  <1>1. LedgerOK /\ actuation = NoDelayed /\ HeldByThisBody /\ location \in [Objects -> Holder]
    BY Initially DEF IInv, TypeOK, Init, Down
  <1>2. \/ LedgerState.body = 0 /\ LedgerState.gen = 0 /\ LedgerState.status # "ATTACHED"
        \/ LedgerState.gen \in Nat /\ LedgerState.body \in 1..LedgerState.gen
    BY <1>1, LedgerStateFacts DEF Unattached, StateOf
  <1>3. ASSUME NEW o \in Objects PROVE Holders[o] \in {0, LedgerState.body}
    <2>1. CASE location[o] = Nobody
      BY <2>1 DEF Holders, Nobody
    <2>2. CASE location[o] # Nobody
      <3>1. attachments # <<>> /\ location[o].body = Last.body
        BY <1>1, <2>2 DEF HeldByThisBody
      <3> QED BY <3>1 DEF Holders, LedgerState
    <2> QED BY <2>1, <2>2
  <1> QED BY <1>1, <1>2, <1>3 DEF Embodied!BodyInit, Holders

\* The embodiment keeps the promise of Bodies: one body at a time, whose successor
\* inherits neither what it held nor a motion under way (embodiment_adapters/adapter.py,
\* embodiment.py; runtime.py, load_organism and replace_physical_body).
THEOREM OneBodyAtATime == Spec => ImplementsBodies
  <1>1. IInv /\ IInv' /\ [Next]_vars => [Embodied!BodyNext]_Embodied!bodyVars
    BY StepImplements
  <1> QED BY <1>1, InitImplements, Invariance, PTL DEF Spec, ImplementsBodies,
          Embodied!BodySpec
=============================================================================
