------------------------------ MODULE Attachment ------------------------------
(***************************************************************************)
(* The body an organism is attached to: attach, detach and swap of the     *)
(* adapter, the atomic replacement of the body, the two migrations of      *)
(* older stores, delayed actuation, the objects the body holds, and what   *)
(* a restart makes of all this from the ledger and a snapshot that may     *)
(* lag behind it.                                                          *)
(*                                                                         *)
(* Bodies are numbered by the attachment event that introduced them; body  *)
(* 0 is the one nothing has named yet: None in the adapter, body:default   *)
(* in the occupancy.  The ledger is reduced to its attachment events and   *)
(* to the version of the habitat its habitat events lead to.               *)
(***************************************************************************)
EXTENDS Naturals, FiniteSets, Sequences

CONSTANTS
    Objects,     \* portable objects of the habitat
    Delay,       \* Body.actuator_delay in ticks, 0 for none
    MaxRecords,  \* bound on attachment events
    MaxVersion   \* bound on changes of the habitat

ASSUME AttachmentAssumption ==
    /\ IsFiniteSet(Objects)
    /\ Delay \in Nat /\ MaxRecords \in Nat /\ MaxVersion \in Nat

VARIABLES
    \* durable
    attachments,  \* the embodiment_body_* events, in ledger order
    version,      \* habitat version after the ledger's habitat events
    location,     \* object -> its holder, body 0 for FREE
    snap,         \* the restart snapshot
    \* volatile
    phase,        \* "down", "loaded" (before the migrations) or "up"
    adapter,      \* EmbodimentAdapter.state, status "NONE" without an adapter
    occupancy,    \* body and generation the embodiment was bound to
    binding,      \* replacements the self model's body binding stands for
    bound,        \* habitat version of the authority binding, 0 for no binding
    engine,       \* whether a habitat engine is attached
    actuation,    \* Embodiment._pending_actuation and _delay_remaining
    proposal,     \* whether _delayed_proposal is set
    unfinished    \* whether _pending_action is set

durable  == <<attachments, version, location, snap>>
volatile == <<phase, adapter, occupancy, binding, bound, engine, actuation,
              proposal, unfinished>>
vars     == <<durable, volatile>>

Holder     == [body : Nat, gen : Nat]
Nobody     == [body |-> 0, gen |-> 0]
Kinds      == {"attached", "detached", "swapped", "replaced"}
Profiles   == {"d008", "d009", "none"}
Record     == [kind : Kinds, body : Nat, gen : Nat, profile : Profiles]
NoDelayed  == [left |-> 0, epoch |-> 0]
Unattached == [body |-> 0, gen |-> 0, status |-> "DETACHED"]
NoAdapter  == [body |-> 0, gen |-> 0, status |-> "NONE"]

Last  == attachments[Len(attachments)]
NewId == Len(attachments) + 1

Replaced     == {i \in 1..Len(attachments) : attachments[i].kind = "replaced"}
Replacements == Cardinality(Replaced)

\* attachment_state_from_event of the newest attachment event.
LedgerState ==
    IF attachments = <<>> THEN Unattached
    ELSE [body |-> Last.body, gen |-> Last.gen,
          status |-> IF Last.kind = "detached" THEN "DETACHED" ELSE "ATTACHED"]

HolderOf(state) == [body |-> state.body, gen |-> state.gen]
HeldBy(body)    == {o \in Objects : body # 0 /\ location[o].body = body}

\* tick_once and every save refuse an organism that is bound to a habitat
\* engine and has none.
AuthorityReady == bound = 0 \/ engine

-----------------------------------------------------------------------------
(* Stores *)

\* authoritative_state, as far as it concerns the body.
Snapshot(at, holder, bind, boundTo, pending, proposed, action) ==
    [at |-> at, fields |-> TRUE, holder |-> holder, binding |-> bind, bound |-> boundTo,
     actuation |-> pending, proposal |-> proposed, unfinished |-> action]

SnapshotNow(pending, proposed, action) ==
    Snapshot(Len(attachments), occupancy, binding,
             IF engine THEN version ELSE bound, pending, proposed, action)

First(profile) == [kind |-> "attached", body |-> 1, gen |-> 1, profile |-> profile]
Second         == [kind |-> "detached", body |-> 1, gen |-> 2, profile |-> "none"]

\* Stores a session can start from: one just created with the adapter, one
\* from before the adapter, whose snapshots may be so old that they lack the
\* occupancy, and one whose body still has the older profile.
Stores ==
    {[log |-> <<First("d009")>>, fields |-> TRUE, holder |-> [body |-> 1, gen |-> 1]],
     [log |-> <<>>, fields |-> TRUE, holder |-> Nobody],
     [log |-> <<>>, fields |-> FALSE, holder |-> Nobody],
     [log |-> <<First("d008")>>, fields |-> FALSE, holder |-> Nobody],
     [log |-> <<First("d008"), Second>>, fields |-> FALSE, holder |-> Nobody]}

Down ==
    /\ phase = "down" /\ adapter = NoAdapter /\ occupancy = Nobody /\ binding = 0
    /\ bound = 0 /\ engine = FALSE
    /\ actuation = NoDelayed /\ proposal = FALSE /\ unfinished = FALSE

Init ==
    /\ \E store \in Stores, pending \in {NoDelayed, [left |-> Delay, epoch |-> 0]},
          action \in BOOLEAN :
        /\ attachments = store.log
        /\ snap = [Snapshot(Len(store.log), store.holder, 0, 0, pending,
                            pending # NoDelayed, action)
                   EXCEPT !.fields = store.fields]
    /\ version = 1
    /\ \E held \in SUBSET Objects :
        /\ Cardinality(held) <= 1
        /\ held # {} => LedgerState.status = "ATTACHED" /\ Last.profile = "d008"
        /\ location = [o \in Objects |-> IF o \in held THEN HolderOf(LedgerState) ELSE Nobody]
    /\ Down

-----------------------------------------------------------------------------
(* Restarts *)

Mismatch ==
    /\ attachments # <<>>
    /\ snap.fields
    /\ Len(attachments) <= snap.at
    /\ snap.holder # HolderOf(LedgerState)

\* Mutant: an attachment event newer than the snapshot is not looked for.
LoadFromSnapshot ==
    /\ phase = "down" /\ ~Mismatch
    /\ phase' = "loaded"
    /\ adapter' = LedgerState
    /\ occupancy' = IF attachments # <<>> /\ ~snap.fields
                    THEN HolderOf(LedgerState) ELSE snap.holder
    /\ binding' = snap.binding
    /\ bound' = snap.bound
    /\ actuation' = snap.actuation /\ proposal' = snap.proposal
    /\ UNCHANGED <<durable, engine, unfinished>>

\* load_organism with the adapter: the ledger decides what is attached.  The
\* occupancy of the snapshot is taken over when no event is newer.
Load ==
    /\ phase = "down" /\ ~Mismatch
    /\ phase' = "loaded"
    /\ adapter' = LedgerState
    /\ occupancy' = IF attachments # <<>> /\ (~snap.fields \/ Len(attachments) > snap.at)
                    THEN HolderOf(LedgerState) ELSE snap.holder
    /\ binding' = snap.binding
    /\ bound' = snap.bound
    /\ actuation' = snap.actuation /\ proposal' = snap.proposal
    /\ UNCHANGED <<durable, engine, unfinished>>

\* load_organism with embodiment_adapter_enabled = False.
LoadWithoutAdapter ==
    /\ phase = "down"
    /\ phase' = "up"
    /\ occupancy' = snap.holder
    /\ binding' = snap.binding
    /\ bound' = snap.bound
    /\ actuation' = snap.actuation /\ proposal' = snap.proposal
    /\ UNCHANGED <<durable, adapter, engine, unfinished>>

\* A crash, or a close: nothing is saved on the way down.
Crash ==
    /\ phase # "down"
    /\ phase' = "down" /\ adapter' = NoAdapter /\ occupancy' = Nobody /\ binding' = 0
    /\ bound' = 0 /\ engine' = FALSE
    /\ actuation' = NoDelayed /\ proposal' = FALSE /\ unfinished' = FALSE
    /\ UNCHANGED durable

-----------------------------------------------------------------------------
(* Attaching, detaching, swapping, migrating *)

Room == Len(attachments) < MaxRecords

\* Mutant: the adapter has no state_observer, the embodiment is not told.
CommitUnobserved(kind, body, gen, profile) ==
    /\ Room
    /\ attachments' = Append(attachments, [kind |-> kind, body |-> body, gen |-> gen,
                                          profile |-> profile])
    /\ adapter' = [body |-> body, gen |-> gen,
                   status |-> IF kind = "detached" THEN "DETACHED" ELSE "ATTACHED"]
    /\ occupancy' = occupancy

\* append_event of an attachment event, then _apply_state, which the
\* embodiment observes.
Commit(kind, body, gen, profile) ==
    /\ Room
    /\ attachments' = Append(attachments, [kind |-> kind, body |-> body, gen |-> gen,
                                          profile |-> profile])
    /\ adapter' = [body |-> body, gen |-> gen,
                   status |-> IF kind = "detached" THEN "DETACHED" ELSE "ATTACHED"]
    /\ occupancy' = [body |-> body, gen |-> gen]

\* Mutant: every attach makes a body of its own.
AttachAsNew(profile) ==
    /\ adapter.status = "DETACHED"
    /\ Commit("attached", NewId, adapter.gen + 1, profile)

AttachAs(profile) ==
    /\ adapter.status = "DETACHED"
    /\ Commit("attached", IF adapter.body = 0 THEN NewId ELSE adapter.body,
              adapter.gen + 1, profile)

\* maybe_migrate_d008_attachment: once, for a store without attachment events.
MigrateD008 ==
    /\ phase = "loaded"
    /\ attachments = <<>>
    /\ AttachAs("d008")
    /\ UNCHANGED <<version, location, snap, phase, binding, bound, engine, actuation,
                   proposal, unfinished>>

\* maybe_migrate_d009_profile: the swap and the rebased bindings of the held
\* objects are one transaction.
MigrateD009 ==
    /\ phase = "loaded"
    /\ adapter.status = "ATTACHED" /\ Last.profile = "d008"
    /\ Commit("swapped", adapter.body, adapter.gen + 1, "d009")
    /\ location' = [o \in Objects |-> IF o \in HeldBy(adapter.body)
                                      THEN [body |-> adapter.body, gen |-> adapter.gen + 1]
                                      ELSE location[o]]
    /\ version' = version + Cardinality(HeldBy(adapter.body))
    /\ UNCHANGED <<snap, phase, binding, bound, engine, actuation, proposal, unfinished>>

\* The rest of load_organism: both migrations had nothing left to do.
Ready ==
    /\ phase = "loaded"
    /\ attachments # <<>>
    /\ adapter.status = "ATTACHED" => Last.profile = "d009"
    /\ phase' = "up"
    /\ UNCHANGED <<durable, adapter, occupancy, binding, bound, engine, actuation,
                   proposal, unfinished>>

Attach ==
    /\ phase = "up"
    /\ AttachAs("d009")
    /\ UNCHANGED <<version, location, snap, phase, binding, bound, engine, actuation,
                   proposal, unfinished>>

\* detach releases nothing and looks at no pending actuation.
Detach ==
    /\ phase = "up"
    /\ adapter.status = "ATTACHED"
    /\ Commit("detached", adapter.body, adapter.gen + 1, "none")
    /\ UNCHANGED <<version, location, snap, phase, binding, bound, engine, actuation,
                   proposal, unfinished>>

\* swap_profile, with any profile of today: the held objects keep the
\* generation they were picked up with.
SwapProfile ==
    /\ phase = "up"
    /\ adapter.status = "ATTACHED"
    /\ Commit("swapped", adapter.body, adapter.gen + 1, "d009")
    /\ UNCHANGED <<version, location, snap, phase, binding, bound, engine, actuation,
                   proposal, unfinished>>

\* Mutant: a pending actuation and its proposal are not asked for.
QuiescentWhilePending == ~unfinished /\ AuthorityReady

\* The guards of replace_physical_body.
Quiescent ==
    /\ ~unfinished /\ ~proposal /\ actuation = NoDelayed
    /\ AuthorityReady

\* Mutant: what the old body holds is not looked at.
ReplacementWhileHolding ==
    /\ adapter.status = "ATTACHED"
    /\ Quiescent
    /\ attachments # <<>> /\ adapter = LedgerState
    /\ occupancy = HolderOf(adapter)

ReplacementAllowed ==
    /\ adapter.status = "ATTACHED"
    /\ Quiescent
    /\ attachments # <<>> /\ adapter = LedgerState
    /\ occupancy = HolderOf(adapter)
    /\ HeldBy(adapter.body) = {}

\* replace_physical_body: event and snapshot of the prospective state in one
\* transaction, then the live state.
ReplaceBody ==
    /\ phase = "up"
    /\ ReplacementAllowed
    /\ Commit("replaced", NewId, adapter.gen + 1, "d009")
    /\ binding' = binding + 1
    /\ snap' = Snapshot(Len(attachments) + 1, [body |-> NewId, gen |-> adapter.gen + 1],
                        binding + 1, IF engine THEN version ELSE bound,
                        actuation, proposal, unfinished)
    /\ UNCHANGED <<version, location, phase, bound, engine, actuation, proposal, unfinished>>

\* A crash of replace_physical_body after its COMMIT: nothing live has moved.
ReplaceBodyAndCrash ==
    /\ phase = "up"
    /\ ReplacementAllowed
    /\ Room
    /\ attachments' = Append(attachments, [kind |-> "replaced", body |-> NewId,
                                          gen |-> adapter.gen + 1, profile |-> "d009"])
    /\ snap' = Snapshot(Len(attachments) + 1, [body |-> NewId, gen |-> adapter.gen + 1],
                        binding + 1, IF engine THEN version ELSE bound,
                        actuation, proposal, unfinished)
    /\ phase' = "down" /\ adapter' = NoAdapter /\ occupancy' = Nobody /\ binding' = 0
    /\ bound' = 0 /\ engine' = FALSE
    /\ actuation' = NoDelayed /\ proposal' = FALSE /\ unfinished' = FALSE
    /\ UNCHANGED <<version, location>>

-----------------------------------------------------------------------------
(* The habitat engine and the objects *)

\* attach_habitat_engine, with an engine restored from the ledger.
AttachEngine ==
    /\ phase = "up" /\ ~engine
    /\ bound \in {0, version}
    /\ engine' = TRUE /\ bound' = version
    /\ UNCHANGED <<durable, phase, adapter, occupancy, binding, actuation, proposal, unfinished>>

CanManipulate ==
    /\ phase = "up" /\ engine
    /\ adapter.status = "ATTACHED"
    /\ version < MaxVersion

\* A committed PICK_UP: the object must be free.
PickUp(o) ==
    /\ CanManipulate
    /\ location[o] = Nobody
    /\ location' = [location EXCEPT ![o] = HolderOf(adapter)]
    /\ version' = version + 1
    /\ UNCHANGED <<attachments, snap, volatile>>

\* A committed PLACE: the object must be held by the body, of whatever
\* generation.
PutDown(o) ==
    /\ CanManipulate
    /\ o \in HeldBy(adapter.body)
    /\ location' = [location EXCEPT ![o] = Nobody]
    /\ version' = version + 1
    /\ UNCHANGED <<attachments, snap, volatile>>

-----------------------------------------------------------------------------
(* Ticks *)

TickReady == phase = "up" /\ AuthorityReady

Completes == actuation.left = 1

\* tick_actuation: the delayed motion is applied when its delay has elapsed,
\* whatever is attached by then.
Elapsed ==
    IF actuation.left <= 1 THEN NoDelayed ELSE [actuation EXCEPT !.left = @ - 1]

\* execute_primitive queues a motion unless one is pending already: then the
\* new one is applied at once.  A detached adapter executes nothing.
Queued(moves, pending) ==
    IF moves /\ Delay > 0 /\ adapter.status # "DETACHED" /\ pending = NoDelayed
    THEN [left |-> Delay, epoch |-> Replacements] ELSE pending

\* tick_once: a delayed outcome is finished, and so is the action of this tick
\* unless it was delayed; a snapshot may be due.
Tick(moves, due) ==
    /\ TickReady
    /\ LET settled == IF Completes THEN FALSE ELSE proposal
           next    == Queued(moves, Elapsed)
           delayed == next # Elapsed
       IN /\ actuation' = next
          /\ proposal' = (settled \/ delayed)
          /\ unfinished' = IF moves \/ (Completes /\ proposal) THEN FALSE ELSE unfinished
          /\ snap' = IF due THEN SnapshotNow(actuation', proposal', unfinished') ELSE snap
    /\ UNCHANGED <<attachments, version, location, phase, adapter, occupancy, binding,
                   bound, engine>>

\* A tick whose delayed outcome could not be recorded: the motion has been
\* applied, its proposal stays.
TickFailsFinishing ==
    /\ TickReady
    /\ Completes /\ proposal
    /\ actuation' = NoDelayed
    /\ unfinished' = FALSE
    /\ UNCHANGED <<durable, phase, adapter, occupancy, binding, bound, engine, proposal>>

\* A tick whose manipulation raised: its action stays pending.
TickFailsActing ==
    /\ TickReady /\ engine
    /\ actuation' = Elapsed
    /\ proposal' = IF Completes THEN FALSE ELSE proposal
    /\ unfinished' = TRUE
    /\ UNCHANGED <<durable, phase, adapter, occupancy, binding, bound, engine>>

\* snapshot_if_due(force=True), by a caller between two ticks.
Save ==
    /\ phase = "up" /\ AuthorityReady
    /\ snap' = SnapshotNow(actuation, proposal, unfinished)
    /\ UNCHANGED <<attachments, version, location, volatile>>

-----------------------------------------------------------------------------

Next ==
    \/ Load \/ Crash
    \/ MigrateD008 \/ MigrateD009 \/ Ready
    \/ Attach \/ Detach \/ SwapProfile \/ ReplaceBody \/ ReplaceBodyAndCrash
    \/ AttachEngine
    \/ \E o \in Objects : PickUp(o) \/ PutDown(o)
    \/ \E moves, due \in BOOLEAN : Tick(moves, due)
    \/ TickFailsFinishing \/ TickFailsActing \/ Save

Spec == Init /\ [][Next]_vars

\* The adapter is an option of the session: embodiment_adapter_enabled.
SpecOptional == Init /\ [][Next \/ LoadWithoutAdapter]_vars

-----------------------------------------------------------------------------
(* Properties *)

Pending == [left : 0..Delay, epoch : Nat]

\* Type invariant: a delayed motion waits no longer than Delay.
TypeOK ==
    /\ attachments \in Seq(Record)
    /\ version \in Nat
    /\ location \in [Objects -> Holder]
    /\ snap \in [at : Nat, fields : BOOLEAN, holder : Holder, binding : Nat, bound : Nat,
                 actuation : Pending, proposal : BOOLEAN, unfinished : BOOLEAN]
    /\ phase \in {"down", "loaded", "up"}
    /\ adapter \in [body : Nat, gen : Nat, status : {"NONE", "DETACHED", "ATTACHED"}]
    /\ occupancy \in Holder
    /\ binding \in Nat /\ bound \in Nat
    /\ engine \in BOOLEAN
    /\ actuation \in Pending
    /\ proposal \in BOOLEAN /\ unfinished \in BOOLEAN

\* However a session ended, and whichever snapshot survives it, the next
\* load_organism does not fail with snapshot_attachment_occupancy_mismatch:
\* the snapshot's occupancy is behind the newest attachment event or equal to
\* it.
RestartAccepted == phase = "down" => ~Mismatch

\* The attachment events tell one history, across crashes, restarts and
\* migrations: generations count them, a body is kept until it is replaced,
\* only a detached body is attached and only an attached one detached.
AttachmentHistory ==
    /\ \A i \in 1..Len(attachments) : attachments[i].gen = i
    /\ \A i \in 1..Len(attachments) :
        attachments[i].body = IF attachments[i].kind = "replaced" THEN i
                              ELSE IF i = 1 THEN 1 ELSE attachments[i - 1].body
    /\ \A i \in 2..Len(attachments) :
        (attachments[i].kind = "attached") <=> (attachments[i - 1].kind = "detached")

\* A body that is replaced leaves nothing behind that is held by it: whatever
\* is held, by ledger and snapshot, is held by the body of the newest
\* attachment event, and was picked up in a generation of that body.
HeldByThisBody ==
    \A o \in Objects : location[o] # Nobody =>
        /\ attachments # <<>>
        /\ location[o].body = Last.body
        /\ location[o].gen <= Last.gen

\* A delayed motion never outlives the body it was issued for, in memory or
\* through a snapshot, and never loses the proposal its outcome is verified
\* against, whichever tick failed on the way.
DelayedForThisBody ==
    LET Sound(pending, proposed) ==
            pending # NoDelayed => proposed /\ pending.epoch = Replacements
    IN /\ Sound(snap.actuation, snap.proposal)
       /\ phase # "down" => Sound(actuation, proposal)

\* D-009 design: hold_slot_count = 1, and PICK_UP takes slot 0 only.  So a body
\* holds at most one object.
OneObjectPerSlot == phase = "up" => Cardinality(HeldBy(adapter.body)) <= 1

\* What is live after a restart, a migration or a replacement is what the
\* ledger says: adapter and occupancy agree with the newest attachment event,
\* and the self model's body binding counts the replacements, in memory and
\* in the snapshot the next session starts from.
LiveFollowsLedger ==
    /\ phase # "down" => binding = Replacements
    /\ snap.binding = Replacements
    /\ phase # "down" /\ adapter.status # "NONE" =>
        /\ adapter = LedgerState
        /\ attachments # <<>> => occupancy = HolderOf(LedgerState)

Embodied == INSTANCE Bodies WITH
    body       <- LedgerState.body,
    generation <- LedgerState.gen,
    attached   <- LedgerState.status = "ATTACHED",
    holder     <- [o \in Objects |-> location[o].body],
    motion     <- actuation # NoDelayed,
    saved      <- snap.actuation # NoDelayed

\* Through crashes, restarts from older snapshots, migrations and ticks that fail, the
\* organism has one body at a time, and what it replaces leaves nothing behind.
ImplementsBodies == Embodied!BodySpec
=============================================================================
