------------------------------- MODULE Route --------------------------------
(***************************************************************************)
(* The route evidence of the world model: the verified outcomes of one     *)
(* approach to an opportunity, gathered in an episode, become one route    *)
(* experience when its terminal action succeeds or a step fails.           *)
(*                                                                         *)
(* An action is bound to the entity it is for, and to the body schema,     *)
(* when it is issued; a motion of a slow body is completed ticks later,    *)
(* other actions overtaking it.  The organism's snapshot keeps the         *)
(* experiences and the motion under way; the ledger of verified outcomes   *)
(* is not rewound by a restart.                                            *)
(***************************************************************************)
EXTENDS Integers, Sequences, FiniteSets

CONSTANTS
    Kinds,          \* kinds of entities the organism perceives
    Terminals,      \* TERMINAL_BY_KIND, and the capability that ends a route
    Delays,         \* actuator_delay the body may have, in ticks
    Capacity,       \* max_route_experiences
    MaxBody,        \* bound: body schemas, numbered
    MaxTick,        \* bound: ticks of the organism's life
    MaxIssued,      \* bound: actions issued
    MaxChanges,     \* bound: ticks that change what entities are held
    MaxRestarts     \* bound: restarts of the process

Motions == {"APPROACH", "ORIENT", "MOVE"}
Unboundable == {"MOVE", "IDLE"}     \* they stand for all that is never bound
NoKind == "none"

ASSUME RouteAssumption ==
    /\ NoKind \notin Kinds /\ DOMAIN Terminals \subseteq Kinds
    /\ \A k \in DOMAIN Terminals : Terminals[k] \notin Motions \cup Unboundable
    /\ Delays \subseteq Nat /\ Capacity \in Nat \ {0} /\ MaxBody \in Nat \ {0}
    /\ MaxTick \in Nat /\ MaxIssued \in Nat /\ MaxChanges \in Nat
    /\ MaxRestarts \in Nat

VARIABLES
    tick,           \* organism age
    acting,         \* the tick has begun, its action is not chosen yet
    entity,         \* kind |-> the entity of that kind the world model holds
    body,           \* active body schema
    delay,          \* actuator_delay
    delayed,        \* motion under way, at most one
    episode,        \* RouteEvidenceStore._episode
    experiences,    \* RouteEvidenceStore.experiences, oldest first
    log,            \* the verified outcomes, as the ledger has them
    issued,         \* actions issued so far, over all sessions
    changes,        \* ticks that changed entity, over all sessions
    saved,          \* the latest snapshot
    restarts

vars == <<tick, acting, entity, body, delay, delayed, episode, experiences, log, issued,
          changes, saved, restarts>>

-----------------------------------------------------------------------------
Capabilities == Motions \cup Unboundable \cup {Terminals[k] : k \in DOMAIN Terminals}
Results == {"ok", "premature", "failed"}    \* premature: not_at_<kind>

\* An entity has at most one id per tick of its kind; id 0: none is held.  support is
\* the body schema of its support region, 0 without one.
Entity == [id : Nat, support : Nat]
Absent == [id |-> 0, support |-> 0]

Unbound == [kind |-> NoKind, id |-> 0, body |-> 0]
Binding == [kind : Kinds, id : Nat, body : Nat] \cup {Unbound}

\* "number" is not in the code: it tells the executions apart.
Action == [cap : Capabilities, bind : Binding, issue : Nat, number : Nat]
Delayed == [action : Action, left : Nat]    \* left 0: nothing under way
NoAction == [cap |-> "MOVE", bind |-> Unbound, issue |-> 0, number |-> 0]
NoDelayed == [action |-> NoAction, left |-> 0]

Outcome == [action : Action, tick : Nat, result : Results]

\* The steps are places in the log; an episode without one has not been started.
Episode == [bind : Binding, steps : Seq(Nat), start : Nat, moves : Nat]
NoEpisode == [bind |-> Unbound, steps |-> <<>>, start |-> 0, moves |-> 0]
Experience == [episode : Episode, final : Nat, success : BOOLEAN]

Snapshot == [tick : Nat, entity : [Kinds -> Entity], body : 1..MaxBody, delayed : Delayed,
             experiences : Seq(Experience)]

Started(e) == e.steps # <<>>
LastOf(s) == s[Len(s)]

\* Mutant: What is full is not rotated.
PushedAlways(ring, x) == Append(ring, x)

\* BoundedRing.append
Pushed(ring, x) ==
    IF Len(ring) < Capacity THEN Append(ring, x) ELSE Append(Tail(ring), x)

-----------------------------------------------------------------------------
(* Recording a verified outcome *)

\* bind_for_issue: exactly one entity of the kind, whose support region, if it has
\* one, is of the active body.
Bind(cap, kind) ==
    IF cap \in Unboundable \/ kind = NoKind THEN Unbound
    ELSE IF entity[kind].id = 0 \/ entity[kind].support \notin {0, body} THEN Unbound
    ELSE [kind |-> kind, id |-> entity[kind].id, body |-> body]

\* _record_control_step, after _start where no episode is active
WithStep(e, a, t, moved) ==
    LET n == Len(log) + 1
    IN  IF Started(e)
        THEN [e EXCEPT !.steps = Append(@, n), !.moves = @ + moved]
        ELSE [bind |-> a.bind, steps |-> <<n>>, start |-> t, moves |-> moved]

\* _append_closed
Close(e, t, success) ==
    /\ experiences' = Pushed(experiences, [episode |-> e, final |-> t, success |-> success])
    /\ episode' = NoEpisode

Discard == episode' = NoEpisode /\ UNCHANGED experiences

\* Mutant: A failed step does not end the route.
ControlStepKept(e, a, t, result) ==
    /\ episode' = WithStep(e, a, t, IF a.cap = "APPROACH" /\ result = "ok" THEN 1 ELSE 0)
    /\ UNCHANGED experiences

\* APPROACH and ORIENT of an episode e: a failure ends the route.
ControlStep(e, a, t, result) ==
    IF result = "ok"
    THEN /\ episode' = WithStep(e, a, t, IF a.cap = "APPROACH" THEN 1 ELSE 0)
         /\ UNCHANGED experiences
    ELSE Close(WithStep(e, a, t, 0), t, FALSE)

\* The terminal action of the opportunity: too early, it is a step of the route, but
\* no route starts with a failure of it.
TerminalStep(e, a, t, result) ==
    CASE result = "ok" -> Close(WithStep(e, a, t, 0), t, TRUE)
      [] ~Started(e) /\ result # "ok" -> Discard
      [] Started(e) /\ result = "premature" ->
             episode' = WithStep(e, a, t, 0) /\ UNCHANGED experiences
      [] OTHER -> Close(WithStep(e, a, t, 0), t, FALSE)

\* Mutant: The episode of another entity is gone on with.
AnyEpisode(a) == episode

\* The episode the outcome of a belongs to: that of another entity is discarded.
SameEpisode(a) == IF episode.bind.id = a.bind.id /\ episode.bind.kind = a.bind.kind
                  THEN episode ELSE NoEpisode

\* record_verified_outcome of an outcome bound to an opportunity that has a terminal
RecordBound(a, t, result) ==
    IF Started(episode) /\ episode.bind.body # a.bind.body THEN Discard
    ELSE CASE a.cap \in {"APPROACH", "ORIENT"} -> ControlStep(SameEpisode(a), a, t, result)
           [] a.cap = Terminals[a.bind.kind] -> TerminalStep(SameEpisode(a), a, t, result)
           [] OTHER -> Discard

\* Mutant: An action without a binding does not interrupt a route.
RecordEvidenceOnlyBound(a, t, result) ==
    IF a.bind.kind \in DOMAIN Terminals THEN RecordBound(a, t, result)
    ELSE UNCHANGED <<episode, experiences>>

\* record_verified_outcome: what has no binding ends the episode; what is bound to a
\* kind without a terminal is ignored.
RecordEvidence(a, t, result) ==
    CASE a.bind = Unbound -> Discard
      [] a.bind.kind \in DOMAIN Terminals -> RecordBound(a, t, result)
      [] OTHER -> UNCHANGED <<episode, experiences>>

\* _finish_outcome: the outcome is in the ledger, the self model may supersede the body
\* schema over it, then the world model learns from it.
FinishOutcome(a, t, result) ==
    /\ log' = Append(log, [action |-> a, tick |-> t, result |-> result])
    /\ body' \in {body} \cup {b \in 1..MaxBody : b = body + 1}
    /\ RecordEvidence(a, t, result)

\* What may come of a capability: only what is bound can tell.
ResultsOf(a) ==
    IF a.bind.kind \notin DOMAIN Terminals THEN {"ok"}
    ELSE IF a.cap \in Motions THEN {"ok", "failed"} ELSE Results

-----------------------------------------------------------------------------
(* One tick *)

\* ingest: the world model meets an entity or sees it again, with a support region of the
\* active body or none, and forgets what it has not seen.
Ingest(t) ==
    \/ UNCHANGED <<entity, changes>>
    \/ /\ changes < MaxChanges /\ changes' = changes + 1
       /\ \E seen, lost \in SUBSET Kinds, support \in {0, body} :
           /\ seen \cap lost = {}
           /\ entity' = [k \in Kinds |->
                  IF k \in seen
                  THEN [id |-> IF entity[k].id = 0 THEN t ELSE entity[k].id,
                        support |-> support]
                  ELSE IF k \in lost THEN Absent ELSE entity[k]]

\* Mutant: What is complete stays under way.
CompletedAgain == [delayed EXCEPT !.left = 1]

\* tick_actuation: what is complete is no longer under way.
Completed == NoDelayed

BeginTick ==
    /\ ~acting /\ tick < MaxTick
    /\ tick' = tick + 1 /\ acting' = TRUE
    /\ Ingest(tick + 1)
    /\ IF delayed.left = 1
       THEN /\ delayed' = Completed
            /\ \E result \in ResultsOf(delayed.action) :
                   FinishOutcome(delayed.action, tick + 1, result)
       ELSE /\ delayed' = [delayed EXCEPT !.left = IF @ = 0 THEN 0 ELSE @ - 1]
            /\ UNCHANGED <<body, episode, experiences, log>>
    /\ UNCHANGED <<delay, issued, saved, restarts>>

\* What arbitration may propose: to orient toward anything it perceives, to approach
\* what a route may end at and to use it.
Proposal ==
    (Unboundable \X {NoKind}) \cup ({"ORIENT"} \X Kinds)
        \cup (({"APPROACH"} \cup {Terminals[k] : k \in DOMAIN Terminals}) \X DOMAIN Terminals)

Issued(p) == [cap |-> p[1], bind |-> Bind(p[1], p[2]), issue |-> tick, number |-> issued + 1]

\* An admitted action is bound.  A motion of a slow body gets under way, unless one is:
\* then it is executed at once, like everything else.
ActDelayed(p) ==
    /\ p[1] \in Motions /\ delay > 0 /\ delayed.left = 0
    /\ delayed' = [action |-> Issued(p), left |-> delay]
    /\ UNCHANGED <<body, episode, experiences, log>>

ActNow(p) ==
    /\ p[1] \notin Motions \/ delay = 0 \/ delayed.left > 0
    /\ \E result \in ResultsOf(Issued(p)) : FinishOutcome(Issued(p), tick, result)
    /\ UNCHANGED delayed

Act ==
    /\ acting /\ issued < MaxIssued
    /\ acting' = FALSE /\ issued' = issued + 1
    /\ \E p \in Proposal : ActDelayed(p) \/ ActNow(p)
    /\ UNCHANGED <<tick, entity, delay, changes, saved, restarts>>

\* Governance denies the proposal: no outcome, and the episode is left as it is.
Denied ==
    /\ acting /\ acting' = FALSE
    /\ UNCHANGED <<tick, entity, body, delay, delayed, episode, experiences, log, issued,
                   changes, saved, restarts>>

-----------------------------------------------------------------------------
(* Snapshots and restarts *)

\* A snapshot nothing will be loaded from is left out.
Save ==
    /\ ~acting /\ restarts < MaxRestarts
    /\ saved' = [tick |-> tick, entity |-> entity, body |-> body, delayed |-> delayed,
                 experiences |-> experiences]
    /\ UNCHANGED <<tick, acting, entity, body, delay, delayed, episode, experiences, log,
                   issued, changes, restarts>>

\* Mutant: Ages are of the session, not of the organism.
TickOfSession == 0

\* The age a reload resumes at.
ResumedTick == saved.tick

\* load: everything is as the snapshot has it, the episode is not in it.
Restart ==
    /\ restarts < MaxRestarts /\ restarts' = restarts + 1
    /\ tick' = ResumedTick /\ entity' = saved.entity /\ body' = saved.body
    /\ delayed' = saved.delayed /\ experiences' = saved.experiences
    /\ episode' = NoEpisode /\ acting' = FALSE
    /\ UNCHANGED <<delay, log, issued, changes, saved>>

Init ==
    /\ tick = 0 /\ acting = FALSE
    /\ entity = [k \in Kinds |-> Absent]
    /\ body = 1 /\ delay \in Delays /\ delayed = NoDelayed
    /\ episode = NoEpisode /\ experiences = <<>> /\ log = <<>> /\ issued = 0 /\ changes = 0
    /\ saved = [tick |-> 0, entity |-> entity, body |-> 1, delayed |-> NoDelayed,
                experiences |-> <<>>]
    /\ restarts = 0

Next == BeginTick \/ Act \/ Denied \/ Save \/ Restart

Spec == Init /\ [][Next]_vars

-----------------------------------------------------------------------------
(* Properties *)

TypeOK ==
    /\ tick \in Nat /\ acting \in BOOLEAN
    /\ entity \in [Kinds -> Entity]
    /\ body \in 1..MaxBody /\ delay \in Nat /\ delayed \in Delayed
    /\ episode \in Episode
    /\ experiences \in Seq(Experience) /\ Len(experiences) <= Capacity
    /\ log \in Seq(Outcome) /\ issued \in Nat /\ changes \in Nat
    /\ saved \in Snapshot /\ Len(saved.experiences) <= Capacity
    /\ restarts \in Nat

\* The routes that are evidence or may become it.
Routes == {experiences[i].episode : i \in DOMAIN experiences}
              \cup {e \in {episode} : Started(e)}

Within(n, r) == r.steps[1] <= n /\ n <= LastOf(r.steps)
StepOf(n, r) == \E i \in DOMAIN r.steps : r.steps[i] = n

\* What is bound to a kind without a terminal is passed over.
PassedOver(n) == log[n].action.bind.kind \in Kinds \ DOMAIN Terminals

Whole(r) == \A n \in DOMAIN log : Within(n, r) => StepOf(n, r) \/ PassedOver(n)

\* A route is unbroken: every outcome the ledger has between its first and its last
\* step is one of its steps, whatever was under way, denied or overtaken, and across
\* restarts; only actions toward a kind that has no terminal are passed over.
Unbroken == \A r \in Routes : Whole(r)

\* No execution is evidence twice: a motion that is completed again after a restart,
\* its first outcome still in the ledger, is a step of at most one route, and once.
OneStepPerExecution ==
    LET Steps == [r : DOMAIN experiences \cup {0}, i : 1..Len(log)]
        RouteAt(k) == IF k = 0 THEN episode.steps ELSE experiences[k].episode.steps
        Used == {s \in Steps : s.i \in DOMAIN RouteAt(s.r)}
        NumberOf(s) == log[RouteAt(s.r)[s.i]].action.number
    IN  \A s, u \in Used : s # u => NumberOf(s) # NumberOf(u)

\* The steps of r that moved the body toward the opportunity.
Moves(r) == {i \in DOMAIN r.steps : /\ log[r.steps[i]].action.cap = "APPROACH"
                                   /\ log[r.steps[i]].result = "ok"}

Own(r) ==
    /\ \A i \in DOMAIN r.steps : log[r.steps[i]].action.bind = r.bind
    /\ r.moves = Cardinality(Moves(r))

\* The steps of a route are for its own entity and with its own body, as bound when they
\* were issued, and its count of movements is the number of its successful approaches.
StepsAreOwn == \A r \in Routes : Own(r)

InTime(r) ==
    /\ r.start = log[r.steps[1]].tick
    /\ \A i \in DOMAIN r.steps : log[r.steps[i]].action.issue <= log[r.steps[i]].tick
    /\ \A i \in 2..Len(r.steps) : log[r.steps[i - 1]].tick <= log[r.steps[i]].tick

\* A step ends no earlier than it was issued and no earlier than the step before it, and
\* the route starts with its first step: the constructors of steps and experiences,
\* which raise ValueError behind the commit of an outcome, never do.
StepsInTime == \A r \in Routes : InTime(r)

\* Evidence ends where it says: in success at the terminal of its kind, in failure at a
\* step that failed, and no step before it failed for good.
EndsAsItSays ==
    \A i \in DOMAIN experiences :
        LET x == experiences[i]
            r == x.episode
            last == log[LastOf(r.steps)]
        IN  /\ x.final = last.tick
            /\ x.success <=> last.result = "ok"
            /\ x.success => last.action.cap = Terminals[r.bind.kind]
            /\ \A k \in 1..(Len(r.steps) - 1) : log[r.steps[k]].result # "failed"

\* What a doc says: an action toward another opportunity ends the route as well.
InterruptionsEndRoutes ==
    \A r \in Routes : \A n \in DOMAIN log : Within(n, r) => StepOf(n, r)
=============================================================================
