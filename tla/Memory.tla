-------------------------------- MODULE Memory --------------------------------
(***************************************************************************)
(* The memory engine: episodes are encoded and corrected, consolidation    *)
(* replays them and makes beliefs of them, and forgetting moves episodes   *)
(* of little value to an archive of bounded size.                          *)
(*                                                                         *)
(* All episodes are about one action on one kind of thing; what they prove *)
(* is a proposition, an outcome under a rule.  Confidence is in            *)
(* thousandths.  The order of the beliefs' dict, and of episodes of equal  *)
(* worth, is the order of hashed ids after a reload, and is left open.     *)
(* Memory is saved and restored as a whole, so that a restart leads to an  *)
(* earlier state of this module and is no action of its own.               *)
(***************************************************************************)
EXTENDS Integers, FiniteSets, Sequences

CONSTANTS
    Rules,        \* rule_tag of an episode's context
    MaxActive,    \* max_active_episodic
    MaxArchived,  \* max_archived
    MaxBeliefs,   \* max_semantic
    MaxSteps,     \* max_consolidation_steps
    MaxEpisodes,  \* bound on episodes encoded
    MaxCycles     \* bound on consolidations

ASSUME MemoryAssumption ==
    /\ IsFiniteSet(Rules)
    /\ MaxActive \in Nat /\ MaxArchived \in Nat
    /\ MaxBeliefs \in Nat \ {0} /\ MaxSteps \in Nat \ {0}
    /\ MaxEpisodes \in Nat /\ MaxCycles \in Nat

VARIABLES
    episodes,   \* every episode encoded so far, in order: immutable
    active,     \* MemoryEngine.episodes
    archived,   \* MemoryEngine.archived
    beliefs,    \* MemoryEngine.beliefs, with status "NONE" for no belief
    replayed,   \* episodes replayed in the consolidation that is running
    running,    \* whether a consolidation is running
    cycles      \* consolidations begun

vars == <<episodes, active, archived, beliefs, replayed, running, cycles>>

Propositions == [success : BOOLEAN, rule : Rules]

\* Salience at most LOW_VALUE_SALIENCE; more than that; and what is never
\* archived: a protected episode, or one of high salience and relevance.
Values == {"low", "mid", "kept"}

\* "of" is correction_of, 0 for an original.
Episode  == [shows : Propositions, value : Values, of : Nat]
Statuses == {"NONE", "ACTIVE", "CONTESTED", "SUPERSEDED"}
Confidence == 0..1000
Belief   == [status : Statuses, support : SUBSET Nat, against : SUBSET Nat,
             confidence : Confidence]

NoBelief == [status |-> "NONE", support |-> {}, against |-> {}, confidence |-> 0]

Held(table)    == {p \in Propositions : table[p].status # "NONE"}
Standing(table) == {p \in Held(table) : table[p].status # "SUPERSEDED"}

Clamp(n) == IF n < 0 THEN 0 ELSE IF n > 1000 THEN 1000 ELSE n

Init ==
    /\ episodes = <<>> /\ active = {} /\ archived = {}
    /\ beliefs = [p \in Propositions |-> NoBelief]
    /\ replayed = {} /\ running = FALSE /\ cycles = 0

-----------------------------------------------------------------------------
(* Forgetting *)

Soft   == (MaxActive * 85) \div 100
Target == (MaxActive * 75) \div 100

Min2(a, b) == IF a <= b THEN a ELSE b

Of(list, set, value) == {i \in set : list[i].value = value}

\* Mutant: the hard bound is not enforced against episodes of some value.
LeavingLowOnly(list, set) ==
    {out \in SUBSET Of(list, set, "low") :
        Cardinality(out) = IF Cardinality(set) <= Soft THEN 0
                           ELSE Min2(Cardinality(Of(list, set, "low")), Cardinality(set) - Target)}

\* The episodes _forget_and_archive may take out of a set: those of low value
\* down to the target, then those of some value down to the hard bound.
Leaving(list, set) ==
    LET low  == Of(list, set, "low")
        mid  == Of(list, set, "mid")
        size == Cardinality(set)
        first  == IF size <= Soft THEN 0 ELSE Min2(Cardinality(low), size - Target)
        second == IF size - first <= MaxActive THEN 0
                  ELSE Min2(Cardinality(mid), size - first - MaxActive)
    IN  {out \in SUBSET (low \cup mid) :
            Cardinality(out \cap low) = first /\ Cardinality(out \cap mid) = second}

\* The archive drops its oldest episodes.
Newest(set) == {i \in set : Cardinality({k \in set : k > i}) < MaxArchived}

\* BELIEF_DECAY
Decayed(table) ==
    [p \in Propositions |->
        IF table[p].status = "ACTIVE" THEN [table[p] EXCEPT !.confidence = Clamp(@ - 4)]
        ELSE table[p]]

\* _forget_and_archive, for the episodes of list that are in set.
Forget(list, set) ==
    /\ beliefs' = Decayed(beliefs)
    /\ \E out \in Leaving(list, set) :
        /\ active' = set \ out
        /\ archived' = Newest(archived \cup out)

-----------------------------------------------------------------------------
(* Encoding *)

\* An episode is added, and the bound enforced when it has been passed.
Add(episode) ==
    LET list == Append(episodes, episode)
        set  == active \cup {Len(episodes) + 1}
    IN  /\ Len(episodes) < MaxEpisodes
        /\ episodes' = list
        /\ IF Cardinality(set) > MaxActive THEN Forget(list, set)
           ELSE active' = set /\ UNCHANGED <<archived, beliefs>>

\* consider_event, of an experience that is worth encoding.
Encode(shows, value) ==
    /\ ~running
    /\ Add([shows |-> shows, value |-> value, of |-> 0])
    /\ UNCHANGED <<replayed, running, cycles>>

\* Mutant: the original is rewritten.
CorrectInPlace(i, rule) ==
    /\ ~running
    /\ i \in active \cup archived
    /\ episodes' = [episodes EXCEPT ![i].shows.rule = rule]
    /\ UNCHANGED <<active, archived, beliefs, replayed, running, cycles>>

\* correct_episode: another episode, protected, that names the original; what
\* it reinterprets is the context.
Correct(i, rule) ==
    /\ ~running
    /\ i \in active \cup archived
    /\ Add([shows |-> [episodes[i].shows EXCEPT !.rule = rule], value |-> "kept", of |-> i])
    /\ UNCHANGED <<replayed, running, cycles>>

-----------------------------------------------------------------------------
(* Consolidation *)

\* select_replay_candidates: corrections are not replayed.
Originals == {i \in active : episodes[i].of = 0}

Consolidate ==
    /\ ~running
    /\ cycles < MaxCycles
    /\ running' = TRUE /\ replayed' = {} /\ cycles' = cycles + 1
    /\ UNCHANGED <<episodes, active, archived, beliefs>>

\* _bound_beliefs: the superseded one with least confidence goes first, then
\* the one with least confidence, which may be the newcomer.
Evicted(table) ==
    IF Cardinality(Held(table)) <= MaxBeliefs THEN {table}
    ELSE LET old  == Held(table) \ Standing(table)
             pool == IF old # {} THEN old ELSE Held(table)
         IN  {[table EXCEPT ![q] = NoBelief] :
                 q \in {r \in pool : \A s \in pool : table[r].confidence <= table[s].confidence}}

\* The first episode for a proposition.
Seeded(i, p) ==
    Evicted([beliefs EXCEPT ![p] = [status |-> "ACTIVE", support |-> {i}, against |-> {},
                                    confidence |-> 250]])

\* Any other belief of the family is one the episode contradicts: what stands
\* behind "|success=" is compared together with the rule.
Siblings(p) == Held(beliefs) \ {p}

Backed(b, i, c, s) ==
    [status |-> s, support |-> b.support \cup {i}, against |-> b.against, confidence |-> c]
Opposed(b, i, c, s) ==
    [status |-> s, support |-> b.support, against |-> b.against \cup {i}, confidence |-> c]

\* The episode strengthens its own belief, weakens the other, and may
\* supersede it.
Contradicted(i, p, q) ==
    LET mine  == Clamp(beliefs[p].confidence + 80)
        other == Clamp(beliefs[q].confidence - 200)
        wins  == mine > other + 250
    IN  [beliefs EXCEPT
            ![p] = Backed(@, i, mine, IF wins THEN "ACTIVE" ELSE "CONTESTED"),
            ![q] = Opposed(@, i, other, IF wins THEN "SUPERSEDED" ELSE "CONTESTED")]

\* SEMANTIC_MIN_INDEPENDENT is 2: with the episode that seeded the belief a
\* confirmation makes two.
Confirmed(i, p) ==
    LET n == Cardinality(beliefs[p].support) + 1
    IN  [beliefs EXCEPT ![p] = Backed(@, i, Clamp(350 + 120 * n), beliefs[p].status)]

\* Mutant: an episode that already supports the belief counts again.
BelievedAgain(i) ==
    LET p == episodes[i].shows
    IN  CASE p \notin Held(beliefs) -> Seeded(i, p)
          [] p \in Held(beliefs) /\ Siblings(p) # {} -> {Contradicted(i, p, q) : q \in Siblings(p)}
          [] OTHER -> {Confirmed(i, p)}

\* _update_belief_from_episode
Believed(i) ==
    LET p == episodes[i].shows
    IN  CASE p \notin Held(beliefs) -> Seeded(i, p)
          [] p \in Held(beliefs) /\ i \in beliefs[p].support -> {beliefs}
          [] p \in Held(beliefs) /\ i \notin beliefs[p].support /\ Siblings(p) # {} ->
                {Contradicted(i, p, q) : q \in Siblings(p)}
          [] OTHER -> {Confirmed(i, p)}

Replay(i) ==
    /\ running
    /\ i \in Originals \ replayed
    /\ Cardinality(replayed) < MaxSteps
    /\ \E table \in Believed(i) : beliefs' = table
    /\ replayed' = replayed \cup {i}
    /\ UNCHANGED <<episodes, active, archived, running, cycles>>

\* Nothing is left to replay, or all steps are taken: the cycle ends with
\* forgetting.
EndConsolidation ==
    /\ running
    /\ Originals \subseteq replayed \/ Cardinality(replayed) = MaxSteps
    /\ Forget(episodes, active)
    /\ running' = FALSE /\ replayed' = {}
    /\ UNCHANGED <<episodes, cycles>>

-----------------------------------------------------------------------------

Next ==
    \/ \E shows \in Propositions, value \in Values : Encode(shows, value)
    \/ \E i \in active \cup archived, rule \in Rules : Correct(i, rule)
    \/ Consolidate
    \/ \E i \in active : Replay(i)
    \/ EndConsolidation

Spec == Init /\ [][Next]_vars

-----------------------------------------------------------------------------
(* Properties *)

\* Type invariant, with the caps: episodes exceed theirs only when all of
\* them are kept, the archive holds none that is kept and stays within its
\* cap, and so do the beliefs.
TypeOK ==
    /\ episodes \in Seq(Episode)
    /\ active \subseteq 1..Len(episodes) /\ archived \subseteq 1..Len(episodes)
    /\ active \cap archived = {}
    /\ beliefs \in [Propositions -> Belief]
    /\ replayed \subseteq active /\ running \in BOOLEAN /\ cycles \in Nat
    /\ Cardinality(active) > MaxActive =>
          \A i \in active : episodes[i].value = "kept"
    /\ Cardinality(archived) <= MaxArchived
    /\ \A i \in archived : episodes[i].value # "kept"
    /\ Cardinality(Held(beliefs)) <= MaxBeliefs

\* A belief is no stronger than the episodes it rests on make it, however
\* often they are replayed and in whatever order it is contested: "duplicate
\* episode_id references still do not double-count".
ConfidenceEarned ==
    \A p \in Held(beliefs) :
        LET n == Cardinality(beliefs[p].support)
        IN  /\ n > 0
            /\ beliefs[p].confidence <= IF n = 1 THEN 250 ELSE 350 + 120 * n

\* A belief rests on originals that show it and is contradicted by originals
\* that do not, whatever has been corrected, archived or dropped since:
\* "Episodes are immutable lived evidence", and a correction is none.
BeliefsMatchEvidence ==
    \A p \in Held(beliefs) :
        /\ \A i \in beliefs[p].support : episodes[i].shows = p /\ episodes[i].of = 0
        /\ \A i \in beliefs[p].against : episodes[i].shows # p /\ episodes[i].of = 0

\* Beliefs supersede one another, in turns even, and are evicted, but as long
\* as anything is believed something is believed that has not been superseded.
SomethingStands == Held(beliefs) # {} => Standing(beliefs) # {}

\* What a comment says, and the code does not do: an episode contradicts a
\* belief by the opposite outcome under the same rule.
ContradictedByOpposite ==
    \A p \in Held(beliefs) : \A i \in beliefs[p].against :
        episodes[i].shows = [success |-> ~p.success, rule |-> p.rule]

\* What a document says, and the code does not do: the episodes a belief
\* rests on are in memory, active or archived.
ProvenanceKept ==
    \A p \in Held(beliefs) : beliefs[p].support \subseteq active \cup archived
=============================================================================
