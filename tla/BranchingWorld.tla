---------------------------- MODULE BranchingWorld -----------------------------
(***************************************************************************)
(* What the execution journal promises to every caller of                  *)
(* commit_manipulation and to the engine an organism acts with, without    *)
(* saying how: an execution takes effect at most once and a verdict is for *)
(* ever; an engine shows committed states only; and as long as it lives,   *)
(* executions take effect one after the other, each on the state the last  *)
(* one left.  Only with the loss of the engine may the world branch: the   *)
(* next engine may take up any state that was committed.                   *)
(***************************************************************************)
EXTENDS Naturals, Sequences

CONSTANTS Executions, EffectOf

VARIABLES
    verdict,  \* "open", "success" or "failure" by execution
    worlds,   \* the habitat states committed so far: the effects that led there
    seen,     \* the one the organism's engine shows: the first without an engine
    tip       \* the one the engine's life has come to

worldVars == <<verdict, worlds, seen, tip>>

Prefix(s, t) == Len(s) <= Len(t) /\ \A i \in 1..Len(s) : s[i] = t[i]

WorldInit ==
    /\ verdict = [e \in Executions |-> "open"]
    /\ worlds = {<<>>}
    /\ seen = <<>> /\ tip = <<>>

\* An execution takes effect, on an engine that shows what its life has come to.
Take(e) ==
    /\ verdict[e] = "open" /\ seen = tip
    /\ verdict' = [verdict EXCEPT ![e] = "success"]
    /\ tip' = Append(tip, EffectOf[e])
    /\ worlds' = worlds \cup {tip'}
    /\ UNCHANGED seen

Refuse(e) ==
    /\ verdict[e] = "open"
    /\ verdict' = [verdict EXCEPT ![e] = "failure"]
    /\ UNCHANGED <<worlds, seen, tip>>

\* The engine shows what was committed, first of all by itself; nothing it showed
\* is taken back.
CatchUp ==
    /\ seen' \in worlds /\ Prefix(seen, seen')
    /\ seen # tip => seen' = tip
    /\ tip' = seen'
    /\ UNCHANGED <<verdict, worlds>>

LoseEngine ==
    /\ seen' = <<>> /\ tip' = <<>>
    /\ UNCHANGED <<verdict, worlds>>

WorldNext == CatchUp \/ LoseEngine \/ \E e \in Executions : Take(e) \/ Refuse(e)

WorldSpec == WorldInit /\ [][WorldNext]_worldVars
=============================================================================
