------------------------------- MODULE Bodies --------------------------------
(***************************************************************************)
(* What the embodiment promises, without ledger, snapshots or adapter: an  *)
(* organism has one body at a time, which it may leave and take up again,  *)
(* and a new one inherits nothing.  What is held is held by the body the   *)
(* organism has, and a motion that is under way is one of that body: a     *)
(* body is only replaced when it holds nothing and no motion is under way, *)
(* and no restart brings back a motion of the old one.                     *)
(***************************************************************************)
EXTENDS Naturals

CONSTANT Objects

VARIABLES
    body,        \* named after the generation it came with, 0 for none yet
    generation,  \* how often something was attached, detached, swapped or replaced
    attached,
    holder,      \* object |-> the body that holds it, or 0
    motion,      \* whether an ordered motion is still to come
    saved        \* whether a restart brings one back

bodyVars == <<body, generation, attached, holder, motion, saved>>

BodyInit ==
    /\ \/ body = 0 /\ generation = 0 /\ ~attached
       \/ generation \in Nat /\ body \in 1..generation
    /\ \A o \in Objects : holder[o] \in {0, body}
    /\ ~motion

Attach ==
    /\ ~attached /\ attached'
    /\ generation' = generation + 1
    /\ body' = IF body = 0 THEN generation + 1 ELSE body
    /\ UNCHANGED <<holder, motion, saved>>

Detach ==
    /\ attached /\ ~attached'
    /\ generation' = generation + 1
    /\ UNCHANGED <<body, holder, motion, saved>>

\* The same body, in another form.
Swap ==
    /\ attached
    /\ generation' = generation + 1
    /\ UNCHANGED <<body, attached, holder, motion, saved>>

Replace ==
    /\ attached /\ ~motion /\ \A o \in Objects : holder[o] = 0
    /\ generation' = generation + 1 /\ body' = generation + 1
    /\ ~motion' /\ ~saved'
    /\ UNCHANGED <<attached, holder>>

PickUp(o) ==
    /\ attached /\ holder[o] = 0
    /\ holder' = [holder EXCEPT ![o] = body]
    /\ UNCHANGED <<body, generation, attached, motion, saved>>

PutDown(o) ==
    /\ attached /\ holder[o] = body
    /\ holder' = [holder EXCEPT ![o] = 0]
    /\ UNCHANGED <<body, generation, attached, motion, saved>>

\* A motion ends, is ordered, which takes an attached body, or is saved.
Move ==
    /\ motion' /\ ~motion => attached
    /\ saved' => saved \/ motion'
    /\ UNCHANGED <<body, generation, attached, holder>>

\* The process stops, and a new one takes up what was saved.
Stop ==
    /\ ~motion'
    /\ UNCHANGED <<body, generation, attached, holder, saved>>

Resume ==
    /\ motion' <=> saved
    /\ UNCHANGED <<body, generation, attached, holder, saved>>

BodyNext ==
    \/ Attach \/ Detach \/ Swap \/ Replace
    \/ \E o \in Objects : PickUp(o) \/ PutDown(o)
    \/ Move \/ Stop \/ Resume

BodySpec == BodyInit /\ [][BodyNext]_bodyVars
=============================================================================
