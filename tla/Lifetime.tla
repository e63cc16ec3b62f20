------------------------------ MODULE Lifetime ------------------------------
(***************************************************************************)
(* What temporal continuity promises about the age of an organism, without *)
(* clocks, samples, plans or replay: it grows by one in a tick it lives    *)
(* through, which is all that makes it active; a downtime adds a bounded   *)
(* number of ticks, and none at all between a downtime that could not be   *)
(* trusted and the next tick.  Every change of age has a moment of its     *)
(* own, and nothing but a restart, which goes back to the life last saved, *)
(* takes age away.                                                         *)
(***************************************************************************)
EXTENDS Naturals

CONSTANT Longest   \* ticks one downtime may add

VARIABLES
    age, active,
    moment,      \* the record age comes from, 0 before the first
    rested,      \* whether the next downtime may add to it
    recorded,    \* records so far, of all lives
    resumed,     \* how often a life was resumed
    saved        \* age, active, moment and rested of the life last saved

life     == <<age, active, moment, rested>>
lifetime == <<life, recorded, resumed, saved>>

LifeInit ==
    /\ age = 0 /\ active = 0 /\ moment = 0 /\ rested = FALSE
    /\ recorded = 0 /\ resumed = 0
    /\ saved = life

Record == recorded' = recorded + 1 /\ moment' = recorded'

Live ==
    /\ Record
    /\ age' = age + 1 /\ active' = active + 1
    /\ rested' = TRUE
    /\ UNCHANGED <<resumed, saved>>

CatchUp ==
    /\ Record
    /\ rested /\ age' \in age..age + Longest
    /\ UNCHANGED <<active, rested, resumed, saved>>

\* A downtime nobody can tell the length of.
LoseTrack ==
    /\ Record
    /\ rested' = FALSE
    /\ UNCHANGED <<age, active, resumed, saved>>

\* A record is made and nothing comes of it.
RecordInVain ==
    /\ recorded' = recorded + 1
    /\ UNCHANGED <<life, resumed, saved>>

Save ==
    /\ saved' = life
    /\ UNCHANGED <<life, recorded, resumed>>

Resume ==
    /\ life' = saved
    /\ resumed' = resumed + 1
    /\ UNCHANGED <<recorded, saved>>

LifeNext == Live \/ CatchUp \/ LoseTrack \/ RecordInVain \/ Save \/ Resume

LifeSpec == LifeInit /\ [][LifeNext]_lifetime
=============================================================================
