-------------------------------- MODULE Waits --------------------------------
(***************************************************************************)
(* What governance and the wait journal promise about waiting, without     *)
(* expectations, plans or the list of suppressions: a wait begins within   *)
(* the window it is for, unless its key is barred by an ended one, ends    *)
(* once, is observed within its window only and expires when it is due.    *)
(* A wait has at least a key, a window, a deadline, a status and, once it  *)
(* has ended, a mark: its place among all that was recorded to bar a key.  *)
(***************************************************************************)
EXTENDS Integers, Sequences, FiniteSets

CONSTANTS
    Patience,   \* how long a wait may last
    Suppress,   \* how long after its deadline an ended wait bars its key
    Remembered      \* how many of the latest records count

VARIABLES
    now,
    waits,      \* all waits of this process, in the order they began
    records     \* how often something was recorded to bar a key

waitVars == <<now, waits, records>>

Open(i) == waits[i].status = "ACTIVE"

Barred(key) ==
    \E i \in DOMAIN waits :
        /\ waits[i].key = key /\ ~Open(i)
        /\ records - waits[i].mark < Remembered
        /\ now < waits[i].deadline + Suppress

WaitInit == now = 0 /\ waits = <<>> /\ records = 0

Begin ==
    /\ Len(waits') = Len(waits) + 1
    /\ LET new == waits'[Len(waits')]
       IN  /\ waits' = Append(waits, new)
           /\ new.status = "ACTIVE" /\ ~Barred(new.key)
           /\ new.window.from <= now /\ now <= new.deadline
           /\ new.deadline <= new.window.until /\ new.deadline <= now + Patience
    /\ UNCHANGED <<now, records>>

\* A refusal bars the key for a while, too.
Refuse ==
    /\ records' = records + 1
    /\ UNCHANGED <<now, waits>>

\* The waits of S, all open, end, and each leaves a record.
End(S, status) ==
    /\ records' = records + Cardinality(S)
    /\ DOMAIN waits' = DOMAIN waits
    /\ \A i \in DOMAIN waits \ S : waits'[i] = waits[i]
    /\ \A i \in S : /\ Open(i)
                    /\ \E n \in (records + 1)..records' :
                           waits'[i] = [waits[i] EXCEPT !.status = status, !.mark = n]

Observe(i) ==
    /\ waits[i].window.from <= now /\ now <= waits[i].window.until
    /\ End({i}, "OBSERVED")
    /\ UNCHANGED now

Interrupt(i) == End({i}, "INTERRUPTED") /\ UNCHANGED now

\* Time passes, in a tick or in a downtime, and waits that are due by then may expire.
Pass ==
    /\ now' >= now
    /\ \E S \in SUBSET {i \in DOMAIN waits : waits[i].deadline <= now'} : End(S, "EXPIRED")

\* A new process has no waits, and may be behind.
Forget ==
    /\ now' \in 0..now
    /\ waits' = <<>> /\ records' = 0

WaitNext ==
    \/ Begin \/ Refuse \/ Pass \/ Forget
    \/ \E i \in DOMAIN waits : Observe(i) \/ Interrupt(i)

WaitSpec == WaitInit /\ [][WaitNext]_waitVars
=============================================================================
