------------------------------ MODULE EventLog ------------------------------
(***************************************************************************)
(* What the store promises to every owner of the organism, without saying  *)
(* how: one append-only log of event identities.  A prefix of it may be    *)
(* forgotten, but only up to a point from which the organism can resume.   *)
(***************************************************************************)
EXTENDS Naturals, Sequences

VARIABLES
    log,      \* every event identity ever committed, in commit order
    base,     \* the length of the prefix that has been forgotten
    resume    \* how much of the log the restart snapshot accounts for

logVars == <<log, base, resume>>

LogInit ==
    /\ log = <<>>
    /\ base = 0
    /\ resume = 0

\* One more event; the transaction that appends it may also move the restart
\* point to the new end of the log.
Extend ==
    /\ Len(log') = Len(log) + 1
    /\ \A i \in 1..Len(log) : log'[i] = log[i] /\ log[i] # log'[Len(log')]
    /\ resume' \in {resume, Len(log')}
    /\ UNCHANGED base

\* The restart point moves to the end of the log.
Anchor ==
    /\ resume' = Len(log)
    /\ UNCHANGED <<log, base>>

\* A prefix is forgotten only when the restart point covers all of it.
Forget ==
    /\ base' \in base..resume
    /\ resume = Len(log)
    /\ UNCHANGED <<log, resume>>

LogNext == Extend \/ Anchor \/ Forget

LogSpec == LogInit /\ [][LogNext]_logVars
=============================================================================
