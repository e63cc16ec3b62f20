-------------------------------- MODULE Wait --------------------------------
(***************************************************************************)
(* The WAIT capability: governance decides whether an organism may wait    *)
(* for an expected occurrence, the wait journal keeps the executions and   *)
(* the suppressions that keep it from waiting for the same again, and a    *)
(* downtime reconciliation ends the waits that ran out while the process   *)
(* was down.                                                               *)
(*                                                                         *)
(* Executions are numbered in the order of admission (the journal's dict   *)
(* keeps that order): a proposal carries no execution id, so each one that *)
(* is admitted is an execution of its own.  The journal lives in memory.   *)
(***************************************************************************)
EXTENDS Integers, Sequences, FiniteSets

CONSTANTS
    Recurrences,        \* what the organism may expect
    Windows,            \* [from, until]: the windows an expectation may have
    MaxWait,            \* MAXIMUM_WAIT_TICKS
    Suppress,           \* SUPPRESSION_DURATION_TICKS, suppress_duration_ticks
    MaxExecutions,      \* MAX_WAIT_EXECUTIONS: for the life of the journal
    MaxSuppressions,    \* MAX_WAIT_SUPPRESSIONS
    MaxAge,             \* bound: age of the organism
    MaxVersion,         \* bound: version of an expectation
    MaxRecords,         \* bound: suppressions recorded in one session
    MaxRestarts         \* bound: restarts of the process

ASSUME WaitAssumption ==
    /\ Windows # {} /\ \A w \in Windows : w \in [from : Nat, until : Nat]
    /\ MaxWait \in Nat /\ Suppress \in Nat
    /\ MaxExecutions \in Nat /\ MaxSuppressions \in Nat \ {0, 1}
    /\ MaxAge \in Nat /\ MaxVersion \in Nat /\ MaxRecords \in Nat /\ MaxRestarts \in Nat

VARIABLES
    age,            \* organism age in ticks
    expectation,    \* recurrence |-> the expectation policy sees
    executions,     \* WaitJournal.executions, in order
    suppressions,   \* WaitJournal.suppressions, oldest first
    plan,           \* at most one prepared downtime reconciliation
    recorded,       \* suppressions recorded in this session, the evicted included
    restarts

vars == <<age, expectation, executions, suppressions, plan, recorded, restarts>>

-----------------------------------------------------------------------------
Terminal == {"OBSERVED", "INTERRUPTED", "EXPIRED"}
None == 0

Key == Recurrences \X Nat

Expectation == [version : Nat, active : BOOLEAN, window : Windows]
\* "mark" is not in the code: the suppression of an ended wait is the mark-th.
Execution == [key : Key, window : Windows, started : Nat, deadline : Nat,
              status : {"ACTIVE"} \cup Terminal, mark : Nat]
\* "source" is None when governance recorded it for a refused proposal.
Suppression == [key : Key, until : Nat, source : Nat]
\* "seen" is not in the code: the journal the plan was made from.
Plan == [age : Nat, due : SUBSET Nat, seen : Seq(Execution)]

Min2(a, b) == IF a <= b THEN a ELSE b

\* wait_deadline_age_tick
Deadline(start, window) == Min2(start + MaxWait, window.until)

KeyOf(r) == <<r, expectation[r].version>>

Within(a, window) == window.from <= a /\ a <= window.until

\* Mutant: is_suppressed asks the latest record of the key only.
SuppressedByLatest(key, a) ==
    LET own == SelectSeq(suppressions, LAMBDA s : s.key = key)
    IN  own # <<>> /\ a < own[Len(own)].until

\* is_suppressed: any record in force, not only the latest one.
Suppressed(key, a) ==
    \E i \in DOMAIN suppressions : suppressions[i].key = key /\ a < suppressions[i].until

\* The latest records: the oldest make room, those still in force included.
Kept(list) ==
    IF Len(list) <= MaxSuppressions THEN list
    ELSE SubSeq(list, Len(list) - MaxSuppressions + 1, Len(list))

\* record_suppression, once for each of the new records
Record(records) ==
    /\ recorded + Len(records) <= MaxRecords
    /\ suppressions' = Kept(suppressions \o records)
    /\ recorded' = recorded + Len(records)

\* Mutant: A suppression runs from the start of the wait.
SuppressingFromStart(i) ==
    [key |-> executions[i].key, until |-> executions[i].started + Suppress, source |-> i]

\* The suppression of an ended wait runs from its deadline.
Suppressing(i) ==
    [key |-> executions[i].key, until |-> executions[i].deadline + Suppress, source |-> i]

\* The place of i among the members of S, in ascending order.
Rank(i, S) == Cardinality({k \in S : k <= i})
Ranked(n, S) == CHOOSE i \in S : Rank(i, S) = n

\* The members of S end with one outcome, one after the other, and each one is
\* suppressed in the same step.
EndAll(S, status) ==
    /\ executions' = [i \in DOMAIN executions |->
           IF i \in S
           THEN [executions[i] EXCEPT !.status = status, !.mark = recorded + Rank(i, S)]
           ELSE executions[i]]
    /\ Record([n \in 1..Cardinality(S) |-> Suppressing(Ranked(n, S))])

\* Mutant: An outcome is overwritten.
FinalizeAgain(S, status) == EndAll(S, status)

\* finalize, for each of S in order: what has ended keeps its outcome.
Finalize(S, status) == EndAll({i \in S : executions[i].status \notin Terminal}, status)

-----------------------------------------------------------------------------
(* Governance *)

\* _validate_wait_admission: what a proposal is refused for.
Inadmissible(r) ==
    \/ ~expectation[r].active
    \/ ~Within(age, expectation[r].window)
    \/ Suppressed(KeyOf(r), age)

\* admit refuses and suppresses, which extends a suppression in force.
Refuse(r) ==
    /\ Inadmissible(r)
    /\ Record(<<[key |-> KeyOf(r), until |-> age + Suppress, source |-> None]>>)
    /\ UNCHANGED <<age, expectation, executions, plan, restarts>>

\* admit grants, execute_and_verify prepares the wait and admits it in the journal,
\* unless the journal has had all the executions it may have.
Grant(r) ==
    /\ ~Inadmissible(r)
    /\ Len(executions) < MaxExecutions
    /\ executions' = Append(executions,
           [key |-> KeyOf(r), window |-> expectation[r].window, started |-> age,
            deadline |-> Deadline(age, expectation[r].window),
            status |-> "ACTIVE", mark |-> 0])
    /\ UNCHANGED <<age, expectation, suppressions, plan, recorded, restarts>>

-----------------------------------------------------------------------------
(* The wait ends *)

\* try_complete_with_occurrence: the occurrence the wait is for, seen in its window
\* (which may be behind its deadline).
Occurs(i) ==
    /\ executions[i].status \notin Terminal
    /\ Within(age, executions[i].window)
    /\ Finalize({i}, "OBSERVED")
    /\ UNCHANGED <<age, expectation, plan, restarts>>

\* finalize by a caller, also of a wait that has already ended.
Interrupt(i) ==
    /\ Finalize({i}, "INTERRUPTED")
    /\ UNCHANGED <<age, expectation, plan, restarts>>

-----------------------------------------------------------------------------
(* Time and downtime *)

\* A tick; the plan of a reconciliation is for the age it was prepared at.
Tick ==
    /\ age < MaxAge
    /\ age' = age + 1
    /\ plan' = {}
    /\ UNCHANGED <<expectation, executions, suppressions, recorded, restarts>>

\* Learning revises an expectation: another version, window and status.
Revise(r) ==
    /\ expectation[r].version < MaxVersion
    /\ \E w \in Windows, a \in BOOLEAN :
           expectation' = [expectation EXCEPT ![r] =
               [version |-> @.version + 1, active |-> a, window |-> w]]
    /\ UNCHANGED <<age, executions, suppressions, plan, recorded, restarts>>

\* Mutant: A wait is due after its deadline only.
DueLate(a) ==
    {i \in DOMAIN executions :
        executions[i].status \notin Terminal /\ a > executions[i].deadline}

\* compute_wait_recovery_deltas: the waits that have not ended and will be due.
Due(a) ==
    {i \in DOMAIN executions :
        executions[i].status \notin Terminal /\ a >= executions[i].deadline}

\* reconcile_downtime prepares a plan, once; a gap that is not trusted is planned
\* with no time gone by.
Prepare(gap) ==
    /\ plan = {}
    /\ age + gap <= MaxAge
    /\ plan' = {[age |-> age + gap, due |-> Due(age + gap), seen |-> executions]}
    /\ UNCHANGED <<age, expectation, executions, suppressions, recorded, restarts>>

\* apply_wait_recovery_deltas takes the waits in order and raises at the first one
\* that has ended since the plan was made: those behind it stay as they are.
Applied(due) ==
    {i \in due : \A k \in due : k <= i => executions[k].status \notin Terminal}

\* apply_downtime_reconciliation: the record and the age are committed, then the
\* waits end.  An error there comes too late to undo the commit.
Reconcile(p) ==
    /\ age' = p.age
    /\ plan' = {}
    /\ Finalize(Applied(p.due), "EXPIRED")
    /\ UNCHANGED <<expectation, restarts>>

\* A restart begins with an empty journal, and with the age of its snapshot.
Restart ==
    /\ restarts < MaxRestarts
    /\ restarts' = restarts + 1
    /\ age' \in 0..age
    /\ executions' = <<>> /\ suppressions' = <<>> /\ recorded' = 0
    /\ plan' = {}
    /\ UNCHANGED expectation

-----------------------------------------------------------------------------
Init ==
    /\ age = 0
    /\ \E w \in Windows :
           expectation = [r \in Recurrences |-> [version |-> 0, active |-> TRUE, window |-> w]]
    /\ executions = <<>> /\ suppressions = <<>> /\ recorded = 0
    /\ plan = {}
    /\ restarts = 0

Next ==
    \/ \E r \in Recurrences : Refuse(r) \/ Grant(r) \/ Revise(r)
    \/ \E i \in DOMAIN executions : Occurs(i) \/ Interrupt(i)
    \/ Tick
    \/ \E gap \in 0..MaxAge : Prepare(gap)
    \/ \E p \in plan : Reconcile(p)
    \/ Restart

Spec == Init /\ [][Next]_vars

-----------------------------------------------------------------------------
(* Properties *)

\* Every variable has its type, and the journal stays within its caps.
TypeOK ==
    /\ age \in Nat
    /\ expectation \in [Recurrences -> Expectation]
    /\ executions \in Seq(Execution) /\ Len(executions) <= MaxExecutions
    /\ suppressions \in Seq(Suppression) /\ Len(suppressions) <= MaxSuppressions
    /\ plan \subseteq Plan
    /\ recorded \in Nat /\ restarts \in Nat

SameSession == restarts' = restarts

\* "Exactly one terminal outcome per execution_id": as long as the process lives, an
\* execution stays in the journal and an outcome it has is not replaced, neither by a
\* late occurrence nor by a reconciliation planned when the wait was still open.
OneOutcome ==
    [][SameSession =>
          \A i \in DOMAIN executions :
              /\ i \in DOMAIN executions'
              /\ executions[i].status \in Terminal => executions'[i] = executions[i]]_vars

\* "Immediate WAIT re-entry for same key" is not admitted: a new wait does not begin
\* within the suppression of an ended one of its key, unless MaxSuppressions later
\* records have pushed that suppression out of the journal.
NoReentry ==
    [][SameSession =>
          \A i \in DOMAIN executions' \ DOMAIN executions, k \in DOMAIN executions :
              (/\ executions[k].key = executions'[i].key
               /\ executions[k].status \in Terminal
               /\ age < executions[k].deadline + Suppress)
              => recorded - executions[k].mark >= MaxSuppressions]_vars

\* A downtime that is reconciled from a journal nobody touched since the plan ends
\* the waits whose deadline has passed by then, all of them and no other.
ReconciledWhenDue ==
    [][\A p \in plan :
          (Reconcile(p) /\ p.seen = executions) =>
              \A i \in DOMAIN executions : executions[i].status \notin Terminal =>
                  (executions'[i].status = "EXPIRED" <=> age' >= executions[i].deadline)]_vars

Promise == INSTANCE Waits WITH
    Patience   <- MaxWait,
    Remembered <- MaxSuppressions,
    now        <- age,
    waits      <- executions,
    records    <- recorded

\* Through late occurrences, callers that end what has ended, plans that are out of
\* date and a journal that evicts, waits begin, end, expire and bar their keys as
\* promised.
ImplementsWaits == Promise!WaitSpec

\* What a document says, and the code does not do: a reconciliation whose record is
\* committed has ended the waits it names; one that fails changes nothing.
ReconciledOrUnchanged ==
    [][\A p \in plan : Reconcile(p) =>
          \A i \in p.due : executions'[i].status \in Terminal]_vars

=============================================================================
