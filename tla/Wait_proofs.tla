----------------------------- MODULE Wait_proofs -----------------------------
(***************************************************************************)
(* Proofs about Wait: outcomes are final, reconciliations are exact, and   *)
(* an ended wait is not begun again while its suppression is kept, for any *)
(* recurrences, windows, caps and bounds.                                  *)
(*                                                                         *)
(* IInv is about the executions and the plan.  SuppInv says where in the   *)
(* bounded journal the suppression of an ended wait is found.  That a set  *)
(* of waits is suppressed in order needs no induction: the places of its   *)
(* members differ (RankedFinds), so they are all there (RankOnto).         *)
(***************************************************************************)
EXTENDS Wait, FiniteSetTheorems, TLAPS

\* A plan names the waits of the journal it was made from that will be due.
PlanExact ==
    \A p \in plan :
        p.due = {i \in DOMAIN p.seen : p.seen[i].status \notin Terminal
                                          /\ p.age >= p.seen[i].deadline}

\* The waits a plan names are waits of the journal: none is removed in a session.
PlanKnown == \A p \in plan : p.due \subseteq DOMAIN executions

IInv ==
    /\ age \in Nat /\ recorded \in Nat /\ restarts \in Nat
    /\ expectation \in [Recurrences -> Expectation]
    /\ executions \in Seq(Execution)
    /\ \A p \in plan : p.age \in Nat
    /\ PlanExact /\ PlanKnown

\* Finalize keeps every execution, and every outcome there is.
LEMMA FinalizeKeeps ==
    ASSUME executions \in Seq(Execution), recorded \in Nat,
           NEW S \in SUBSET DOMAIN executions, NEW status \in Terminal, Finalize(S, status)
    PROVE  /\ executions' \in Seq(Execution)
           /\ DOMAIN executions' = DOMAIN executions
           /\ recorded' \in Nat
           /\ \A i \in DOMAIN executions :
                 IF i \in S /\ executions[i].status \notin Terminal
                 THEN executions'[i].status = status
                 ELSE executions'[i] = executions[i]
  <1> DEFINE ending == {i \in S : executions[i].status \notin Terminal}
             Mark(i) == recorded + Rank(i, ending)
             Ended(i) == [executions[i] EXCEPT !.status = status, !.mark = Mark(i)]
  <1>1. executions' = [i \in DOMAIN executions |-> IF i \in ending THEN Ended(i)
                                                   ELSE executions[i]]
    BY DEF Finalize, EndAll
  <1>2. DOMAIN executions = 1..Len(executions) /\ Len(executions) \in Nat
    OBVIOUS
  <1>3. ASSUME NEW i \in DOMAIN executions PROVE Mark(i) \in Nat
    <2>1. IsFiniteSet(DOMAIN executions)
      BY <1>2, FS_Interval
    <2>2. IsFiniteSet({k \in ending : k <= i})
      BY <2>1, FS_Subset
    <2> QED BY <2>2, FS_CardinalityType DEF Rank
  <1>4. ASSUME NEW i \in DOMAIN executions
        PROVE  Ended(i) \in Execution /\ Ended(i).status = status
    <2>1. executions[i] \in Execution
      OBVIOUS
    <2> HIDE DEF Mark
    <2> QED BY <1>3, <2>1 DEF Execution
  <1> HIDE DEF Ended
  <1>5. executions' \in [1..Len(executions) -> Execution]
    BY <1>1, <1>2, <1>4
  <1>6. executions' \in Seq(Execution)
    BY <1>2, <1>5
  <1>7. recorded' \in Nat
    <2>0. IsFiniteSet(DOMAIN executions) /\ ending \subseteq DOMAIN executions
      BY <1>2, FS_Interval
    <2>1. IsFiniteSet(ending)
      BY <2>0, FS_Subset
    <2>2. Cardinality(ending) \in Nat
      BY <2>1, FS_CardinalityType
    <2>3. Record([n \in 1..Cardinality(ending) |-> Suppressing(Ranked(n, ending))])
      BY DEF Finalize, EndAll
    <2> HIDE DEF ending
    <2> QED BY <2>2, <2>3 DEF Record
  <1> QED BY <1>1, <1>4, <1>6, <1>7

-----------------------------------------------------------------------------
(* The invariant *)

LEMMA Initially == Init => IInv
  <1> SUFFICES ASSUME Init PROVE IInv
    OBVIOUS
  <1>1. executions = <<>> /\ executions \in Seq(Execution)
    BY DEF Init
  <1>2. expectation \in [Recurrences -> Expectation]
    BY DEF Init, Expectation
  <1> QED BY <1>1, <1>2 DEF Init, IInv, PlanExact, PlanKnown

LEMMA KeyTyped ==
    ASSUME IInv, NEW r \in Recurrences
    PROVE  /\ KeyOf(r) \in Key
           /\ expectation[r].window \in Windows
           /\ expectation[r].window.from \in Nat /\ expectation[r].window.until \in Nat
  BY WaitAssumption DEF IInv, Expectation, KeyOf, Key

LEMMA GrantKeeps ==
    ASSUME IInv, NEW r \in Recurrences, Grant(r)
    PROVE  IInv' /\ \A i \in DOMAIN executions :
                        i \in DOMAIN executions' /\ executions'[i] = executions[i]
  <1> DEFINE new == [key |-> KeyOf(r), window |-> expectation[r].window, started |-> age,
                     deadline |-> Deadline(age, expectation[r].window),
                     status |-> "ACTIVE", mark |-> 0]
  <1>1. Deadline(age, expectation[r].window) \in Nat
    BY KeyTyped, WaitAssumption DEF IInv, Deadline, Min2
  <1>2. new \in Execution
    BY <1>1, KeyTyped DEF IInv, Execution
  <1>3. executions' = Append(executions, new)
    BY DEF Grant
  <1> HIDE DEF new
  <1>4. /\ executions \in Seq(Execution) /\ executions' \in Seq(Execution)
        /\ \A i \in DOMAIN executions :
               i \in DOMAIN executions' /\ executions'[i] = executions[i]
    BY <1>2, <1>3 DEF IInv
  <1>5. PlanKnown' /\ PlanExact'
    BY <1>4 DEF IInv, Grant, PlanKnown, PlanExact
  <1> QED BY <1>4, <1>5 DEF IInv, Grant

LEMMA FinalizeInvariant ==
    ASSUME IInv, NEW S \in SUBSET DOMAIN executions, NEW status \in Terminal,
           Finalize(S, status), expectation' = expectation, restarts' = restarts,
           age' \in Nat, plan' = plan \/ plan' = {}
    PROVE  IInv'
  <1>1. /\ executions' \in Seq(Execution) /\ DOMAIN executions' = DOMAIN executions
        /\ recorded' \in Nat
    BY FinalizeKeeps DEF IInv
  <1>2. PlanKnown' /\ PlanExact' /\ \A p \in plan' : p.age \in Nat
    BY <1>1 DEF IInv, PlanKnown, PlanExact
  <1> QED BY <1>1, <1>2 DEF IInv

\* The waits a plan ends are waits of the journal.
LEMMA AppliedKnown ==
    ASSUME IInv, NEW p \in plan
    PROVE  Applied(p.due) \in SUBSET DOMAIN executions
  BY DEF IInv, PlanKnown, Applied

LEMMA PrepareKeeps ==
    ASSUME IInv, NEW gap \in 0..MaxAge, Prepare(gap)
    PROVE  IInv'
  <1>1. gap \in Nat /\ age + gap \in Nat
    BY WaitAssumption DEF IInv
  <1>2. /\ plan' = {[age |-> age + gap, due |-> Due(age + gap), seen |-> executions]}
        /\ executions' = executions
    BY DEF Prepare
  <1>3. PlanKnown' /\ PlanExact' /\ \A p \in plan' : p.age \in Nat
    BY <1>1, <1>2 DEF PlanKnown, PlanExact, Due
  <1> QED BY <1>3 DEF IInv, Prepare

LEMMA ReviseKeeps ==
    ASSUME IInv, NEW r \in Recurrences, Revise(r)
    PROVE  IInv'
  <1>1. PICK w \in Windows, a \in BOOLEAN :
            expectation' = [expectation EXCEPT ![r] =
                [version |-> expectation[r].version + 1, active |-> a, window |-> w]]
    BY DEF Revise
  <1>2. expectation[r].version + 1 \in Nat
    BY DEF IInv, Expectation
  <1>3. expectation' \in [Recurrences -> Expectation]
    BY <1>1, <1>2 DEF IInv, Expectation
  <1>4. PlanKnown' /\ PlanExact'
    BY DEF IInv, Revise, PlanKnown, PlanExact
  <1> QED BY <1>3, <1>4 DEF IInv, Revise

LEMMA Inductive == IInv /\ [Next]_vars => IInv'
  <1> SUFFICES ASSUME IInv, [Next]_vars PROVE IInv'
    OBVIOUS
  <1>1. ASSUME NEW r \in Recurrences, Refuse(r) PROVE IInv'
    <2>1. recorded' \in Nat
      BY <1>1 DEF IInv, Refuse, Record
    <2> QED BY <1>1, <2>1 DEF IInv, Refuse, PlanKnown, PlanExact
  <1>2. ASSUME NEW r \in Recurrences, Grant(r) PROVE IInv'
    BY <1>2, GrantKeeps
  <1>3. ASSUME NEW r \in Recurrences, Revise(r) PROVE IInv'
    BY <1>3, ReviseKeeps
  <1>4. ASSUME NEW i \in DOMAIN executions, Occurs(i) PROVE IInv'
    <2>1. /\ Finalize({i}, "OBSERVED") /\ {i} \in SUBSET DOMAIN executions
          /\ "OBSERVED" \in Terminal /\ age' \in Nat /\ plan' = plan
          /\ expectation' = expectation /\ restarts' = restarts
      BY <1>4 DEF Occurs, IInv, Terminal
    <2> QED BY <2>1, FinalizeInvariant
  <1>5. ASSUME NEW i \in DOMAIN executions, Interrupt(i) PROVE IInv'
    <2>1. /\ Finalize({i}, "INTERRUPTED") /\ {i} \in SUBSET DOMAIN executions
          /\ "INTERRUPTED" \in Terminal /\ age' \in Nat /\ plan' = plan
          /\ expectation' = expectation /\ restarts' = restarts
      BY <1>5 DEF Interrupt, IInv, Terminal
    <2> QED BY <2>1, FinalizeInvariant
  <1>6. CASE Tick
    BY <1>6 DEF IInv, Tick, PlanKnown, PlanExact
  <1>7. ASSUME NEW gap \in 0..MaxAge, Prepare(gap) PROVE IInv'
    BY <1>7, PrepareKeeps
  <1>8. ASSUME NEW p \in plan, Reconcile(p) PROVE IInv'
    <2>1. /\ Finalize(Applied(p.due), "EXPIRED") /\ "EXPIRED" \in Terminal
          /\ age' \in Nat /\ plan' = {} /\ expectation' = expectation
          /\ restarts' = restarts
      BY <1>8 DEF Reconcile, IInv, Terminal
    <2> QED BY <2>1, AppliedKnown, FinalizeInvariant
  <1>9. CASE Restart
    <2>1. executions' \in Seq(Execution) /\ age' \in Nat
      BY <1>9 DEF Restart, IInv
    <2> QED BY <1>9, <2>1 DEF IInv, Restart, PlanKnown, PlanExact
  <1>10. CASE UNCHANGED vars
    BY <1>10 DEF IInv, vars, PlanKnown, PlanExact
  <1> QED BY <1>1, <1>2, <1>3, <1>4, <1>5, <1>6, <1>7, <1>8, <1>9, <1>10 DEF Next

LEMMA Invariance == Spec => []IInv
  BY Initially, Inductive, PTL DEF Spec

-----------------------------------------------------------------------------
(* Suppressions *)

\* Where the d-th record before the latest one stands in the journal.
Back(d) == Len(suppressions) - d

\* Every outcome has been recorded, and its suppression is as far from the latest one
\* as records have followed it, unless they have pushed it out.
Marked(k) ==
    /\ executions[k].mark \in 1..recorded
    /\ recorded - executions[k].mark < MaxSuppressions =>
           /\ Back(recorded - executions[k].mark) \in DOMAIN suppressions
           /\ suppressions[Back(recorded - executions[k].mark)].key = executions[k].key
           /\ suppressions[Back(recorded - executions[k].mark)].until =
                  executions[k].deadline + Suppress

SuppInv ==
    /\ suppressions \in Seq(Suppression)
    /\ Len(suppressions) = Min2(recorded, MaxSuppressions)
    /\ Len(executions) <= MaxExecutions
    /\ plan \subseteq Plan
    /\ \A k \in DOMAIN executions : executions[k].status \in Terminal => Marked(k)

\* The places of the members of a finite set are different and leave none out, so
\* that Ranked finds each of them at its place.
LEMMA RankedFinds ==
    ASSUME NEW S, S \subseteq Nat, IsFiniteSet(S), NEW i \in S
    PROVE  /\ Rank(i, S) \in 1..Cardinality(S)
           /\ Ranked(Rank(i, S), S) = i
  <1> DEFINE Upto(k) == {j \in S : j <= k}
  <1>1. \A k \in S : IsFiniteSet(Upto(k)) /\ Cardinality(Upto(k)) \in Nat
                      /\ Cardinality(Upto(k)) <= Cardinality(S)
    BY FS_Subset, FS_CardinalityType
  <1>2. ASSUME NEW k \in S, NEW j \in S, k < j
        PROVE  Cardinality(Upto(k)) < Cardinality(Upto(j))
    <2>1. /\ IsFiniteSet(Upto(k) \cup {j})
          /\ Cardinality(Upto(k) \cup {j}) = Cardinality(Upto(k)) + 1
      <3>1. j \notin Upto(k)
        BY <1>2
      <3> HIDE DEF Upto
      <3> QED BY <1>1, <3>1, FS_AddElement
    <2>2. Upto(k) \cup {j} \subseteq Upto(j)
      <3>1. k \in Nat /\ j \in Nat
        OBVIOUS
      <3>2. j \in Upto(j)
        BY <3>1
      <3>3. ASSUME NEW e \in Upto(k) PROVE e \in Upto(j)
        <4>1. e \in S /\ e <= k /\ e \in Nat
          OBVIOUS
        <4>2. e <= j
          BY <1>2, <3>1, <4>1
        <4> QED BY <4>1, <4>2
      <3> HIDE DEF Upto
      <3> QED BY <3>2, <3>3
    <2> HIDE DEF Upto
    <2>3. Cardinality(Upto(k) \cup {j}) <= Cardinality(Upto(j))
      BY <1>1, <2>2, FS_Subset
    <2> QED BY <1>1, <2>1, <2>3
  <1>3. Upto(i) # {}
    OBVIOUS
  <1>4. Cardinality(Upto(i)) # 0
    BY <1>1, <1>3, FS_EmptySet
  <1>5. Cardinality(S) \in Nat
    BY FS_CardinalityType
  <1>6. \A k \in S : Rank(k, S) = Cardinality(Upto(k))
    BY DEF Rank
  <1> HIDE DEF Upto
  <1>7. Rank(i, S) \in 1..Cardinality(S)
    BY <1>1, <1>4, <1>5, <1>6
  <1>8. \A k \in S : Rank(k, S) = Rank(i, S) => k = i
    <2> SUFFICES ASSUME NEW k \in S, Rank(k, S) = Rank(i, S), k # i PROVE FALSE
      OBVIOUS
    <2>1. k < i \/ i < k
      OBVIOUS
    <2> QED BY <1>1, <1>2, <1>6, <2>1
  <1>9. PICK n : n = Rank(i, S)
    OBVIOUS
  <1>10. \E k \in S : Rank(k, S) = n
    BY <1>9
  <1>11. Ranked(n, S) \in S /\ Rank(Ranked(n, S), S) = n
    BY <1>10 DEF Ranked
  <1> QED BY <1>7, <1>8, <1>9, <1>11

\* The journal keeps the latest records, in their order.
LEMMA KeptPlaces ==
    ASSUME NEW list \in Seq(Suppression)
    PROVE  /\ Kept(list) \in Seq(Suppression)
           /\ Len(Kept(list)) = Min2(Len(list), MaxSuppressions)
           /\ \A d \in Nat : d < Len(list) /\ d < MaxSuppressions =>
                  /\ Len(Kept(list)) - d \in DOMAIN Kept(list)
                  /\ Kept(list)[Len(Kept(list)) - d] = list[Len(list) - d]
  <1>1. Len(list) \in Nat /\ MaxSuppressions \in Nat /\ MaxSuppressions > 0
    BY WaitAssumption
  <1>2. CASE Len(list) <= MaxSuppressions
    BY <1>1, <1>2 DEF Kept, Min2
  <1>3. CASE ~(Len(list) <= MaxSuppressions)
    <2>1. PICK m \in Nat : m = Len(list) - MaxSuppressions
      BY <1>1, <1>3
    <2>2. Kept(list) = SubSeq(list, m + 1, Len(list))
      BY <1>3, <2>1 DEF Kept
    <2>3. /\ SubSeq(list, m + 1, Len(list)) \in Seq(Suppression)
          /\ Len(SubSeq(list, m + 1, Len(list))) = MaxSuppressions
          /\ \A k \in 1..MaxSuppressions : SubSeq(list, m + 1, Len(list))[k] = list[m + k]
      BY <1>1, <1>3, <2>1
    <2>4. /\ Kept(list) \in Seq(Suppression) /\ Len(Kept(list)) = MaxSuppressions
          /\ DOMAIN Kept(list) = 1..MaxSuppressions
          /\ \A k \in 1..MaxSuppressions : Kept(list)[k] = list[m + k]
      BY <2>2, <2>3
    <2>5. ASSUME NEW d \in Nat, d < MaxSuppressions
          PROVE  MaxSuppressions - d \in 1..MaxSuppressions
                 /\ m + (MaxSuppressions - d) = Len(list) - d
      BY <1>1, <2>1, <2>5
    <2> QED BY <1>1, <1>3, <2>4, <2>5 DEF Min2
  <1> QED BY <1>2, <1>3

LEMMA Joined ==
    ASSUME NEW s \in Seq(Suppression), NEW t \in Seq(Suppression)
    PROVE  /\ s \o t \in Seq(Suppression) /\ Len(s \o t) = Len(s) + Len(t)
           /\ \A k \in 1..Len(s) : (s \o t)[k] = s[k]
           /\ \A k \in 1..Len(t) : (s \o t)[Len(s) + k] = t[k]
  OBVIOUS

\* New records move those behind them on, and come to stand at their own places.
LEMMA RecordPlaces ==
    ASSUME IInv, SuppInv, NEW records \in Seq(Suppression), Record(records)
    PROVE  /\ suppressions' \in Seq(Suppression)
           /\ Len(suppressions') = Min2(recorded', MaxSuppressions)
           /\ recorded' = recorded + Len(records)
           /\ \A m \in 1..recorded :
                  recorded' - m < MaxSuppressions =>
                      /\ recorded - m < MaxSuppressions
                      /\ Len(suppressions') - (recorded' - m) \in DOMAIN suppressions'
                      /\ suppressions'[Len(suppressions') - (recorded' - m)] = suppressions[Back(recorded - m)]
           /\ \A n \in 1..Len(records) :
                  recorded' - (recorded + n) < MaxSuppressions =>
                      /\ Len(suppressions') - (recorded' - (recorded + n)) \in DOMAIN suppressions'
                      /\ suppressions'[Len(suppressions') - (recorded' - (recorded + n))] = records[n]
  <1>1. PICK list, new : /\ list = suppressions \o records
                         /\ new = Kept(list)
    OBVIOUS
  <1>2. PICK l \in Nat, m \in Nat, r \in Nat, b \in Nat :
            /\ l = Len(suppressions) /\ m = Len(records) /\ r = recorded
            /\ b = MaxSuppressions /\ b > 0
    BY WaitAssumption DEF IInv, SuppInv
  <1>3. /\ suppressions' = new /\ recorded' = r + m
    BY <1>1, <1>2 DEF Record
  <1>4. /\ list \in Seq(Suppression) /\ Len(list) = l + m
        /\ \A k \in 1..l : list[k] = suppressions[k]
        /\ \A k \in 1..m : list[l + k] = records[k]
    BY <1>1, <1>2, Joined DEF SuppInv
  <1>5. l = IF r <= b THEN r ELSE b
    BY <1>2 DEF SuppInv, Min2
  <1>6. /\ new \in Seq(Suppression) /\ Len(new) = IF l + m <= b THEN l + m ELSE b
        /\ \A d \in Nat : d < l + m /\ d < b =>
              Len(new) - d \in DOMAIN new /\ new[Len(new) - d] = list[l + m - d]
    <2>1. /\ new \in Seq(Suppression) /\ Len(new) = Min2(Len(list), b)
          /\ \A d \in Nat : d < Len(list) /\ d < b =>
                Len(new) - d \in DOMAIN new /\ new[Len(new) - d] = list[Len(list) - d]
      BY <1>1, <1>2, <1>4, KeptPlaces
    <2>2. Len(list) = l + m
      BY <1>4
    <2> QED BY ONLY <2>1, <2>2 DEF Min2
  <1>7. Len(new) = Min2(r + m, b)
    BY <1>2, <1>5, <1>6 DEF Min2
  <1>8. ASSUME NEW k \in 1..r, r + m - k < b
        PROVE  /\ r - k < b /\ Len(new) - (r + m - k) \in DOMAIN new
               /\ new[Len(new) - (r + m - k)] = suppressions[l - (r - k)]
    <2>1. PICK d \in Nat : d = r + m - k
      BY <1>8
    <2>2. d < l + m /\ d < b /\ r - k < b /\ l + m - d = l - (r - k) /\ l - (r - k) \in 1..l
      BY <1>2, <1>5, <1>8, <2>1
    <2>3. Len(new) - d \in DOMAIN new /\ new[Len(new) - d] = list[l + m - d]
      BY <1>6, <2>2
    <2> QED BY <1>4, <2>1, <2>2, <2>3
  <1>9. ASSUME NEW n \in 1..m, r + m - (r + n) < b
        PROVE  /\ Len(new) - (r + m - (r + n)) \in DOMAIN new
               /\ new[Len(new) - (r + m - (r + n))] = records[n]
    <2>1. PICK d \in Nat : d = r + m - (r + n)
      BY <1>9
    <2>2. d < l + m /\ d < b /\ l + m - d = l + n
      BY <1>9, <2>1
    <2>3. Len(new) - d \in DOMAIN new /\ new[Len(new) - d] = list[l + n]
      BY <1>6, <2>2
    <2> QED BY <1>4, <2>1, <2>3
  <1>10. \A k \in 1..r : Back(r - k) = l - (r - k)
    BY <1>2 DEF Back
  <1>11. /\ suppressions' \in Seq(Suppression)
         /\ Len(suppressions') = Min2(recorded', MaxSuppressions)
    BY <1>2, <1>3, <1>6, <1>7
  <1>12. \A k \in 1..r : r + m - k < b =>
             /\ r - k < b /\ Len(new) - (r + m - k) \in DOMAIN new
             /\ new[Len(new) - (r + m - k)] = suppressions[Back(r - k)]
    BY <1>8, <1>10
  <1> HIDE DEF Back
  <1> QED BY ONLY <1>2, <1>3, <1>9, <1>11, <1>12

\* Every place is somebody's.
LEMMA RankOnto ==
    ASSUME NEW S, S \subseteq Nat, IsFiniteSet(S), NEW n \in 1..Cardinality(S)
    PROVE  Ranked(n, S) \in S
  <1> DEFINE f == [i \in S |-> Rank(i, S)]
  <1>1. \A i \in S : Rank(i, S) \in 1..Cardinality(S) /\ Ranked(Rank(i, S), S) = i
    BY RankedFinds
  <1>2. f \in [S -> 1..Cardinality(S)] /\ \A i \in S : f[i] = Rank(i, S)
    BY <1>1
  <1> HIDE DEF f
  <1>3. ASSUME NEW i \in S, NEW k \in S, f[i] = f[k] PROVE i = k
    <2>1. PICK m : m = Rank(i, S) /\ m = Rank(k, S)
      BY <1>2, <1>3
    <2> QED BY <1>1, <2>1
  <1>4. f \in Injection(S, 1..Cardinality(S))
    BY <1>2, <1>3 DEF Injection, IsInjective
  <1>5. Cardinality(S) \in Nat
    BY FS_CardinalityType
  <1>6. IsFiniteSet(1..Cardinality(S)) /\ Cardinality(1..Cardinality(S)) = Cardinality(S)
    BY <1>5, FS_Interval
  <1>7. f \in Surjection(S, 1..Cardinality(S))
    BY <1>4, <1>6, FS_Injection
  <1>8. \E i \in S : Rank(i, S) = n
    BY <1>2, <1>7 DEF Surjection
  <1> QED BY <1>8 DEF Ranked

\* A wait that ends is marked with the place of its suppression.
LEMMA FinalizeMarks ==
    ASSUME IInv, SuppInv, NEW S \in SUBSET DOMAIN executions, NEW status \in Terminal,
           Finalize(S, status)
    PROVE  /\ suppressions' \in Seq(Suppression)
           /\ Len(suppressions') = Min2(recorded', MaxSuppressions)
           /\ Len(executions') = Len(executions)
           /\ \A k \in DOMAIN executions' : executions'[k].status \in Terminal => Marked(k)'
  <1> DEFINE ending == {i \in S : executions[i].status \notin Terminal}
             list   == [n \in 1..Cardinality(ending) |-> Suppressing(Ranked(n, ending))]
  <1>1. /\ executions' = [i \in DOMAIN executions |->
               IF i \in ending
               THEN [executions[i] EXCEPT !.status = status, !.mark = recorded + Rank(i, ending)]
               ELSE executions[i]]
        /\ Record(list)
    BY DEF Finalize, EndAll
  <1>2. /\ DOMAIN executions = 1..Len(executions) /\ Len(executions) \in Nat
        /\ \A i \in DOMAIN executions : executions[i] \in Execution
    BY DEF IInv
  <1>3. ending \subseteq DOMAIN executions /\ ending \subseteq Nat /\ IsFiniteSet(ending)
    <2>1. ending \subseteq DOMAIN executions
      OBVIOUS
    <2>2. IsFiniteSet(DOMAIN executions)
      BY <1>2, FS_Interval
    <2> HIDE DEF ending
    <2> QED BY <1>2, <2>1, <2>2, FS_Subset
  <1>4. \A i \in DOMAIN executions : executions[i].status \in Terminal => i \notin ending
    OBVIOUS
  <1>5. \A i \in DOMAIN executions : i \notin ending /\ executions'[i].status \in Terminal
                                       => executions[i].status \in Terminal
    BY <1>1
  <1> HIDE DEF ending
  <1>6. Cardinality(ending) \in Nat
    BY <1>3, FS_CardinalityType
  <1>7. \A i \in DOMAIN executions : Suppressing(i) \in Suppression
    BY <1>2, WaitAssumption DEF Execution, Suppression, Suppressing
  <1>8. list \in Seq(Suppression) /\ Len(list) = Cardinality(ending)
    <2>1. \A n \in 1..Cardinality(ending) : Ranked(n, ending) \in DOMAIN executions
      BY <1>3, RankOnto
    <2>2. list \in [1..Cardinality(ending) -> Suppression]
      BY <1>7, <2>1
    <2> HIDE DEF list
    <2> QED BY <1>6, <2>2
  <1>9. \A i \in ending : Rank(i, ending) \in 1..Len(list)
                            /\ list[Rank(i, ending)] = Suppressing(i)
    <2>1. ASSUME NEW i \in ending PROVE Rank(i, ending) \in 1..Cardinality(ending)
                                        /\ Ranked(Rank(i, ending), ending) = i
      BY <1>3, RankedFinds
    <2>2. ASSUME NEW i \in ending PROVE list[Rank(i, ending)] = Suppressing(i)
      <3>1. PICK n \in 1..Cardinality(ending) : n = Rank(i, ending)
        BY <2>1
      <3>2. list[n] = Suppressing(Ranked(n, ending)) /\ Ranked(n, ending) = i
        BY <2>1, <3>1
      <3> QED BY <3>1, <3>2
    <2> HIDE DEF list
    <2> QED BY <1>8, <2>1, <2>2
  <1> HIDE DEF list
  <1>10. /\ suppressions' \in Seq(Suppression)
         /\ Len(suppressions') = Min2(recorded', MaxSuppressions)
         /\ recorded' = recorded + Len(list)
    BY <1>1, <1>8, RecordPlaces
  <1>11. executions' \in Seq(Execution) /\ DOMAIN executions' = DOMAIN executions
    BY FinalizeKeeps DEF IInv
  <1>12. Len(executions') = Len(executions)
    <2>1. DOMAIN executions' = 1..Len(executions') /\ Len(executions') \in Nat
      BY <1>11
    <2> QED BY <1>2, <1>11, <2>1
  <1>13. ASSUME NEW k \in DOMAIN executions, k \notin ending,
                executions'[k].status \in Terminal
         PROVE  Marked(k)'
    <2>1. executions'[k] = executions[k] /\ Marked(k)
      BY <1>1, <1>5, <1>13 DEF SuppInv
    <2>2. PICK m : m = executions[k].mark
      OBVIOUS
    <2>3. m \in 1..recorded
      BY <2>1, <2>2 DEF Marked
    <2>4. m \in 1..recorded'
      BY <1>8, <1>6, <1>10, <2>3 DEF IInv
    <2>5. recorded' - m < MaxSuppressions =>
              /\ recorded - m < MaxSuppressions
              /\ Len(suppressions') - (recorded' - m) \in DOMAIN suppressions'
              /\ suppressions'[Len(suppressions') - (recorded' - m)]
                     = suppressions[Back(recorded - m)]
      BY <1>1, <1>8, <2>3, RecordPlaces
    <2>6. recorded - m < MaxSuppressions =>
              /\ suppressions[Back(recorded - m)].key = executions[k].key
              /\ suppressions[Back(recorded - m)].until = executions[k].deadline + Suppress
      BY <2>1, <2>2 DEF Marked
    <2>7. executions'[k].mark = m
      BY <2>1, <2>2
    <2> QED BY <2>1, <2>4, <2>5, <2>6, <2>7 DEF Marked, Back
  <1>14. ASSUME NEW k \in ending PROVE Marked(k)'
    <2>1. PICK n \in 1..Len(list) : n = Rank(k, ending) /\ list[n] = Suppressing(k)
      BY <1>9
    <2>2. /\ executions'[k].mark = recorded + n
          /\ executions'[k].key = executions[k].key
          /\ executions'[k].deadline = executions[k].deadline
      <3>1. /\ executions[k] \in Execution
            /\ executions'[k] = [executions[k] EXCEPT !.status = status,
                                                      !.mark = recorded + Rank(k, ending)]
        BY <1>1, <1>2, <1>3
      <3> QED BY <2>1, <3>1 DEF Execution
    <2>3. /\ list[n].key = executions[k].key
          /\ list[n].until = executions[k].deadline + Suppress
      BY <2>1 DEF Suppressing
    <2>4. recorded' - (recorded + n) < MaxSuppressions =>
              /\ Len(suppressions') - (recorded' - (recorded + n)) \in DOMAIN suppressions'
              /\ suppressions'[Len(suppressions') - (recorded' - (recorded + n))] = list[n]
      BY <1>1, <1>8, RecordPlaces
    <2>5. recorded + n \in 1..recorded'
      BY <1>6, <1>8, <1>10 DEF IInv
    <2> QED BY <2>2, <2>3, <2>4, <2>5 DEF Marked, Back
  <1> QED BY <1>10, <1>11, <1>12, <1>13, <1>14

LEMMA InitSuppInv == Init => SuppInv
  <1> SUFFICES ASSUME Init PROVE SuppInv
    OBVIOUS
  <1>1. /\ executions = <<>> /\ suppressions = <<>> /\ recorded = 0 /\ plan = {}
        /\ MaxExecutions \in Nat /\ MaxSuppressions \in Nat
    BY WaitAssumption DEF Init
  <1> QED BY <1>1 DEF SuppInv, Min2

\* A step that ends waits.
LEMMA EndingSuppInv ==
    ASSUME IInv, SuppInv, NEW S \in SUBSET DOMAIN executions, NEW status \in Terminal,
           Finalize(S, status), plan' = plan \/ plan' = {}
    PROVE  SuppInv'
  BY FinalizeMarks DEF SuppInv

LEMMA RefuseSuppInv ==
    ASSUME IInv, SuppInv, NEW r \in Recurrences, Refuse(r)
    PROVE  SuppInv'
  <1> DEFINE new == [key |-> KeyOf(r), until |-> age + Suppress, source |-> None]
             list == <<new>>
  <1>1. new \in Suppression
    BY KeyTyped, WaitAssumption DEF IInv, Suppression, None
  <1>2. list \in Seq(Suppression) /\ Len(list) = 1
    BY <1>1
  <1>3. Record(list) /\ UNCHANGED <<executions, plan>>
    BY DEF Refuse
  <1> HIDE DEF list
  <1>4. /\ suppressions' \in Seq(Suppression)
        /\ Len(suppressions') = Min2(recorded', MaxSuppressions)
        /\ recorded' = recorded + 1
    BY <1>2, <1>3, RecordPlaces
  <1>5. ASSUME NEW k \in DOMAIN executions, executions[k].status \in Terminal
        PROVE  Marked(k)'
    <2>1. Marked(k)
      BY <1>5 DEF SuppInv
    <2>2. PICK m : m = executions[k].mark
      OBVIOUS
    <2>3. m \in 1..recorded
      BY <2>1, <2>2 DEF Marked
    <2>4. m \in 1..recorded'
      BY <1>4, <2>3 DEF IInv
    <2>5. recorded' - m < MaxSuppressions =>
              /\ recorded - m < MaxSuppressions
              /\ Len(suppressions') - (recorded' - m) \in DOMAIN suppressions'
              /\ suppressions'[Len(suppressions') - (recorded' - m)]
                     = suppressions[Back(recorded - m)]
      BY <1>2, <1>3, <2>3, RecordPlaces
    <2>6. recorded - m < MaxSuppressions =>
              /\ suppressions[Back(recorded - m)].key = executions[k].key
              /\ suppressions[Back(recorded - m)].until = executions[k].deadline + Suppress
      BY <2>1, <2>2 DEF Marked
    <2>7. executions'[k] = executions[k]
      BY <1>3
    <2> QED BY <2>2, <2>4, <2>5, <2>6, <2>7 DEF Marked, Back
  <1> QED BY <1>3, <1>4, <1>5 DEF SuppInv

LEMMA GrantSuppInv ==
    ASSUME IInv, SuppInv, NEW r \in Recurrences, Grant(r)
    PROVE  SuppInv'
  <1> DEFINE new == [key |-> KeyOf(r), window |-> expectation[r].window, started |-> age,
                     deadline |-> Deadline(age, expectation[r].window),
                     status |-> "ACTIVE", mark |-> 0]
  <1>1. /\ executions' = Append(executions, new) /\ Len(executions) < MaxExecutions
        /\ UNCHANGED <<suppressions, recorded, plan>> /\ new.status = "ACTIVE"
    BY DEF Grant
  <1> HIDE DEF new
  <1>2. executions \in Seq(Execution) /\ MaxExecutions \in Nat
    BY WaitAssumption DEF IInv
  <1>3. /\ Len(executions') <= MaxExecutions
        /\ \A k \in DOMAIN executions' : k \in DOMAIN executions \/ executions'[k] = new
        /\ \A k \in DOMAIN executions : executions'[k] = executions[k]
    BY <1>1, <1>2
  <1>4. ASSUME NEW k \in DOMAIN executions', executions'[k].status \in Terminal
        PROVE  Marked(k)'
    <2>1. k \in DOMAIN executions
      BY <1>1, <1>3, <1>4 DEF Terminal
    <2>2. executions'[k] = executions[k] /\ Marked(k)
      BY <1>3, <1>4, <2>1 DEF SuppInv
    <2> QED BY <1>1, <2>2 DEF Marked, Back
  <1> QED BY <1>1, <1>3, <1>4 DEF SuppInv

LEMMA PrepareSuppInv ==
    ASSUME IInv, SuppInv, NEW gap \in 0..MaxAge, Prepare(gap)
    PROVE  SuppInv'
  <1>1. /\ plan' = {[age |-> age + gap, due |-> Due(age + gap), seen |-> executions]}
        /\ UNCHANGED <<executions, suppressions, recorded>>
    BY DEF Prepare
  <1>2. age + gap \in Nat /\ executions \in Seq(Execution)
    BY WaitAssumption DEF IInv
  <1>3. Due(age + gap) \in SUBSET Nat
    BY <1>2 DEF Due
  <1>4. plan' \subseteq Plan
    BY <1>1, <1>2, <1>3 DEF Plan
  <1> QED BY <1>1, <1>4 DEF SuppInv, Marked, Back

LEMMA StepSuppInv == IInv /\ SuppInv /\ [Next]_vars => SuppInv'
  <1> SUFFICES ASSUME IInv, SuppInv, [Next]_vars PROVE SuppInv'
    OBVIOUS
  <1>1. ASSUME UNCHANGED <<executions, suppressions, recorded>>,
               plan' = plan \/ plan' = {}
        PROVE  SuppInv'
    BY <1>1 DEF SuppInv, Marked, Back
  <1>2. ASSUME NEW r \in Recurrences, Refuse(r) PROVE SuppInv'
    BY <1>2, RefuseSuppInv
  <1>3. ASSUME NEW r \in Recurrences, Grant(r) PROVE SuppInv'
    BY <1>3, GrantSuppInv
  <1>4. ASSUME NEW r \in Recurrences, Revise(r) PROVE SuppInv'
    BY <1>1, <1>4 DEF Revise
  <1>5. ASSUME NEW i \in DOMAIN executions, Occurs(i) \/ Interrupt(i) PROVE SuppInv'
    <2>1. PICK status \in Terminal : Finalize({i}, status)
      BY <1>5 DEF Occurs, Interrupt, Terminal
    <2>2. plan' = plan /\ {i} \in SUBSET DOMAIN executions
      BY <1>5 DEF Occurs, Interrupt
    <2> QED BY <2>1, <2>2, EndingSuppInv
  <1>6. CASE Tick
    BY <1>1, <1>6 DEF Tick
  <1>7. ASSUME NEW gap \in 0..MaxAge, Prepare(gap) PROVE SuppInv'
    BY <1>7, PrepareSuppInv
  <1>8. ASSUME NEW p \in plan, Reconcile(p) PROVE SuppInv'
    <2>1. Finalize(Applied(p.due), "EXPIRED") /\ "EXPIRED" \in Terminal /\ plan' = {}
      BY <1>8 DEF Reconcile, Terminal
    <2> QED BY <2>1, AppliedKnown, EndingSuppInv
  <1>9. CASE Restart
    <2>1. /\ executions' = <<>> /\ suppressions' = <<>> /\ recorded' = 0 /\ plan' = {}
          /\ MaxExecutions \in Nat /\ MaxSuppressions \in Nat
      BY <1>9, WaitAssumption DEF Restart
    <2> QED BY <2>1 DEF SuppInv, Min2
  <1>10. CASE UNCHANGED vars
    BY <1>1, <1>10 DEF vars
  <1> QED BY <1>2, <1>3, <1>4, <1>5, <1>6, <1>7, <1>8, <1>9, <1>10 DEF Next

LEMMA Suppressions == Spec => [](IInv /\ SuppInv)
  <1>1. Spec => []SuppInv
    BY Invariance, InitSuppInv, StepSuppInv, PTL DEF Spec
  <1> QED BY <1>1, Invariance, PTL

-----------------------------------------------------------------------------
(* The theorems *)

LEMMA FinalizeFinal ==
    ASSUME IInv, NEW S \in SUBSET DOMAIN executions, NEW status \in Terminal,
           Finalize(S, status)
    PROVE  \A i \in DOMAIN executions :
              /\ i \in DOMAIN executions'
              /\ executions[i].status \in Terminal => executions'[i] = executions[i]
  BY FinalizeKeeps DEF IInv

\* As long as the process lives an execution has one outcome (wait_execution.py,
\* finalize and apply_wait_recovery_delta).
THEOREM OneOutcomeKept == Spec => OneOutcome
  <1> DEFINE Final == SameSession =>
                 \A i \in DOMAIN executions :
                     /\ i \in DOMAIN executions'
                     /\ executions[i].status \in Terminal => executions'[i] = executions[i]
  <1>1. IInv /\ [Next]_vars => [Final]_vars
    <2> SUFFICES ASSUME IInv, Next, SameSession PROVE Final
      OBVIOUS
    <2>1. ASSUME NEW r \in Recurrences, Grant(r) PROVE Final
      BY <2>1, GrantKeeps
    <2>2. ASSUME NEW i \in DOMAIN executions, Occurs(i) \/ Interrupt(i) PROVE Final
      <3>1. PICK status \in Terminal : Finalize({i}, status)
        BY <2>2 DEF Occurs, Interrupt, Terminal
      <3> QED BY <3>1, FinalizeFinal
    <2>3. ASSUME NEW p \in plan, Reconcile(p) PROVE Final
      <3>1. Finalize(Applied(p.due), "EXPIRED") /\ "EXPIRED" \in Terminal
        BY <2>3 DEF Reconcile, Terminal
      <3> QED BY <3>1, AppliedKnown, FinalizeFinal
    <2>4. CASE Restart
      <3>1. restarts \in Nat /\ restarts' = restarts + 1 /\ restarts' = restarts
        BY <2>4 DEF IInv, Restart, SameSession
      <3> QED BY <3>1
    <2>5. ASSUME executions' = executions PROVE Final
      BY <2>5
    <2> QED BY <2>1, <2>2, <2>3, <2>4, <2>5 DEF Next, Refuse, Revise, Tick, Prepare
  <1> QED BY <1>1, Invariance, PTL DEF Spec, OneOutcome

\* A reconciliation from a journal nobody touched ends the waits that are due and no
\* other (wait_execution.py, compute_wait_recovery_deltas and
\* apply_wait_recovery_deltas).
THEOREM ReconciliationExact == Spec => ReconciledWhenDue
  <1> DEFINE Exact(p) == \A i \in DOMAIN executions : executions[i].status \notin Terminal =>
                 (executions'[i].status = "EXPIRED" <=> age' >= executions[i].deadline)
  <1>1. ASSUME IInv, NEW p \in plan, Reconcile(p), p.seen = executions
        PROVE  Exact(p)
    <2>1. /\ p.due = {i \in DOMAIN executions : executions[i].status \notin Terminal
                                                  /\ p.age >= executions[i].deadline}
          /\ age' = p.age
      BY <1>1 DEF IInv, PlanExact, Reconcile
    <2>2. Applied(p.due) = p.due
      BY <2>1 DEF Applied
    <2>3. Finalize(p.due, "EXPIRED") /\ "EXPIRED" \in Terminal
      BY <1>1, <2>2 DEF Reconcile, Terminal
    <2>4. \A i \in DOMAIN executions :
              IF i \in p.due /\ executions[i].status \notin Terminal
              THEN executions'[i].status = "EXPIRED"
              ELSE executions'[i] = executions[i]
      BY <1>1, <2>1, <2>3, FinalizeKeeps DEF IInv
    <2>5. "EXPIRED" \in Terminal
      BY DEF Terminal
    <2> QED BY <2>1, <2>4, <2>5
  <1>2. IInv /\ [Next]_vars => [\A p \in plan : (Reconcile(p) /\ p.seen = executions) => Exact(p)]_vars
    BY <1>1
  <1> QED BY <1>2, Invariance, PTL DEF Spec, ReconciledWhenDue

\* A granted wait is none its key is suppressed for: what stands in the way of every
\* ended wait of that key is the suppression at its mark.
LEMMA GrantIsNew ==
    ASSUME IInv, SuppInv, NEW r \in Recurrences, Grant(r),
           NEW i \in DOMAIN executions' \ DOMAIN executions, NEW k \in DOMAIN executions,
           executions[k].key = executions'[i].key, executions[k].status \in Terminal,
           age < executions[k].deadline + Suppress
    PROVE  recorded - executions[k].mark >= MaxSuppressions
  <1> DEFINE new == [key |-> KeyOf(r), window |-> expectation[r].window, started |-> age,
                     deadline |-> Deadline(age, expectation[r].window),
                     status |-> "ACTIVE", mark |-> 0]
  <1>1. /\ executions' = Append(executions, new) /\ new.key = KeyOf(r)
        /\ ~Suppressed(KeyOf(r), age)
    BY DEF Grant, Inadmissible
  <1> HIDE DEF new
  <1>2. executions \in Seq(Execution)
    BY DEF IInv
  <1>3. executions'[i] = new
    BY <1>1, <1>2
  <1>4. executions[k].key = KeyOf(r)
    BY <1>1, <1>3
  <1>5. Marked(k)
    BY DEF SuppInv
  <1>6. executions[k].mark \in Nat /\ recorded \in Nat /\ MaxSuppressions \in Nat
    BY <1>5, WaitAssumption DEF Marked, IInv
  <1>7. CASE recorded - executions[k].mark < MaxSuppressions
    <2>1. PICK d : d = Back(recorded - executions[k].mark)
      OBVIOUS
    <2>2. /\ d \in DOMAIN suppressions /\ suppressions[d].key = KeyOf(r)
          /\ age < suppressions[d].until
      BY <1>4, <1>5, <1>7, <2>1 DEF Marked
    <2> QED BY <1>1, <2>2 DEF Suppressed
  <1> QED BY <1>6, <1>7

\* An ended wait is not begun again while its suppression is among the latest
\* MaxSuppressions (wait_execution.py, is_suppressed; governance.py,
\* _validate_wait_admission).
THEOREM NoReentryKept == Spec => NoReentry
  <1> DEFINE Fresh == SameSession =>
                 \A i \in DOMAIN executions' \ DOMAIN executions, k \in DOMAIN executions :
                     (/\ executions[k].key = executions'[i].key
                      /\ executions[k].status \in Terminal
                      /\ age < executions[k].deadline + Suppress)
                     => recorded - executions[k].mark >= MaxSuppressions
  <1>1. IInv /\ SuppInv /\ [Next]_vars => [Fresh]_vars
    <2> SUFFICES ASSUME IInv, SuppInv, Next, SameSession PROVE Fresh
      OBVIOUS
    <2>1. ASSUME NEW r \in Recurrences, Grant(r) PROVE Fresh
      BY <2>1, GrantIsNew
    <2>2. ASSUME DOMAIN executions' = DOMAIN executions PROVE Fresh
      BY <2>2
    <2>3. ASSUME NEW i \in DOMAIN executions, Occurs(i) \/ Interrupt(i) PROVE Fresh
      <3>1. PICK status \in Terminal : Finalize({i}, status)
        BY <2>3 DEF Occurs, Interrupt, Terminal
      <3> QED BY <2>2, <3>1, FinalizeKeeps DEF IInv
    <2>4. ASSUME NEW p \in plan, Reconcile(p) PROVE Fresh
      <3>1. Finalize(Applied(p.due), "EXPIRED") /\ "EXPIRED" \in Terminal
        BY <2>4 DEF Reconcile, Terminal
      <3> QED BY <2>2, <3>1, AppliedKnown, FinalizeKeeps DEF IInv
    <2>5. CASE Restart
      <3>1. restarts \in Nat /\ restarts' = restarts + 1 /\ restarts' = restarts
        BY <2>5 DEF IInv, Restart, SameSession
      <3> QED BY <3>1
    <2>6. ASSUME executions' = executions PROVE Fresh
      BY <2>2, <2>6
    <2> QED BY <2>1, <2>3, <2>4, <2>5, <2>6 DEF Next, Refuse, Revise, Tick, Prepare
  <1> QED BY <1>1, Suppressions, PTL DEF Spec, NoReentry

\* The journal stays within its caps, and what it keeps is well formed.
THEOREM JournalTyped == Spec => []TypeOK
  <1>1. IInv /\ SuppInv => TypeOK
    <2>1. Min2(recorded, MaxSuppressions) <= MaxSuppressions \/ ~(recorded \in Nat)
      BY WaitAssumption DEF Min2
    <2> QED BY <2>1 DEF IInv, SuppInv, TypeOK
  <1> QED BY <1>1, Suppressions, PTL

-----------------------------------------------------------------------------
(* What governance and the journal promise *)

\* A plan is for an age that has not passed, and every wait it names is due by then in
\* the journal as it is now.
PlanStands ==
    \A p \in plan : age <= p.age /\ \A i \in p.due : executions[i].deadline <= p.age

\* The abstract specification counts as this one does.
LEMMA SameSize == ASSUME NEW S PROVE Promise!Cardinality(S) = Cardinality(S)
  BY Zenon DEF Promise!Cardinality, Cardinality

\* Finalize ends the waits of S that are open, and each leaves a record of its own.
LEMMA FinalizeEnds ==
    ASSUME IInv, NEW S \in SUBSET DOMAIN executions, NEW status \in Terminal,
           Finalize(S, status)
    PROVE  Promise!End({i \in S : executions[i].status \notin Terminal}, status)
  <1> DEFINE ending == {i \in S : executions[i].status \notin Terminal}
             list   == [n \in 1..Cardinality(ending) |-> Suppressing(Ranked(n, ending))]
  <1>1. /\ executions' = [i \in DOMAIN executions |->
               IF i \in ending
               THEN [executions[i] EXCEPT !.status = status, !.mark = recorded + Rank(i, ending)]
               ELSE executions[i]]
        /\ Record(list)
    BY DEF Finalize, EndAll
  <1>2. /\ DOMAIN executions = 1..Len(executions) /\ Len(executions) \in Nat
        /\ \A i \in DOMAIN executions : executions[i] \in Execution
        /\ recorded \in Nat
    BY DEF IInv
  <1>3. ending \subseteq DOMAIN executions /\ ending \subseteq Nat /\ IsFiniteSet(ending)
    <2>1. ending \subseteq DOMAIN executions
      OBVIOUS
    <2>2. IsFiniteSet(DOMAIN executions)
      BY <1>2, FS_Interval
    <2> HIDE DEF ending
    <2> QED BY <1>2, <2>1, <2>2, FS_Subset
  <1>4. \A i \in ending : executions[i].status = "ACTIVE"
    BY <1>2, <1>3 DEF Execution
  <1> HIDE DEF ending
  <1>5. Cardinality(ending) \in Nat
    BY <1>3, FS_CardinalityType
  <1>6. Len(list) = Cardinality(ending)
    BY <1>5
  <1> HIDE DEF list
  <1>7. recorded' = recorded + Cardinality(ending)
    BY <1>1, <1>6 DEF Record
  <1>8. /\ DOMAIN executions' = DOMAIN executions
        /\ \A i \in DOMAIN executions \ ending : executions'[i] = executions[i]
    BY <1>1
  <1>9. ASSUME NEW i \in ending
        PROVE  \E n \in (recorded + 1)..recorded' :
                   executions'[i] = [executions[i] EXCEPT !.status = status, !.mark = n]
    <2>1. Rank(i, ending) \in 1..Cardinality(ending)
      BY <1>3, RankedFinds
    <2>2. recorded + Rank(i, ending) \in (recorded + 1)..recorded'
      BY <1>2, <1>5, <1>7, <2>1
    <2>3. executions'[i] = [executions[i] EXCEPT !.status = status,
                                                 !.mark = recorded + Rank(i, ending)]
      BY <1>1, <1>3
    <2> QED BY <2>2, <2>3
  <1>10. \A i \in ending :
             /\ Promise!Open(i)
             /\ \E n \in (recorded + 1)..recorded' :
                    executions'[i] = [executions[i] EXCEPT !.status = status, !.mark = n]
    BY <1>4, <1>9 DEF Promise!Open
  <1>11. Promise!End(ending, status)
    BY ONLY <1>7, <1>8, <1>10, SameSize, Zenon DEF Promise!End
  <1> QED BY <1>11 DEF ending

\* A wait that ends keeps its deadline.
LEMMA DeadlineKept ==
    ASSUME IInv, NEW S \in SUBSET DOMAIN executions, NEW status \in Terminal,
           Finalize(S, status)
    PROVE  \A i \in DOMAIN executions : executions'[i].deadline = executions[i].deadline
  <1> PICK T : T = {i \in S : executions[i].status \notin Terminal}
    OBVIOUS
  <1>1. Promise!End(T, status)
    BY FinalizeEnds
  <1>2. ASSUME NEW i \in DOMAIN executions
        PROVE  executions'[i].deadline = executions[i].deadline
    <2>1. executions[i] \in Execution
      BY DEF IInv
    <2>2. CASE i \in T
      <3>1. PICK n : executions'[i] = [executions[i] EXCEPT !.status = status, !.mark = n]
        BY <1>1, <2>2 DEF Promise!End
      <3> QED BY <2>1, <3>1 DEF Execution
    <2>3. CASE i \notin T
      BY <1>1, <2>3 DEF Promise!End
    <2> QED BY <2>2, <2>3
  <1> QED BY <1>2

\* A wait that is open has no outcome, and one that is not has one.
LEMMA OpenOrEnded ==
    ASSUME IInv, NEW i \in DOMAIN executions
    PROVE  /\ executions[i].status = "ACTIVE" <=> executions[i].status \notin Terminal
           /\ executions[i].mark \in Nat
  <1>1. executions[i] \in Execution
    BY DEF IInv
  <1> QED BY <1>1 DEF Execution, Terminal

\* If no wait ends, all stay as they are.
LEMMA NoneEnds ==
    ASSUME IInv, IInv', NEW status
    PROVE  Promise!End({}, status) <=> UNCHANGED <<executions, recorded>>
  <1>1. executions \in Seq(Execution) /\ executions' \in Seq(Execution) /\ recorded \in Nat
    BY DEF IInv
  <1>2. Cardinality({}) = 0
    BY FS_EmptySet
  <1>3. ASSUME Promise!End({}, status) PROVE UNCHANGED <<executions, recorded>>
    <2>1. /\ recorded' = recorded /\ DOMAIN executions' = DOMAIN executions
          /\ \A k \in DOMAIN executions : executions'[k] = executions[k]
      BY <1>1, <1>2, <1>3, SameSize DEF Promise!End
    <2> QED BY <1>1, <2>1
  <1>4. ASSUME UNCHANGED <<executions, recorded>> PROVE Promise!End({}, status)
    <2>1. recorded' = recorded + Cardinality({})
      BY <1>1, <1>2, <1>4
    <2>2. executions' = executions
      BY <1>4
    <2> QED BY ONLY <2>1, <2>2, SameSize, Zenon DEF Promise!End
  <1> QED BY <1>3, <1>4

LEMMA StepPlanStands == IInv /\ PlanStands /\ [Next]_vars => PlanStands'
  <1> SUFFICES ASSUME IInv, PlanStands, [Next]_vars PROVE PlanStands'
    OBVIOUS
  <1>1. ASSUME plan' = {} PROVE PlanStands'
    BY <1>1 DEF PlanStands
  <1>2. ASSUME plan' = plan, age' = age,
               \A i \in DOMAIN executions : executions'[i].deadline = executions[i].deadline
        PROVE  PlanStands'
    BY <1>2 DEF PlanStands, IInv, PlanKnown
  <1>3. ASSUME NEW r \in Recurrences, Refuse(r) \/ Revise(r) PROVE PlanStands'
    BY <1>2, <1>3 DEF Refuse, Revise
  <1>4. ASSUME NEW r \in Recurrences, Grant(r) PROVE PlanStands'
    BY <1>2, <1>4, GrantKeeps DEF Grant
  <1>5. ASSUME NEW i \in DOMAIN executions, Occurs(i) \/ Interrupt(i) PROVE PlanStands'
    <2>1. PICK status \in Terminal : Finalize({i}, status)
      BY <1>5 DEF Occurs, Interrupt, Terminal
    <2>2. plan' = plan /\ age' = age
      BY <1>5 DEF Occurs, Interrupt
    <2> QED BY <1>2, <2>1, <2>2, DeadlineKept
  <1>6. ASSUME NEW gap \in 0..MaxAge, Prepare(gap) PROVE PlanStands'
    <2>1. /\ plan' = {[age |-> age + gap, due |-> Due(age + gap), seen |-> executions]}
          /\ executions' = executions /\ age' = age
      BY <1>6 DEF Prepare
    <2>2. age \in Nat /\ gap \in Nat /\ \A i \in DOMAIN executions : executions[i] \in Execution
      BY WaitAssumption DEF IInv
    <2>3. \A i \in Due(age + gap) : executions[i].deadline <= age + gap
      BY <2>2 DEF Due, Execution
    <2> QED BY <2>1, <2>2, <2>3 DEF PlanStands
  <1>7. CASE Tick \/ (\E p \in plan : Reconcile(p)) \/ Restart
    BY <1>1, <1>7 DEF Tick, Reconcile, Restart
  <1>8. CASE UNCHANGED vars
    BY <1>2, <1>8 DEF vars
  <1> QED BY <1>3, <1>4, <1>5, <1>6, <1>7, <1>8 DEF Next

LEMMA PlansStand == Spec => [](IInv /\ SuppInv /\ PlanStands)
  <1>1. Init => PlanStands
    BY DEF Init, PlanStands
  <1> QED BY <1>1, StepPlanStands, Suppressions, PTL DEF Spec

\* A granted wait is one that may begin.
LEMMA GrantBegins ==
    ASSUME IInv, SuppInv, NEW r \in Recurrences, Grant(r)
    PROVE  Promise!Begin
  <1> DEFINE w   == expectation[r].window
             new == [key |-> KeyOf(r), window |-> w, started |-> age,
                     deadline |-> Deadline(age, w), status |-> "ACTIVE", mark |-> 0]
  <1>1. /\ executions' = Append(executions, new) /\ age' = age /\ recorded' = recorded
        /\ Within(age, w)
    BY DEF Grant, Inadmissible
  <1>2. executions \in Seq(Execution) /\ age \in Nat /\ MaxWait \in Nat
    BY WaitAssumption DEF IInv
  <1>3. w.from \in Nat /\ w.until \in Nat
    BY KeyTyped
  <1>4. /\ w.from <= age /\ age <= Deadline(age, w)
        /\ Deadline(age, w) <= w.until /\ Deadline(age, w) <= age + MaxWait
    <2> HIDE DEF w
    <2> QED BY <1>1, <1>2, <1>3 DEF Within, Deadline, Min2
  <1>5. /\ new.status = "ACTIVE" /\ new.window.from <= age /\ age <= new.deadline
        /\ new.deadline <= new.window.until /\ new.deadline <= age + MaxWait
    BY <1>4
  <1> HIDE DEF w, new
  <1>6. PICK n : n = Len(executions) + 1
    OBVIOUS
  <1>7. /\ Len(executions') = n /\ executions'[n] = new
        /\ n \in DOMAIN executions' \ DOMAIN executions
    BY <1>1, <1>2, <1>6
  <1>8. ~Promise!Barred(new.key)
    <2> SUFFICES ASSUME NEW k \in DOMAIN executions, executions[k].key = new.key,
                        executions[k].status # "ACTIVE",
                        recorded - executions[k].mark < MaxSuppressions,
                        age < executions[k].deadline + Suppress
                 PROVE  FALSE
      BY DEF Promise!Barred, Promise!Open
    <2>1. executions[k].status \in Terminal
      BY OpenOrEnded
    <2>2. executions[k].mark \in Nat /\ recorded \in Nat /\ MaxSuppressions \in Nat
      BY OpenOrEnded, WaitAssumption DEF IInv
    <2>3. recorded - executions[k].mark >= MaxSuppressions
      BY <1>7, <2>1, GrantIsNew
    <2> QED BY <2>2, <2>3
  <1> QED BY <1>1, <1>5, <1>6, <1>7, <1>8 DEF Promise!Begin

\* Every step of governance and journal is one that was promised, or none.
LEMMA StepImplements ==
    ASSUME IInv, IInv', SuppInv, PlanStands, [Next]_vars
    PROVE  [Promise!WaitNext]_Promise!waitVars
  <1>1. age \in Nat /\ age' \in Nat
    BY DEF IInv
  <1>2. ASSUME UNCHANGED <<age, executions, recorded>>
        PROVE  UNCHANGED Promise!waitVars
    BY <1>2 DEF Promise!waitVars
  <1>3. ASSUME NEW r \in Recurrences, Grant(r) PROVE Promise!WaitNext
    BY <1>3, GrantBegins DEF Promise!WaitNext
  <1>4. ASSUME NEW r \in Recurrences, Refuse(r) PROVE Promise!WaitNext
    <2>1. recorded' = recorded + 1 /\ age' = age /\ executions' = executions
      BY <1>4 DEF Refuse, Record
    <2> QED BY <2>1 DEF Promise!WaitNext, Promise!Refuse
  <1>5. ASSUME NEW i \in DOMAIN executions, Occurs(i) PROVE Promise!WaitNext
    <2>1. {i} = {k \in {i} : executions[k].status \notin Terminal}
      BY <1>5 DEF Occurs
    <2>2. Promise!End({i}, "OBSERVED")
      BY <1>5, <2>1, FinalizeEnds DEF Occurs, Terminal
    <2>3. Promise!Observe(i)
      BY <1>5, <2>2 DEF Occurs, Within, Promise!Observe
    <2> QED BY <2>3 DEF Promise!WaitNext
  <1>6. ASSUME NEW i \in DOMAIN executions, Interrupt(i)
        PROVE  [Promise!WaitNext]_Promise!waitVars
    <2>1. PICK T : T = {k \in {i} : executions[k].status \notin Terminal}
      OBVIOUS
    <2>2. Promise!End(T, "INTERRUPTED") /\ age' = age
      BY <1>6, <2>1, FinalizeEnds DEF Interrupt, Terminal
    <2>3. CASE executions[i].status \notin Terminal
      <3>1. T = {i}
        BY <2>1, <2>3
      <3>2. Promise!Interrupt(i)
        BY <2>2, <3>1 DEF Promise!Interrupt
      <3> QED BY <3>2 DEF Promise!WaitNext
    <2>4. CASE executions[i].status \in Terminal
      <3>1. T = {}
        BY <2>1, <2>4
      <3> QED BY <1>2, <2>2, <3>1, NoneEnds
    <2> QED BY <2>3, <2>4
  <1>7. CASE Tick
    <2>1. age' = age + 1 /\ executions' = executions /\ recorded' = recorded
      BY <1>7 DEF Tick
    <2>2. Promise!End({}, "EXPIRED")
      BY <2>1, NoneEnds
    <2>3. Promise!Pass
      BY <1>1, <2>1, <2>2 DEF Promise!Pass
    <2> QED BY <2>3 DEF Promise!WaitNext
  <1>8. ASSUME NEW p \in plan, Reconcile(p) PROVE Promise!WaitNext
    <2>1. PICK T : T = {k \in Applied(p.due) : executions[k].status \notin Terminal}
      OBVIOUS
    <2>2. Promise!End(T, "EXPIRED") /\ age' = p.age
      BY <1>8, <2>1, AppliedKnown, FinalizeEnds DEF Reconcile, Terminal
    <2>3. T \in SUBSET {i \in DOMAIN executions : executions[i].deadline <= age'}
      BY <2>1, <2>2, AppliedKnown DEF PlanStands, Applied
    <2>4. age' >= age
      BY <1>1, <2>2 DEF PlanStands
    <2>5. Promise!Pass
      BY <2>2, <2>3, <2>4 DEF Promise!Pass
    <2> QED BY <2>5 DEF Promise!WaitNext
  <1>9. CASE Restart
    BY <1>9 DEF Restart, Promise!WaitNext, Promise!Forget
  <1>10. CASE (\E r \in Recurrences : Revise(r)) \/ (\E gap \in 0..MaxAge : Prepare(gap))
              \/ UNCHANGED vars
    BY <1>2, <1>10 DEF Revise, Prepare, vars
  <1> QED BY <1>3, <1>4, <1>5, <1>6, <1>7, <1>8, <1>9, <1>10 DEF Next

\* Governance and the journal keep the promise of Waits: a wait begins in its window
\* unless an ended one of its key bars it, ends once, is observed in its window only
\* and expires when it is due (governance.py, _validate_wait_admission;
\* wait_execution.py, WaitJournal and apply_wait_recovery_deltas).
THEOREM WaitsAsPromised == Spec => ImplementsWaits
  <1>1. Init => Promise!WaitInit
    BY DEF Init, Promise!WaitInit
  <1>2. IInv /\ IInv' /\ SuppInv /\ PlanStands /\ [Next]_vars
            => [Promise!WaitNext]_Promise!waitVars
    BY StepImplements
  <1> QED BY <1>1, <1>2, PlansStand, PTL DEF Spec, ImplementsWaits, Promise!WaitSpec
=============================================================================
