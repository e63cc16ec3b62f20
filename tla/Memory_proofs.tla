---------------------------- MODULE Memory_proofs ----------------------------
(***************************************************************************)
(* Proofs about the beliefs and the caps of Memory, for every number of    *)
(* rules, episodes and cycles and all caps.                                *)
(*                                                                         *)
(* What is claimed of beliefs is claimed of a table of beliefs beside a    *)
(* list of episodes (TableOK), because an eviction works on a table that   *)
(* has not been installed yet, and forgetting on a list that has grown.    *)
(* The caps (CapInv) need the counting of the library's finite sets: what  *)
(* leaves is enough, and the newest of a set are few.                      *)
(***************************************************************************)
EXTENDS Memory, FiniteSetTheorems, WellFoundedInduction, TLAPS

\* The strongest a belief may be that rests on n episodes.
Most(n) == IF n = 1 THEN 250 ELSE 350 + 120 * n

\* Episode i is an original that shows p, or shows something else.
ShowsIt(list, i, p)    == list[i].shows = p /\ list[i].of = 0
ShowsOther(list, i, p) == list[i].shows # p /\ list[i].of = 0

BeliefOK(b, p, list) ==
    /\ b \in Belief
    /\ b.support \subseteq 1..Len(list) /\ b.against \subseteq 1..Len(list)
    /\ b.status # "NONE" =>
        /\ b.support # {}
        /\ b.confidence <= Most(Cardinality(b.support))
        /\ \A i \in b.support : ShowsIt(list, i, p)
        /\ \A i \in b.against : ShowsOther(list, i, p)

TableOK(table, list) ==
    /\ table \in [Propositions -> Belief]
    /\ \A p \in Propositions : BeliefOK(table[p], p, list)
    /\ Held(table) # {} => Standing(table) # {}

IInv ==
    /\ episodes \in Seq(Episode)
    /\ active \subseteq 1..Len(episodes)
    /\ archived \subseteq 1..Len(episodes)
    /\ TableOK(beliefs, episodes)

-----------------------------------------------------------------------------
(* Supports are finite, and grow by one *)

LEMMA SupportFinite ==
    ASSUME NEW n \in Nat, NEW S, S \subseteq 1..n
    PROVE  IsFiniteSet(S) /\ Cardinality(S) \in Nat /\ (S # {} => Cardinality(S) >= 1)
  <1>1. IsFiniteSet(1..n)
    BY FS_Interval
  <1>2. IsFiniteSet(S)
    BY <1>1, FS_Subset
  <1>3. Cardinality(S) \in Nat
    BY <1>2, FS_CardinalityType
  <1>4. S # {} => Cardinality(S) # 0
    BY <1>2, FS_EmptySet
  <1> QED BY <1>2, <1>3, <1>4

LEMMA SupportGrows ==
    ASSUME NEW n \in Nat, NEW S, S \subseteq 1..n, NEW i \in 1..n, i \notin S
    PROVE  Cardinality(S \cup {i}) = Cardinality(S) + 1
  BY SupportFinite, FS_AddElement

\* Clamp stays in its range and never raises what is not negative.
LEMMA ClampBounds ==
    ASSUME NEW n \in Int
    PROVE  Clamp(n) \in Confidence /\ (n >= 0 => Clamp(n) <= n)
  BY DEF Clamp, Confidence

-----------------------------------------------------------------------------
(* What happens to tables *)

\* A longer list of episodes.
LEMMA TableExtends ==
    ASSUME NEW table, NEW list \in Seq(Episode), NEW e \in Episode, TableOK(table, list)
    PROVE  TableOK(table, Append(list, e))
  <1> DEFINE more == Append(list, e)
  <1>1. Len(more) = Len(list) + 1 /\ Len(list) \in Nat
    OBVIOUS
  <1>2. \A i \in 1..Len(list) : more[i] = list[i]
    OBVIOUS
  <1>3. ASSUME NEW p \in Propositions PROVE BeliefOK(table[p], p, more)
    <2>1. BeliefOK(table[p], p, list)
      BY DEF TableOK
    <2>2. table[p].support \subseteq 1..Len(more) /\ table[p].against \subseteq 1..Len(more)
      BY <1>1, <2>1 DEF BeliefOK
    <2> HIDE DEF more
    <2> QED BY <1>2, <2>1, <2>2 DEF BeliefOK, ShowsIt, ShowsOther
  <1> QED BY <1>3 DEF TableOK

\* Less confidence does no harm.
MayLose(b, p, list, c) ==
    /\ list \in Seq(Episode) /\ c \in Confidence
    /\ BeliefOK(b, p, list) /\ c <= b.confidence

LEMMA LessConfident ==
    ASSUME NEW list, NEW p, NEW b, NEW c, MayLose(b, p, list, c)
    PROVE  BeliefOK([b EXCEPT !.confidence = c], p, list)
  <1>0. /\ list \in Seq(Episode) /\ c \in Confidence /\ BeliefOK(b, p, list)
        /\ c <= b.confidence
    BY DEF MayLose
  <1>1. b \in Belief /\ b.support \subseteq 1..Len(list) /\ Len(list) \in Nat
    BY <1>0 DEF BeliefOK
  <1>2. PICK less : less = [b EXCEPT !.confidence = c]
    OBVIOUS
  <1>3. less = [status |-> b.status, support |-> b.support, against |-> b.against,
                confidence |-> c]
    BY <1>1, <1>2 DEF Belief
  <1>4. /\ less \in Belief /\ less.status = b.status /\ less.support = b.support
        /\ less.against = b.against /\ less.confidence = c
    BY <1>0, <1>1, <1>3 DEF Belief
  <1>5. PICK k \in Nat, m \in Int, x \in Int :
            k = Cardinality(b.support) /\ m = Most(k) /\ x = b.confidence
    <2>1. Cardinality(b.support) \in Nat
      BY <1>1, SupportFinite
    <2>2. \A k \in Nat : Most(k) \in Int
      BY DEF Most
    <2>3. b.confidence \in Confidence
      BY <1>1 DEF Belief
    <2>4. b.confidence \in Int
      BY ONLY <2>3 DEF Confidence
    <2> QED BY ONLY <2>1, <2>2, <2>4, Zenon
  <1>6. x <= m => c <= m
    <2>1. c \in Int /\ c <= x
      BY <1>0, <1>5 DEF Confidence
    <2> QED BY ONLY <2>1, m \in Int, x \in Int
  <1>7. BeliefOK(less, p, list)
    BY <1>0, <1>4, <1>5, <1>6 DEF BeliefOK
  <1> QED BY <1>2, <1>7

\* Decay takes nothing but confidence.
LEMMA TableDecays ==
    ASSUME NEW list \in Seq(Episode), NEW table, TableOK(table, list)
    PROVE  TableOK(Decayed(table), list)
  <1> DEFINE later == Decayed(table)
  <1>1. ASSUME NEW p \in Propositions
        PROVE  BeliefOK(later[p], p, list) /\ later[p].status = table[p].status
    <2>1. BeliefOK(table[p], p, list) /\ table[p] \in Belief
      BY DEF TableOK, BeliefOK
    <2>2. CASE table[p].status # "ACTIVE"
      BY <2>1, <2>2 DEF Decayed
    <2>3. CASE table[p].status = "ACTIVE"
      <3>0. table[p].confidence \in Confidence
        BY <2>1 DEF Belief
      <3>1. PICK x \in Confidence : x = table[p].confidence
        BY ONLY <3>0
      <3>2. PICK c \in Confidence : c = Clamp(x - 4) /\ c <= x
        <4>1. Clamp(x - 4) \in Confidence /\ Clamp(x - 4) <= x
          BY ONLY x \in Confidence DEF Clamp, Confidence
        <4> QED BY ONLY <4>1
      <3>3. later[p] = [table[p] EXCEPT !.confidence = c]
        <4>1. later[p] = [table[p] EXCEPT !.confidence = Clamp(table[p].confidence - 4)]
          BY <2>3 DEF Decayed
        <4> QED BY ONLY <3>1, <3>2, <4>1, Zenon
      <3>4. BeliefOK(later[p], p, list)
        <4>1. MayLose(table[p], p, list, c)
          BY <2>1, <3>1, <3>2 DEF MayLose
        <4>2. BeliefOK([table[p] EXCEPT !.confidence = c], p, list)
          BY ONLY <4>1, LessConfident
        <4> QED BY ONLY <3>3, <4>2
      <3>5. later[p].status = table[p].status
        BY <2>1, <3>3 DEF Belief
      <3> QED BY <3>4, <3>5
    <2> QED BY <2>2, <2>3
  <1>2. later \in [Propositions -> Belief]
    <2>1. \A p \in Propositions : later[p] \in Belief
      BY <1>1 DEF BeliefOK
    <2>2. later = [p \in Propositions |-> later[p]]
      BY DEF Decayed
    <2> HIDE DEF later
    <2> QED BY <2>1, <2>2
  <1>3. Held(later) = Held(table) /\ Standing(later) = Standing(table)
    <2> HIDE DEF later
    <2> QED BY <1>1 DEF Held, Standing
  <1> QED BY <1>1, <1>2, <1>3 DEF TableOK

\* Eviction spares what stands as long as something else can go, and never
\* takes all.
LEMMA TableEvicts ==
    ASSUME NEW list \in Seq(Episode), NEW p \in Propositions,
           NEW table \in [Propositions -> Belief],
           \A q \in Propositions : BeliefOK(table[q], q, list),
           table[p].status = "ACTIVE",
           NEW new \in Evicted(table)
    PROVE  TableOK(new, list)
  <1>1. p \in Standing(table) /\ p \in Held(table)
    BY DEF Standing, Held
  <1>2. CASE new = table
    BY <1>1, <1>2 DEF TableOK
  <1>3. CASE new # table
    <2>1. Cardinality(Held(table)) > MaxBeliefs \/ ~(Cardinality(Held(table)) <= MaxBeliefs)
      BY <1>3 DEF Evicted
    <2>2. ~(Cardinality(Held(table)) <= MaxBeliefs)
      BY <1>3 DEF Evicted
    <2> DEFINE old  == Held(table) \ Standing(table)
               pool == IF old # {} THEN old ELSE Held(table)
    <2>3. PICK q \in pool : new = [table EXCEPT ![q] = NoBelief]
      BY <2>2 DEF Evicted
    <2>4. q \in Held(table) /\ q \in Propositions
      BY <2>3 DEF Held, Standing
    <2>5. NoBelief \in Belief /\ NoBelief.status = "NONE" /\ NoBelief.support = {}
          /\ NoBelief.against = {}
      BY DEF Confidence, NoBelief, Belief, Statuses
    <2>6. new \in [Propositions -> Belief]
      BY <2>3, <2>5
    <2>7. \A r \in Propositions : r # q => new[r] = table[r]
      BY <2>3
    <2>8. new[q] = NoBelief
      BY <2>3, <2>4
    <2>9. \A r \in Propositions : BeliefOK(new[r], r, list)
      <3>1. BeliefOK(NoBelief, q, list)
        BY <2>5 DEF BeliefOK
      <3> QED BY <3>1, <2>7, <2>8
    <2>10. Held(new) # {} => Standing(new) # {}
      <3>1. CASE old # {}
        <4>1. q \notin Standing(table)
          BY <2>3, <3>1
        <4>2. p # q /\ new[p] = table[p]
          BY <4>1, <1>1, <2>7
        <4> QED BY <4>2, <1>1 DEF Standing, Held
      <3>2. CASE old = {}
        <4>1. \A r \in Held(new) : r # q /\ r \in Propositions /\ new[r] = table[r]
          BY <2>5, <2>7, <2>8 DEF Held
        <4>2. \A r \in Held(new) : r \in Held(table)
          BY <4>1 DEF Held
        <4>3. \A r \in Held(new) : r \in Standing(table)
          BY <4>2, <3>2
        <4> QED BY <4>1, <4>3 DEF Standing
      <3> QED BY <3>1, <3>2
    <2> QED BY <2>6, <2>9, <2>10 DEF TableOK
  <1> QED BY <1>2, <1>3

-----------------------------------------------------------------------------
(* What an episode does to a belief *)

\* A belief held, an episode, and a strength the belief may have with it: behind
\* one name each, so that the lemmas below are found.
MayBack(b, p, list, i, c, s) ==
    /\ list \in Seq(Episode) /\ i \in 1..Len(list) /\ c \in Confidence /\ s \in Statuses
    /\ BeliefOK(b, p, list) /\ b.status # "NONE"
    /\ i \notin b.support /\ ShowsIt(list, i, p)
    /\ c <= Most(Cardinality(b.support) + 1)
MayOppose(b, p, list, i, c, s) ==
    /\ list \in Seq(Episode) /\ i \in 1..Len(list) /\ c \in Confidence /\ s \in Statuses
    /\ BeliefOK(b, p, list) /\ b.status # "NONE"
    /\ ShowsOther(list, i, p)
    /\ c <= Most(Cardinality(b.support))

\* A belief that rests on one more episode.
LEMMA BackedKeeps ==
    ASSUME NEW list, NEW p, NEW b, NEW i, NEW c, NEW s, MayBack(b, p, list, i, c, s)
    PROVE  BeliefOK(Backed(b, i, c, s), p, list)
  <1>0. /\ list \in Seq(Episode) /\ i \in 1..Len(list) /\ c \in Confidence /\ s \in Statuses
        /\ BeliefOK(b, p, list) /\ b.status # "NONE"
        /\ i \notin b.support /\ ShowsIt(list, i, p)
        /\ c <= Most(Cardinality(b.support) + 1)
    BY DEF MayBack
  <1>1. /\ Len(list) \in Nat /\ i \in Nat /\ b \in Belief
        /\ b.support \subseteq 1..Len(list) /\ b.against \subseteq 1..Len(list)
    BY <1>0 DEF BeliefOK
  <1>2. PICK new : new = Backed(b, i, c, s)
    OBVIOUS
  <1>3. b.support \cup {i} \in SUBSET Nat
    BY <1>1 DEF Belief
  <1>4. new = [status |-> s, support |-> b.support \cup {i}, against |-> b.against,
               confidence |-> c]
    BY <1>2 DEF Backed
  <1>5. /\ new \in Belief /\ new.status = s
        /\ new.support = b.support \cup {i} /\ new.against = b.against
        /\ new.confidence = c
    BY <1>0, <1>1, <1>3, <1>4 DEF Belief
  <1>6. Cardinality(new.support) = Cardinality(b.support) + 1
    BY <1>0, <1>1, <1>5, SupportGrows
  <1>7. new.support \subseteq 1..Len(list) /\ new.against \subseteq 1..Len(list)
    BY <1>0, <1>1, <1>5
  <1>8. \A k \in new.support : ShowsIt(list, k, p)
    BY <1>0, <1>5 DEF BeliefOK
  <1>9. \A k \in new.against : ShowsOther(list, k, p)
    BY <1>0, <1>5 DEF BeliefOK
  <1>10. new.confidence <= Most(Cardinality(new.support)) /\ new.support # {}
    BY <1>0, <1>5, <1>6
  <1>11. BeliefOK(new, p, list)
    BY <1>5, <1>7, <1>8, <1>9, <1>10 DEF BeliefOK
  <1> QED BY <1>2, <1>5, <1>11

\* A belief that one more episode speaks against.
LEMMA OpposedKeeps ==
    ASSUME NEW list, NEW p, NEW b, NEW i, NEW c, NEW s, MayOppose(b, p, list, i, c, s)
    PROVE  BeliefOK(Opposed(b, i, c, s), p, list)
  <1>0. /\ list \in Seq(Episode) /\ i \in 1..Len(list) /\ c \in Confidence /\ s \in Statuses
        /\ BeliefOK(b, p, list) /\ b.status # "NONE"
        /\ ShowsOther(list, i, p)
        /\ c <= Most(Cardinality(b.support))
    BY DEF MayOppose
  <1>1. /\ Len(list) \in Nat /\ i \in Nat /\ b \in Belief
        /\ b.support \subseteq 1..Len(list) /\ b.against \subseteq 1..Len(list)
    BY <1>0 DEF BeliefOK
  <1>2. PICK new : new = Opposed(b, i, c, s)
    OBVIOUS
  <1>3. b.against \cup {i} \in SUBSET Nat
    BY <1>1 DEF Belief
  <1>4. new = [status |-> s, support |-> b.support, against |-> b.against \cup {i},
               confidence |-> c]
    BY <1>2 DEF Opposed
  <1>5. /\ new \in Belief
        /\ new.support = b.support /\ new.against = b.against \cup {i}
        /\ new.confidence = c
    BY <1>0, <1>1, <1>3, <1>4 DEF Belief
  <1>6. new.support \subseteq 1..Len(list) /\ new.against \subseteq 1..Len(list)
    BY <1>0, <1>1, <1>5
  <1>7. \A k \in new.support : ShowsIt(list, k, p)
    BY <1>0, <1>5 DEF BeliefOK
  <1>8. \A k \in new.against : ShowsOther(list, k, p)
    BY <1>0, <1>5 DEF BeliefOK
  <1>9. new.confidence <= Most(Cardinality(new.support)) /\ new.support # {}
    BY <1>0, <1>5 DEF BeliefOK
  <1>10. BeliefOK(new, p, list)
    BY <1>5, <1>6, <1>7, <1>8, <1>9 DEF BeliefOK
  <1> QED BY <1>2, <1>10

\* What is known of a proposition in which a belief is held.
HeldOK(p) ==
    /\ p \in Propositions /\ beliefs[p].status # "NONE" /\ beliefs[p] \in Belief
    /\ beliefs[p].confidence \in Confidence
    /\ BeliefOK(beliefs[p], p, episodes)
    /\ Cardinality(beliefs[p].support) \in Nat
    /\ Cardinality(beliefs[p].support) >= 1
    /\ beliefs[p].confidence <= Most(Cardinality(beliefs[p].support))

LEMMA HeldFacts ==
    ASSUME IInv, NEW p \in Held(beliefs)
    PROVE  HeldOK(p)
  <1>1. p \in Propositions /\ beliefs[p].status # "NONE" /\ BeliefOK(beliefs[p], p, episodes)
    BY DEF Held, IInv, TableOK
  <1>2. /\ Len(episodes) \in Nat
        /\ beliefs[p].support \subseteq 1..Len(episodes) /\ beliefs[p].support # {}
    BY <1>1 DEF BeliefOK, IInv
  <1>3. /\ Cardinality(beliefs[p].support) \in Nat
        /\ Cardinality(beliefs[p].support) >= 1
    BY <1>2, SupportFinite
  <1>4. /\ beliefs[p] \in Belief
        /\ beliefs[p].confidence <= Most(Cardinality(beliefs[p].support))
    BY <1>1 DEF BeliefOK
  <1>5. beliefs[p].confidence \in Confidence
    BY <1>4 DEF Belief
  <1> QED BY <1>1, <1>3, <1>4, <1>5 DEF HeldOK

-----------------------------------------------------------------------------
(* What an episode does to the table *)

\* The first episode for a proposition.
LEMMA SeededKeeps ==
    ASSUME IInv, NEW i \in 1..Len(episodes), NEW p \in Propositions,
           ShowsIt(episodes, i, p),
           NEW new \in Seeded(i, p)
    PROVE  TableOK(new, episodes)
  <1> DEFINE seed  == [status |-> "ACTIVE", support |-> {i}, against |-> {}, confidence |-> 250]
             table == [beliefs EXCEPT ![p] = seed]
  <1>1. Len(episodes) \in Nat /\ i \in Nat
    BY DEF IInv
  <1>2. seed \in Belief
    BY <1>1 DEF Confidence, Belief, Statuses
  <1>3. BeliefOK(seed, p, episodes)
    <2>1. Cardinality({i}) = 1
      BY FS_Singleton
    <2> QED BY <1>2, <2>1 DEF BeliefOK, Most
  <1>4. table \in [Propositions -> Belief]
    BY <1>2 DEF IInv, TableOK
  <1>5. table[p] = seed /\ \A q \in Propositions : q # p => table[q] = beliefs[q]
    BY DEF IInv, TableOK
  <1>6. \A q \in Propositions : BeliefOK(table[q], q, episodes)
    <2> HIDE DEF table, seed
    <2> QED BY <1>3, <1>5 DEF IInv, TableOK
  <1>7. table[p].status = "ACTIVE"
    BY <1>5
  <1>8. new \in Evicted(table) /\ episodes \in Seq(Episode)
    BY DEF Seeded, IInv
  <1> HIDE DEF table
  <1> QED BY <1>4, <1>6, <1>7, <1>8, TableEvicts

\* An episode that confirms the only belief there is.
LEMMA ConfirmedKeeps ==
    ASSUME IInv, NEW i \in 1..Len(episodes), NEW p \in Held(beliefs),
           ShowsIt(episodes, i, p), i \notin beliefs[p].support
    PROVE  TableOK(Confirmed(i, p), episodes)
  <1>1. PICK n, c, new :
            /\ n = Cardinality(beliefs[p].support) + 1
            /\ c = Clamp(350 + 120 * n)
            /\ new = Backed(beliefs[p], i, c, beliefs[p].status)
    OBVIOUS
  <1>2. PICK table : table = [beliefs EXCEPT ![p] = new]
    OBVIOUS
  <1>3. beliefs[p] \in Belief /\ BeliefOK(beliefs[p], p, episodes) /\ p \in Propositions
        /\ beliefs[p].status # "NONE" /\ n \in Nat /\ n >= 2
    <2>1. HeldOK(p)
      BY HeldFacts
    <2> QED BY <1>1, <2>1 DEF HeldOK
  <1>4. c \in Confidence /\ c <= Most(n)
    <2>1. Clamp(350 + 120 * n) \in Confidence /\ Clamp(350 + 120 * n) <= Most(n)
      BY ONLY <1>3 DEF Clamp, Most, Confidence
    <2> QED BY <1>1, <2>1, Zenon
  <1>5. beliefs[p].status \in Statuses /\ episodes \in Seq(Episode)
    BY <1>3 DEF Belief, IInv
  <1>6. BeliefOK(new, p, episodes) /\ new.status = beliefs[p].status
    <2>1. PICK b, s : b = beliefs[p] /\ s = beliefs[p].status
      OBVIOUS
    <2>2. MayBack(b, p, episodes, i, c, s)
      BY <1>1, <1>3, <1>4, <1>5, <2>1 DEF MayBack
    <2>3. BeliefOK(Backed(b, i, c, s), p, episodes)
      BY <2>2, BackedKeeps
    <2> QED BY <1>1, <2>1, <2>3 DEF Backed
  <1>7. /\ table \in [Propositions -> Belief] /\ table[p] = new
        /\ \A q \in Propositions : q # p => table[q] = beliefs[q]
    BY <1>2, <1>3, <1>6 DEF IInv, TableOK, BeliefOK
  <1>8. \A q \in Propositions : BeliefOK(table[q], q, episodes)
    BY <1>6, <1>7 DEF IInv, TableOK
  <1>9. Held(table) = Held(beliefs) /\ Standing(table) = Standing(beliefs)
    BY <1>3, <1>6, <1>7 DEF Held, Standing
  <1>10. TableOK(table, episodes)
    BY <1>7, <1>8, <1>9 DEF IInv, TableOK
  <1>11. Confirmed(i, p) = table
    BY <1>1, <1>2 DEF Confirmed
  <1> QED BY <1>10, <1>11

\* An episode that speaks for one belief and against another.
LEMMA ContradictedKeeps ==
    ASSUME IInv, NEW i \in 1..Len(episodes), NEW p \in Held(beliefs), NEW q \in Siblings(p),
           ShowsIt(episodes, i, p), i \notin beliefs[p].support
    PROVE  TableOK(Contradicted(i, p, q), episodes)
  <1>1. PICK c, d, s, t :
            /\ c = Clamp(beliefs[p].confidence + 80)
            /\ d = Clamp(beliefs[q].confidence - 200)
            /\ s = IF c > d + 250 THEN "ACTIVE" ELSE "CONTESTED"
            /\ t = IF c > d + 250 THEN "SUPERSEDED" ELSE "CONTESTED"
    OBVIOUS
  <1>2. PICK mine, other, table :
            /\ mine = Backed(beliefs[p], i, c, s)
            /\ other = Opposed(beliefs[q], i, d, t)
            /\ table = [beliefs EXCEPT ![p] = mine, ![q] = other]
    OBVIOUS
  <1>3. /\ p \in Propositions /\ beliefs[p].status # "NONE"
        /\ beliefs[p].confidence \in Confidence /\ BeliefOK(beliefs[p], p, episodes)
        /\ Cardinality(beliefs[p].support) \in Nat /\ Cardinality(beliefs[p].support) >= 1
        /\ beliefs[p].confidence <= Most(Cardinality(beliefs[p].support))
    <2>1. HeldOK(p)
      BY HeldFacts
    <2> QED BY ONLY <2>1 DEF HeldOK
  <1>4. q \in Held(beliefs) /\ q # p
    BY DEF Siblings
  <1>5. /\ q \in Propositions /\ beliefs[q].status # "NONE"
        /\ beliefs[q].confidence \in Confidence /\ BeliefOK(beliefs[q], q, episodes)
        /\ Cardinality(beliefs[q].support) \in Nat /\ Cardinality(beliefs[q].support) >= 1
        /\ beliefs[q].confidence <= Most(Cardinality(beliefs[q].support))
    <2>1. HeldOK(q)
      BY <1>4, HeldFacts
    <2> QED BY ONLY <2>1 DEF HeldOK
  <1>6. c \in Confidence /\ c <= Most(Cardinality(beliefs[p].support) + 1)
    <2>1. PICK x, n : x = beliefs[p].confidence /\ n = Cardinality(beliefs[p].support)
      OBVIOUS
    <2>2. x \in Confidence /\ n \in Nat /\ n >= 1 /\ x <= Most(n)
      BY <1>3, <2>1, Zenon
    <2>3. Clamp(x + 80) \in Confidence /\ Clamp(x + 80) <= Most(n + 1)
      BY ONLY <2>2 DEF Clamp, Most, Confidence
    <2> QED BY ONLY <1>1, <2>1, <2>3
  <1>7. d \in Confidence /\ d <= Most(Cardinality(beliefs[q].support))
    <2>1. PICK x, n : x = beliefs[q].confidence /\ n = Cardinality(beliefs[q].support)
      OBVIOUS
    <2>2. x \in Confidence /\ n \in Nat /\ n >= 1 /\ x <= Most(n)
      BY <1>5, <2>1, Zenon
    <2>3. Clamp(x - 200) \in Confidence /\ Clamp(x - 200) <= Most(n)
      BY ONLY <2>2 DEF Clamp, Most, Confidence
    <2> QED BY ONLY <1>1, <2>1, <2>3
  <1>8. /\ s \in Statuses /\ s \in {"ACTIVE", "CONTESTED"} /\ t \in Statuses
        /\ episodes \in Seq(Episode)
    BY <1>1 DEF Statuses, IInv
  <1>9. BeliefOK(mine, p, episodes) /\ mine.status = s
    <2>1. PICK b : b = beliefs[p]
      OBVIOUS
    <2>2. MayBack(b, p, episodes, i, c, s)
      BY <1>3, <1>6, <1>8, <2>1 DEF MayBack
    <2>3. BeliefOK(Backed(b, i, c, s), p, episodes)
      BY <2>2, BackedKeeps
    <2> QED BY <1>2, <2>1, <2>3 DEF Backed
  <1>10. BeliefOK(other, q, episodes)
    <2>1. ShowsOther(episodes, i, q)
      BY <1>4 DEF ShowsIt, ShowsOther
    <2>2. PICK b : b = beliefs[q]
      OBVIOUS
    <2>3. MayOppose(b, q, episodes, i, d, t)
      BY <1>5, <1>7, <1>8, <2>1, <2>2 DEF MayOppose
    <2>4. BeliefOK(Opposed(b, i, d, t), q, episodes)
      BY <2>3, OpposedKeeps
    <2> QED BY <1>2, <2>2, <2>4
  <1>11. /\ table \in [Propositions -> Belief] /\ table[p] = mine /\ table[q] = other
         /\ \A r \in Propositions : r # p /\ r # q => table[r] = beliefs[r]
    <2>1. beliefs \in [Propositions -> Belief] /\ mine \in Belief /\ other \in Belief
      BY <1>9, <1>10 DEF IInv, TableOK, BeliefOK
    <2>2. p \in Propositions /\ q \in Propositions /\ p # q
      BY <1>3, <1>4, <1>5
    <2> QED BY ONLY <1>2, <2>1, <2>2
  <1>12. \A r \in Propositions : BeliefOK(table[r], r, episodes)
    BY <1>9, <1>10, <1>11 DEF IInv, TableOK
  <1>13. p \in Standing(table)
    BY <1>3, <1>8, <1>9, <1>11 DEF Held, Standing
  <1>14. TableOK(table, episodes)
    BY <1>11, <1>12, <1>13 DEF TableOK
  <1>15. Contradicted(i, p, q) = table
    BY <1>1, <1>2, <1>4 DEF Contradicted
  <1> QED BY <1>14, <1>15

LEMMA BelievedKeeps ==
    ASSUME IInv, NEW i \in 1..Len(episodes), episodes[i].of = 0, NEW new \in Believed(i)
    PROVE  TableOK(new, episodes)
  <1> DEFINE p == episodes[i].shows
  <1>0. ShowsIt(episodes, i, p)
    BY DEF ShowsIt
  <1>1. p \in Propositions
    <2>1. episodes[i] \in Episode
      BY DEF IInv
    <2> QED BY <2>1 DEF Episode
  <1>2. CASE p \notin Held(beliefs)
    <2>1. new \in Seeded(i, p)
      BY <1>2 DEF Believed
    <2> QED BY <1>0, <1>1, <2>1, SeededKeeps
  <1>3. CASE p \in Held(beliefs) /\ i \in beliefs[p].support
    <2>1. new = beliefs
      BY <1>3 DEF Believed
    <2> QED BY <2>1 DEF IInv
  <1>4. CASE p \in Held(beliefs) /\ i \notin beliefs[p].support /\ Siblings(p) # {}
    <2>1. PICK q \in Siblings(p) : new = Contradicted(i, p, q)
      BY <1>4 DEF Believed
    <2> QED BY <1>0, <1>4, <2>1, ContradictedKeeps
  <1>5. CASE p \in Held(beliefs) /\ i \notin beliefs[p].support /\ Siblings(p) = {}
    <2>1. new = Confirmed(i, p)
      BY <1>5 DEF Believed
    <2> QED BY <1>0, <1>5, <2>1, ConfirmedKeeps
  <1> QED BY <1>2, <1>3, <1>4, <1>5

-----------------------------------------------------------------------------
(* The actions *)

\* Forgetting moves episodes, and decays what it does not drop.
LEMMA ForgetKeeps ==
    ASSUME IInv, NEW list \in Seq(Episode), NEW set, set \subseteq 1..Len(list),
           Len(episodes) <= Len(list), TableOK(beliefs, list), Forget(list, set)
    PROVE  /\ TableOK(beliefs', list)
           /\ active' \subseteq 1..Len(list) /\ archived' \subseteq 1..Len(list)
  <1>1. TableOK(beliefs', list)
    BY TableDecays DEF Forget
  <1>2. PICK out \in Leaving(list, set) :
            active' = set \ out /\ archived' = Newest(archived \cup out)
    BY DEF Forget
  <1>3. out \subseteq set
    BY DEF Leaving, Of
  <1>4. archived \subseteq 1..Len(list)
    <2>1. Len(list) \in Nat /\ Len(episodes) \in Nat
      BY DEF IInv
    <2> QED BY <2>1 DEF IInv
  <1>5. archived' \subseteq archived \cup out
    BY <1>2 DEF Newest
  <1> QED BY <1>1, <1>2, <1>3, <1>4, <1>5

\* One more episode, however much is forgotten for it.
LEMMA AddKeeps ==
    ASSUME IInv, NEW e \in Episode, Add(e)
    PROVE  IInv'
  <1>1. PICK list, set : list = Append(episodes, e) /\ set = active \cup {Len(episodes) + 1}
    OBVIOUS
  <1>2. /\ list \in Seq(Episode) /\ Len(list) = Len(episodes) + 1
        /\ Len(episodes) \in Nat
    BY <1>1 DEF IInv
  <1>3. set \subseteq 1..Len(list) /\ archived \subseteq 1..Len(list)
    <2>1. active \subseteq 1..Len(episodes) /\ archived \subseteq 1..Len(episodes)
      BY DEF IInv
    <2>2. 1..Len(episodes) \subseteq 1..Len(list) /\ Len(episodes) + 1 \in 1..Len(list)
      BY <1>2
    <2> QED BY <1>1, <2>1, <2>2
  <1>4. TableOK(beliefs, list)
    BY <1>1, TableExtends DEF IInv
  <1>5. episodes' = list
    BY <1>1 DEF Add
  <1>6. /\ TableOK(beliefs', list)
        /\ active' \subseteq 1..Len(list) /\ archived' \subseteq 1..Len(list)
    <2>1. CASE Forget(list, set)
      <3>1. list \in Seq(Episode) /\ set \subseteq 1..Len(list) /\ Len(episodes) <= Len(list)
        BY <1>2, <1>3
      <3> QED BY <1>4, <2>1, <3>1, ForgetKeeps, Zenon
    <2>2. CASE active' = set /\ UNCHANGED <<archived, beliefs>>
      BY <1>3, <1>4, <2>2
    <2> QED BY <1>1, <2>1, <2>2 DEF Add
  <1> QED BY <1>2, <1>5, <1>6 DEF IInv

LEMMA InitIInv ==
    ASSUME Init
    PROVE  IInv
  <1>1. \A p \in Propositions : beliefs[p] = NoBelief
    BY DEF Init
  <1>2. NoBelief \in Belief
    BY DEF Confidence, NoBelief, Belief, Statuses
  <1>3. beliefs \in [Propositions -> Belief]
    BY <1>2 DEF Init
  <1>4. \A p \in Propositions : BeliefOK(beliefs[p], p, episodes)
    BY <1>1, <1>2 DEF BeliefOK, NoBelief
  <1>5. Held(beliefs) = {}
    BY <1>1 DEF Held, NoBelief
  <1>6. TableOK(beliefs, episodes)
    BY <1>3, <1>4, <1>5 DEF TableOK
  <1> QED BY <1>6 DEF Init, IInv

LEMMA StepIInv ==
    ASSUME IInv, [Next]_vars
    PROVE  IInv'
  <1>1. ASSUME NEW shows \in Propositions, NEW value \in Values, Encode(shows, value)
        PROVE  IInv'
    <2>1. [shows |-> shows, value |-> value, of |-> 0] \in Episode
      BY DEF Episode
    <2> QED BY <1>1, <2>1, AddKeeps DEF Encode
  <1>2. ASSUME NEW i \in active \cup archived, NEW rule \in Rules, Correct(i, rule)
        PROVE  IInv'
    <2>1. episodes[i] \in Episode /\ i \in Nat
      BY DEF IInv
    <2>2. [episodes[i].shows EXCEPT !.rule = rule] \in Propositions
      BY <2>1 DEF Episode, Propositions
    <2>3. [shows |-> [episodes[i].shows EXCEPT !.rule = rule], value |-> "kept", of |-> i]
              \in Episode
      BY <2>1, <2>2 DEF Episode, Values
    <2> QED BY <1>2, <2>3, AddKeeps DEF Correct
  <1>3. CASE Consolidate
    BY <1>3 DEF Consolidate, IInv, TableOK, Held, Standing
  <1>4. ASSUME NEW i \in active, Replay(i)
        PROVE  IInv'
    <2>1. i \in 1..Len(episodes) /\ episodes[i].of = 0
      BY <1>4 DEF IInv, Replay, Originals
    <2>2. PICK table \in Believed(i) : beliefs' = table
      BY <1>4 DEF Replay
    <2>3. TableOK(beliefs', episodes)
      BY <2>1, <2>2, BelievedKeeps
    <2> QED BY <1>4, <2>3 DEF Replay, IInv
  <1>5. CASE EndConsolidation
    <2>1. /\ episodes \in Seq(Episode) /\ active \subseteq 1..Len(episodes)
          /\ Len(episodes) <= Len(episodes) /\ TableOK(beliefs, episodes)
      BY DEF IInv
    <2>2. /\ TableOK(beliefs', episodes)
          /\ active' \subseteq 1..Len(episodes) /\ archived' \subseteq 1..Len(episodes)
      BY <1>5, <2>1, ForgetKeeps DEF EndConsolidation
    <2> QED BY <1>5, <2>1, <2>2 DEF EndConsolidation, IInv
  <1>6. CASE UNCHANGED vars
    BY <1>6 DEF vars, IInv, TableOK, Held, Standing
  <1> QED BY <1>1, <1>2, <1>3, <1>4, <1>5, <1>6 DEF Next

THEOREM Invariant == Spec => []IInv
  <1>1. Init => IInv
    BY InitIInv
  <1>2. IInv /\ [Next]_vars => IInv'
    BY StepIInv
  <1> QED BY <1>1, <1>2, PTL DEF Spec

-----------------------------------------------------------------------------
(* The caps *)

\* What TypeOK says beside IInv; between consolidations nothing counts as replayed, so
\* that an episode may be added and others forgotten for it.
CapInv ==
    /\ active \cap archived = {}
    /\ replayed \subseteq active /\ running \in BOOLEAN /\ cycles \in Nat
    /\ ~running => replayed = {}
    /\ Cardinality(active) > MaxActive => \A i \in active : episodes[i].value = "kept"
    /\ Cardinality(archived) <= MaxArchived
    /\ \A i \in archived : episodes[i].value # "kept"
    /\ IsFiniteSet(Held(beliefs)) /\ Cardinality(Held(beliefs)) <= MaxBeliefs

LEMMA Bounds == Soft \in Nat /\ Soft <= MaxActive /\ Target \in Nat /\ Target <= MaxActive
  <1>1. \A n \in Nat : /\ (n * 85) \div 100 \in Nat /\ (n * 85) \div 100 <= n
                       /\ (n * 75) \div 100 \in Nat /\ (n * 75) \div 100 <= n
    OBVIOUS
  <1> QED BY <1>1, MemoryAssumption DEF Soft, Target

\* What may leave is enough: more than the hard bound stay only if all of them are kept.
LEMMA LeavingEnough ==
    ASSUME NEW list \in Seq(Episode), NEW set, set \subseteq 1..Len(list),
           NEW out \in Leaving(list, set), Cardinality(set \ out) > MaxActive
    PROVE  \A i \in set \ out : list[i].value = "kept"
  <1> DEFINE low  == Of(list, set, "low")
             mid  == Of(list, set, "mid")
             size == Cardinality(set)
             first  == IF size <= Soft THEN 0 ELSE Min2(Cardinality(low), size - Target)
             second == IF size - first <= MaxActive THEN 0
                       ELSE Min2(Cardinality(mid), size - first - MaxActive)
  <1>1. /\ out \subseteq low \cup mid
        /\ Cardinality(out \cap low) = first /\ Cardinality(out \cap mid) = second
    BY DEF Leaving
  <1>2. low \subseteq set /\ mid \subseteq set /\ low \cap mid = {}
    BY DEF Of
  <1>3. \A i \in set : i \in low \/ i \in mid \/ list[i].value = "kept"
    <2>1. \A i \in set : list[i] \in Episode
      OBVIOUS
    <2> QED BY <2>1 DEF Episode, Values, Of
  <1>4. Len(list) \in Nat
    OBVIOUS
  <1> HIDE DEF low, mid
  <1>5. /\ IsFiniteSet(set) /\ size \in Nat
        /\ IsFiniteSet(low) /\ Cardinality(low) \in Nat
        /\ IsFiniteSet(mid) /\ Cardinality(mid) \in Nat
        /\ IsFiniteSet(out \cap low) /\ IsFiniteSet(out \cap mid)
    BY <1>2, <1>4, SupportFinite
  <1>6. Cardinality(set \ out) = size - (first + second)
    <2>1. /\ set \cap out = (out \cap low) \cup (out \cap mid)
          /\ (out \cap low) \cap (out \cap mid) = {}
      BY <1>1, <1>2
    <2>2. Cardinality((out \cap low) \cup (out \cap mid))
            = Cardinality(out \cap low) + Cardinality(out \cap mid) - Cardinality({})
      BY <1>5, <2>1, FS_Union
    <2>3. Cardinality({}) = 0
      BY FS_EmptySet
    <2>4. Cardinality(set \ out) = Cardinality(set) - Cardinality(set \cap out)
      BY <1>5, FS_Difference
    <2>5. first \in Nat /\ second \in Nat
      BY <1>1, <1>5, FS_CardinalityType
    <2> HIDE DEF first, second
    <2>6. PICK f, g, z, c :
              f = first /\ g = second /\ z = size /\ c = Cardinality(set \cap out)
      OBVIOUS
    <2>7. f \in Nat /\ g \in Nat /\ z \in Nat
      BY ONLY <1>5, <2>5, <2>6
    <2>8. c = f + g - 0
      BY ONLY <1>1, <2>1, <2>2, <2>3, <2>6
    <2>9. Cardinality(set \ out) = z - c
      BY ONLY <2>4, <2>6
    <2>10. z - c = z - (f + g)
      BY ONLY <2>7, <2>8
    <2> QED BY ONLY <2>6, <2>9, <2>10
  <1>7. first = Cardinality(low) /\ second = Cardinality(mid)
    <2>1. PICK lc \in Nat, mc \in Nat, n \in Nat :
              lc = Cardinality(low) /\ mc = Cardinality(mid) /\ n = size
      BY <1>5
    <2>2. PICK f, s : /\ f = IF n <= Soft THEN 0 ELSE Min2(lc, n - Target)
                      /\ s = IF n - f <= MaxActive THEN 0 ELSE Min2(mc, n - f - MaxActive)
      OBVIOUS
    <2>3. f = first /\ s = second
      BY <2>1, <2>2
    <2>4. n - (f + s) > MaxActive
      BY <1>6, <2>1, <2>3
    <2>5. MaxActive \in Nat
      BY MemoryAssumption
    <2>6. f = lc /\ s = mc
      BY ONLY <2>2, <2>4, <2>5, Bounds DEF Min2
    <2> QED BY <2>1, <2>3, <2>6
  <1> HIDE DEF first, second
  <1>8. out \cap low = low /\ out \cap mid = mid
    <2>1. out \cap low \in SUBSET low /\ out \cap mid \in SUBSET mid
      OBVIOUS
    <2>2. /\ Cardinality(low) = Cardinality(out \cap low)
          /\ Cardinality(mid) = Cardinality(out \cap mid)
      BY <1>1, <1>7
    <2>3. low = out \cap low
      BY <1>5, <2>1, <2>2, FS_Subset
    <2>4. mid = out \cap mid
      BY <1>5, <2>1, <2>2, FS_Subset
    <2> QED BY <2>3, <2>4
  <1> QED BY <1>3, <1>8

\* At most MaxArchived of a set are among its newest: all of them are not older than
\* the oldest of them, which has fewer than MaxArchived behind it.
LEMMA NewestFew ==
    ASSUME NEW n \in Nat, NEW set, set \subseteq 1..n
    PROVE  Cardinality(Newest(set)) <= MaxArchived
  <1> DEFINE Later(i) == {k \in set : k > i}
             new == Newest(set)
  <1>1. new \subseteq set /\ new \subseteq 1..n /\ new \subseteq Nat
    <2>1. new \subseteq set
      BY DEF Newest
    <2>2. 1..n \subseteq Nat
      OBVIOUS
    <2> HIDE DEF new
    <2> QED BY <2>1, <2>2
  <1>2. \A i \in set : IsFiniteSet(Later(i)) /\ Cardinality(Later(i)) \in Nat
    BY SupportFinite
  <1>3. \A i \in new : Cardinality(Later(i)) < MaxArchived
    BY DEF Newest
  <1>4. CASE new = {}
    BY <1>4, FS_EmptySet, MemoryAssumption
  <1>5. CASE new # {}
    <2> HIDE DEF new
    <2>1. PICK m \in new : \A i \in new : ~(<<i, m>> \in OpToRel(<, Nat))
      BY <1>1, <1>5, NatLessThanWellFounded, WFMin
    <2>2. \A i \in new : i = m \/ i > m
      <3>1. \A i \in new : ~(i < m)
        BY <1>1, <2>1 DEF OpToRel
      <3> QED BY <1>1, <3>1
    <2>3. m \in set /\ IsFiniteSet(Later(m)) /\ Cardinality(Later(m)) \in Nat
      BY <1>1, <1>2
    <2>4. new \in SUBSET (Later(m) \cup {m})
      BY <1>1, <2>2
    <2>5. m \notin Later(m)
      BY <1>1
    <2>6. /\ IsFiniteSet(Later(m) \cup {m})
          /\ Cardinality(Later(m) \cup {m}) = Cardinality(Later(m)) + 1
      BY <2>3, <2>5, FS_AddElement
    <2>7. IsFiniteSet(new) /\ Cardinality(new) <= Cardinality(Later(m) \cup {m})
      BY <2>4, <2>6, FS_Subset
    <2>8. Cardinality(Later(m)) < MaxArchived /\ Cardinality(new) \in Nat
      BY <1>3, <2>7, FS_CardinalityType
    <2> HIDE DEF Later
    <2>9. Cardinality(new) <= MaxArchived
      BY <2>3, <2>6, <2>7, <2>8, MemoryAssumption
    <2> QED BY <2>9 DEF new
  <1> QED BY <1>4, <1>5

LEMMA DecayHolds ==
    ASSUME NEW table \in [Propositions -> Belief]
    PROVE  Held(Decayed(table)) = Held(table)
  <1>1. ASSUME NEW p \in Propositions PROVE Decayed(table)[p].status = table[p].status
    BY DEF Decayed, Belief
  <1> QED BY <1>1 DEF Held

LEMMA ForgetCaps ==
    ASSUME IInv, NEW list \in Seq(Episode), NEW set, set \subseteq 1..Len(list),
           archived \subseteq 1..Len(list), set \cap archived = {},
           \A i \in archived : list[i].value # "kept", Forget(list, set)
    PROVE  /\ active' \subseteq set /\ active' \cap archived' = {}
           /\ Cardinality(active') > MaxActive => \A i \in active' : list[i].value = "kept"
           /\ Cardinality(archived') <= MaxArchived
           /\ \A i \in archived' : list[i].value # "kept"
           /\ Held(beliefs') = Held(beliefs)
  <1>1. PICK out \in Leaving(list, set) :
            active' = set \ out /\ archived' = Newest(archived \cup out)
    BY DEF Forget
  <1>2. out \subseteq set /\ \A i \in out : list[i].value # "kept"
    BY DEF Leaving, Of
  <1>3. archived' \subseteq archived \cup out
    BY <1>1 DEF Newest
  <1>4. Cardinality(active') > MaxActive => \A i \in active' : list[i].value = "kept"
    BY <1>1, LeavingEnough
  <1>5. Cardinality(archived') <= MaxArchived
    <2>1. archived \cup out \subseteq 1..Len(list)
      BY ONLY <1>2, set \subseteq 1..Len(list), archived \subseteq 1..Len(list), Zenon
    <2>2. Len(list) \in Nat
      BY ONLY list \in Seq(Episode)
    <2> QED BY <1>1, <2>1, <2>2, NewestFew
  <1>6. Held(beliefs') = Held(beliefs)
    BY DecayHolds DEF Forget, IInv, TableOK
  <1> QED BY <1>1, <1>2, <1>3, <1>4, <1>5, <1>6

LEMMA AddCaps ==
    ASSUME IInv, CapInv, NEW e \in Episode, Add(e), ~running,
           UNCHANGED <<replayed, running, cycles>>
    PROVE  CapInv'
  <1>1. PICK list, set : list = Append(episodes, e) /\ set = active \cup {Len(episodes) + 1}
    OBVIOUS
  <1>2. /\ list \in Seq(Episode) /\ Len(list) = Len(episodes) + 1 /\ Len(episodes) \in Nat
        /\ \A i \in 1..Len(episodes) : list[i] = episodes[i]
    BY <1>1 DEF IInv
  <1>3. /\ set \subseteq 1..Len(list) /\ archived \subseteq 1..Len(list)
        /\ set \cap archived = {}
    <2>1. active \subseteq 1..Len(episodes) /\ archived \subseteq 1..Len(episodes)
      BY DEF IInv
    <2>2. 1..Len(episodes) \subseteq 1..Len(list) /\ Len(episodes) + 1 \in 1..Len(list)
          /\ Len(episodes) + 1 \notin 1..Len(episodes)
      BY <1>2
    <2> QED BY <1>1, <2>1, <2>2 DEF CapInv
  <1>4. \A i \in archived : list[i].value # "kept"
    BY <1>2 DEF IInv, CapInv
  <1>5. episodes' = list /\ replayed' = {} /\ running' = running /\ cycles' = cycles
    BY <1>1 DEF Add, CapInv
  <1>6. CASE Cardinality(set) > MaxActive
    <2>1. Forget(list, set)
      BY <1>1, <1>6 DEF Add
    <2> QED BY <1>2, <1>3, <1>4, <1>5, <2>1, ForgetCaps DEF CapInv
  <1>7. CASE ~(Cardinality(set) > MaxActive)
    <2>1. active' = set /\ UNCHANGED <<archived, beliefs>>
      BY <1>1, <1>7 DEF Add
    <2> QED BY <1>3, <1>4, <1>5, <1>7, <2>1 DEF CapInv
  <1> QED BY <1>6, <1>7

\* At most one belief more, and then one less.
LEMMA SeededCaps ==
    ASSUME IInv, CapInv, NEW i \in 1..Len(episodes), NEW p \in Propositions,
           NEW new \in Seeded(i, p)
    PROVE  IsFiniteSet(Held(new)) /\ Cardinality(Held(new)) <= MaxBeliefs
  <1>1. PICK table : table = [beliefs EXCEPT ![p] = [status |-> "ACTIVE", support |-> {i},
                                                     against |-> {}, confidence |-> 250]]
    OBVIOUS
  <1>2. beliefs \in [Propositions -> Belief]
    BY DEF IInv, TableOK
  <1>3. /\ DOMAIN table = Propositions /\ table[p].status = "ACTIVE"
        /\ \A q \in Propositions : q # p => table[q] = beliefs[q]
    BY <1>1, <1>2
  <1>4. Held(table) = Held(beliefs) \cup {p}
    BY <1>3 DEF Held
  <1>5. /\ IsFiniteSet(Held(beliefs)) /\ Cardinality(Held(beliefs)) \in Nat
        /\ Cardinality(Held(beliefs)) <= MaxBeliefs
    BY FS_CardinalityType DEF CapInv
  <1>6. /\ IsFiniteSet(Held(table)) /\ Cardinality(Held(table)) \in Nat
        /\ Cardinality(Held(table)) <= Cardinality(Held(beliefs)) + 1
    <2>1. /\ IsFiniteSet(Held(beliefs) \cup {p})
          /\ Cardinality(Held(beliefs) \cup {p}) =
                 IF p \in Held(beliefs) THEN Cardinality(Held(beliefs))
                 ELSE Cardinality(Held(beliefs)) + 1
      BY <1>5, FS_AddElement
    <2> QED BY <1>4, <1>5, <2>1
  <1>7. new \in Evicted(table)
    BY <1>1 DEF Seeded
  <1>8. CASE Cardinality(Held(table)) <= MaxBeliefs
    BY <1>6, <1>7, <1>8 DEF Evicted
  <1>9. CASE ~(Cardinality(Held(table)) <= MaxBeliefs)
    <2> DEFINE old  == Held(table) \ Standing(table)
               pool == IF old # {} THEN old ELSE Held(table)
    <2>1. PICK q \in pool : new = [table EXCEPT ![q] = NoBelief]
      BY <1>7, <1>9 DEF Evicted
    <2>2. q \in Held(table)
      BY <2>1
    <2>3. q \in Propositions /\ new[q].status = "NONE"
          /\ \A r \in Propositions : r # q => new[r] = table[r]
      BY <1>3, <2>1, <2>2 DEF Held, NoBelief
    <2>4. Held(new) = Held(table) \ {q}
      BY <2>3 DEF Held
    <2>5. /\ IsFiniteSet(Held(table) \ {q})
          /\ Cardinality(Held(table) \ {q}) = Cardinality(Held(table)) - 1
      BY <1>6, <2>2, FS_RemoveElement
    <2> QED BY <1>5, <1>6, <2>4, <2>5, MemoryAssumption
  <1> QED BY <1>8, <1>9

LEMMA BelievedCaps ==
    ASSUME IInv, CapInv, NEW i \in 1..Len(episodes), NEW new \in Believed(i)
    PROVE  IsFiniteSet(Held(new)) /\ Cardinality(Held(new)) <= MaxBeliefs
  <1>1. PICK p : p = episodes[i].shows
    OBVIOUS
  <1>2. p \in Propositions /\ beliefs \in [Propositions -> Belief]
    <2>1. episodes[i] \in Episode
      BY DEF IInv
    <2> QED BY <1>1, <2>1 DEF Episode, IInv, TableOK
  <1>3. CASE new \in Seeded(i, p)
    BY <1>2, <1>3, SeededCaps
  <1>4. CASE new = beliefs
    BY <1>4 DEF CapInv
  <1>5. ASSUME p \in Held(beliefs), NEW q \in Siblings(p), new = Contradicted(i, p, q)
        PROVE  Held(new) = Held(beliefs)
    <2>1. q \in Held(beliefs) /\ q \in Propositions
      BY DEF Siblings, Held
    <2>2. PICK c, d, s, t :
              /\ s # "NONE" /\ t # "NONE"
              /\ new = [beliefs EXCEPT ![p] = Backed(beliefs[p], i, c, s),
                                       ![q] = Opposed(beliefs[q], i, d, t)]
      <3> DEFINE c == Clamp(beliefs[p].confidence + 80)
                 d == Clamp(beliefs[q].confidence - 200)
                 wins == c > d + 250
                 s == IF wins THEN "ACTIVE" ELSE "CONTESTED"
                 t == IF wins THEN "SUPERSEDED" ELSE "CONTESTED"
      <3>1. s # "NONE" /\ t # "NONE"
        OBVIOUS
      <3>2. q # p
        BY DEF Siblings
      <3>3. new = [beliefs EXCEPT ![p] = Backed(beliefs[p], i, c, s),
                                  ![q] = Opposed(beliefs[q], i, d, t)]
        BY <1>5, <3>2 DEF Contradicted
      <3> HIDE DEF c, d, s, t
      <3> QED BY <3>1, <3>3
    <2>3. /\ new[p].status # "NONE" /\ new[q].status # "NONE"
          /\ \A r \in Propositions : r # p /\ r # q => new[r] = beliefs[r]
      BY <1>2, <2>1, <2>2 DEF Backed, Opposed
    <2> QED BY <1>5, <2>1, <2>3 DEF Held
  <1>6. ASSUME p \in Held(beliefs), new = Confirmed(i, p) PROVE Held(new) = Held(beliefs)
    <2>1. PICK c : new = [beliefs EXCEPT ![p] = Backed(beliefs[p], i, c, beliefs[p].status)]
      BY <1>6 DEF Confirmed
    <2>2. /\ new[p].status = beliefs[p].status
          /\ \A r \in Propositions : r # p => new[r] = beliefs[r]
      BY <1>2, <2>1 DEF Backed
    <2> QED BY <2>2 DEF Held
  <1>7. \/ new \in Seeded(i, p)
        \/ new = beliefs
        \/ p \in Held(beliefs) /\ \E q \in Siblings(p) : new = Contradicted(i, p, q)
        \/ p \in Held(beliefs) /\ new = Confirmed(i, p)
    BY <1>1 DEF Believed
  <1> QED BY <1>3, <1>4, <1>5, <1>6, <1>7 DEF CapInv

LEMMA InitCaps == ASSUME Init PROVE CapInv
  <1>1. Cardinality({}) = 0 /\ IsFiniteSet({})
    BY FS_EmptySet
  <1>2. Held(beliefs) = {}
    BY DEF Init, Held, NoBelief
  <1>3. /\ active = {} /\ archived = {} /\ replayed = {} /\ ~running /\ episodes = <<>>
    BY Zenon DEF Init
  <1>4. MaxActive \in Nat /\ MaxArchived \in Nat /\ MaxBeliefs \in Nat
    BY MemoryAssumption
  <1>5. /\ active \cap archived = {} /\ replayed \subseteq active
        /\ \A i \in archived : episodes[i].value # "kept"
    BY ONLY <1>3
  <1>6. cycles \in Nat /\ running \in BOOLEAN
    BY DEF Init
  <1>7. Cardinality(active) = 0 /\ Cardinality(archived) = 0
    BY ONLY <1>1, <1>3, Zenon
  <1>8. IsFiniteSet(Held(beliefs)) /\ Cardinality(Held(beliefs)) = 0
    BY ONLY <1>1, <1>2, Zenon
  <1>9. ~(Cardinality(active) > MaxActive) /\ Cardinality(archived) <= MaxArchived
    BY ONLY <1>4, <1>7
  <1>10. Cardinality(Held(beliefs)) <= MaxBeliefs
    BY ONLY <1>4, <1>8
  <1> QED BY ONLY <1>3, <1>5, <1>6, <1>8, <1>9, <1>10, Zenon DEF CapInv

LEMMA StepCaps ==
    ASSUME IInv, CapInv, [Next]_vars
    PROVE  CapInv'
  <1>1. ASSUME NEW shows \in Propositions, NEW value \in Values, Encode(shows, value)
        PROVE  CapInv'
    <2>1. [shows |-> shows, value |-> value, of |-> 0] \in Episode
      BY DEF Episode
    <2> QED BY <1>1, <2>1, AddCaps DEF Encode
  <1>2. ASSUME NEW i \in active \cup archived, NEW rule \in Rules, Correct(i, rule)
        PROVE  CapInv'
    <2>1. episodes[i] \in Episode /\ i \in Nat
      BY DEF IInv
    <2>2. [episodes[i].shows EXCEPT !.rule = rule] \in Propositions
      BY <2>1 DEF Episode, Propositions
    <2>3. [shows |-> [episodes[i].shows EXCEPT !.rule = rule], value |-> "kept", of |-> i]
              \in Episode
      BY <2>1, <2>2 DEF Episode, Values
    <2> QED BY <1>2, <2>3, AddCaps DEF Correct
  <1>3. CASE Consolidate
    BY <1>3 DEF Consolidate, CapInv
  <1>4. ASSUME NEW i \in active, Replay(i)
        PROVE  CapInv'
    <2>1. i \in 1..Len(episodes)
      BY DEF IInv
    <2>2. PICK table \in Believed(i) : beliefs' = table
      BY <1>4 DEF Replay
    <2>3. IsFiniteSet(Held(beliefs')) /\ Cardinality(Held(beliefs')) <= MaxBeliefs
      BY <2>1, <2>2, BelievedCaps
    <2>4. /\ running /\ replayed' = replayed \cup {i}
          /\ UNCHANGED <<episodes, active, archived, running, cycles>>
      BY <1>4 DEF Replay
    <2> QED BY <2>3, <2>4 DEF CapInv
  <1>5. CASE EndConsolidation
    <2>1. /\ episodes \in Seq(Episode) /\ active \subseteq 1..Len(episodes)
          /\ archived \subseteq 1..Len(episodes) /\ active \cap archived = {}
          /\ \A i \in archived : episodes[i].value # "kept"
      BY DEF IInv, CapInv
    <2>2. /\ Forget(episodes, active) /\ running' = FALSE /\ replayed' = {}
          /\ UNCHANGED <<episodes, cycles>>
      BY <1>5 DEF EndConsolidation
    <2>3. /\ active' \cap archived' = {}
          /\ Cardinality(active') > MaxActive =>
                 \A i \in active' : episodes[i].value = "kept"
          /\ Cardinality(archived') <= MaxArchived
          /\ \A i \in archived' : episodes[i].value # "kept"
          /\ Held(beliefs') = Held(beliefs)
      BY <2>1, <2>2, ForgetCaps
    <2> QED BY <2>2, <2>3 DEF CapInv
  <1>6. CASE UNCHANGED vars
    BY <1>6 DEF vars, CapInv
  <1> QED BY <1>1, <1>2, <1>3, <1>4, <1>5, <1>6 DEF Next

-----------------------------------------------------------------------------
(* Results *)

\* However often episodes are replayed, and in whatever order beliefs contest
\* one another, none is stronger than its distinct episodes make it.
THEOREM StrengthEarned == Spec => []ConfidenceEarned
  <1>1. IInv => ConfidenceEarned
    BY HeldFacts DEF HeldOK, Confidence, ConfidenceEarned, Most
  <1> QED BY <1>1, Invariant, PTL

\* A belief rests on originals that show it and is contradicted by originals
\* that do not, whatever has been corrected, archived or dropped since.
THEOREM EvidenceMatches == Spec => []BeliefsMatchEvidence
  <1>1. IInv => BeliefsMatchEvidence
    BY HeldFacts DEF HeldOK, BeliefsMatchEvidence, BeliefOK, ShowsIt, ShowsOther
  <1> QED BY <1>1, Invariant, PTL

\* As long as anything is believed, something is believed that has not been
\* superseded.
THEOREM StandsKept == Spec => []SomethingStands
  <1>1. IInv => SomethingStands
    BY DEF IInv, TableOK, SomethingStands
  <1> QED BY <1>1, Invariant, PTL

\* Forgetting keeps the caps: more episodes than the hard bound are active only when all
\* of them are kept, the archive holds at most its cap and none that is kept, and
\* eviction keeps the beliefs within theirs.
THEOREM CapsKept == Spec => []TypeOK
  <1>1. IInv /\ CapInv => TypeOK
    BY DEF IInv, TableOK, CapInv, TypeOK
  <1>2. IInv /\ CapInv /\ [Next]_vars => CapInv'
    BY StepCaps
  <1>3. Init => CapInv
    BY InitCaps
  <1> QED BY <1>1, <1>2, <1>3, Invariant, PTL DEF Spec
=============================================================================
