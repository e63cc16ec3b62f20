---------------------------- MODULE Route_proofs -----------------------------
(***************************************************************************)
(* Proofs about the route evidence of Route, for every number of kinds,    *)
(* bodies, ticks, actions and restarts and for every delay and capacity.   *)
(*                                                                         *)
(* The log only grows, so what holds of a finished route holds of it for   *)
(* good (GoodStays).  What the episode needs besides is that nothing but   *)
(* what is passed over came behind its last step (AtEnd): then the next    *)
(* outcome extends it without a gap (StepIsGood).  For how a route ends it *)
(* needs that none of its steps failed for good (Mild).  That no execution *)
(* is a step twice rests on what is under way not being a step yet, of     *)
(* what a restart would take back together with it (OnceInv).              *)
(***************************************************************************)
EXTENDS Route, FiniteSetTheorems, TLAPS

Good(r) ==
    /\ r \in Episode /\ Started(r)
    /\ \A i \in DOMAIN r.steps : r.steps[i] \in DOMAIN log
    /\ Whole(r) /\ Own(r) /\ InTime(r)

\* Nothing but what is passed over has happened since the last step of r.
AtEnd(r) ==
    /\ \A n \in DOMAIN log : n > LastOf(r.steps) => PassedOver(n)
    /\ log[LastOf(r.steps)].tick <= tick

GoodList(list) == \A i \in DOMAIN list : Good(list[i].episode)

Evidence ==
    /\ Started(episode) => Good(episode) /\ AtEnd(episode)
    /\ GoodList(experiences)
    /\ GoodList(saved.experiences)

\* What is under way was issued by now, when the snapshot was taken as well.
IssuedBefore ==
    /\ delayed.action.issue <= tick
    /\ saved.delayed.action.issue <= saved.tick

IInv == TypeOK /\ Evidence /\ IssuedBefore

-----------------------------------------------------------------------------
(* Steps of an episode *)

LEMMA Appended ==
    ASSUME NEW T, NEW s \in Seq(T), NEW x \in T
    PROVE  /\ Append(s, x) \in Seq(T) /\ Len(s) \in Nat /\ Len(Append(s, x)) = Len(s) + 1
           /\ DOMAIN s = 1..Len(s) /\ DOMAIN Append(s, x) = 1..(Len(s) + 1)
           /\ \A i \in 1..Len(s) : Append(s, x)[i] = s[i]
           /\ Append(s, x)[Len(s) + 1] = x
  OBVIOUS

LEMMA PushedType ==
    ASSUME NEW T, NEW ring \in Seq(T), NEW x \in T, Len(ring) <= Capacity
    PROVE  /\ Pushed(ring, x) \in Seq(T) /\ Len(Pushed(ring, x)) <= Capacity
           /\ \A i \in DOMAIN Pushed(ring, x) :
                  \/ Pushed(ring, x)[i] = x
                  \/ \E k \in DOMAIN ring : Pushed(ring, x)[i] = ring[k]
  <1>1. CASE Len(ring) < Capacity
    <2>1. Pushed(ring, x) = Append(ring, x)
      BY <1>1 DEF Pushed
    <2> QED BY <1>1, <2>1, RouteAssumption
  <1>2. CASE ~(Len(ring) < Capacity)
    <2>1. Pushed(ring, x) = Append(Tail(ring), x)
      BY <1>2 DEF Pushed
    <2>2. Len(ring) = Capacity /\ Len(ring) >= 1
      BY <1>2, RouteAssumption
    <2>3. Tail(ring) \in Seq(T) /\ Len(Tail(ring)) = Len(ring) - 1
      BY <2>2
    <2>4. \A k \in 1..(Len(ring) - 1) : Tail(ring)[k] = ring[k + 1] /\ k + 1 \in DOMAIN ring
      BY <2>2
    <2>5. PICK rest \in Seq(T) : rest = Tail(ring)
      BY <2>3
    <2>6. /\ Append(rest, x) \in Seq(T)
          /\ Len(Append(rest, x)) = Len(ring) /\ DOMAIN Append(rest, x) = 1..Len(ring)
          /\ \A i \in 1..(Len(ring) - 1) : Append(rest, x)[i] = rest[i]
          /\ Append(rest, x)[Len(ring)] = x
      BY <2>2, <2>3, <2>5, Appended
    <2>7. \A i \in 1..Len(ring) : i = Len(ring) \/ i \in 1..(Len(ring) - 1)
      BY <2>2
    <2> QED BY <2>1, <2>2, <2>4, <2>5, <2>6, <2>7
  <1> QED BY <1>1, <1>2

\* A route stays good when the log grows.
LEMMA GoodStays ==
    ASSUME log \in Seq(Outcome), NEW o \in Outcome, log' = Append(log, o),
           NEW r, Good(r)
    PROVE  Good(r)'
  <1> DEFINE last == LastOf(r.steps)
  <1>1. r \in Episode /\ r.steps \in Seq(Nat) /\ Len(r.steps) >= 1
    BY DEF Good, Episode, Started
  <1>2. last \in DOMAIN log /\ last \in Nat /\ 1 \in DOMAIN r.steps
    BY <1>1 DEF Good, LastOf
  <1>3. \A n \in DOMAIN log : n \in DOMAIN log' /\ log'[n] = log[n]
    OBVIOUS
  <1>4. Whole(r)'
    <2> SUFFICES ASSUME NEW n \in DOMAIN log', Within(n, r)
                 PROVE  StepOf(n, r) \/ PassedOver(n)'
      BY DEF Whole, Within, StepOf
    <2>1. n \in DOMAIN log
      BY <1>2 DEF Within, LastOf
    <2> QED BY <2>1, <1>3 DEF Good, Whole, PassedOver
  <1>5. Own(r)'
    <2>1. Moves(r)' = Moves(r)
      BY <1>3 DEF Moves, Good
    <2> QED BY <2>1, <1>3 DEF Own, Good
  <1>6. InTime(r)'
    <2>1. \A i \in DOMAIN r.steps : log'[r.steps[i]] = log[r.steps[i]]
      BY <1>3 DEF Good
    <2>2. \A i \in 2..Len(r.steps) : i \in DOMAIN r.steps /\ i - 1 \in DOMAIN r.steps
      BY <1>1
    <2> QED BY <2>1, <2>2, <1>2 DEF InTime, Good
  <1> QED BY <1>3, <1>4, <1>5, <1>6 DEF Good

LEMMA ListStays ==
    ASSUME log \in Seq(Outcome), NEW o \in Outcome, log' = Append(log, o),
           NEW list, GoodList(list)
    PROVE  \A i \in DOMAIN list : Good(list[i].episode)'
  BY GoodStays DEF GoodList


\* What is known of the log when an outcome of a is appended at n.
Grown(n, a, t, result) ==
    /\ n \in Nat /\ n >= 1 /\ DOMAIN log = 1..(n - 1) /\ DOMAIN log' = 1..n
    /\ log'[n] \in Outcome
    /\ log'[n].action = a /\ log'[n].tick = t /\ log'[n].result = result
    /\ \A k \in DOMAIN log :
           k \in DOMAIN log' /\ log'[k] = log[k] /\ log[k] \in Outcome /\ k < n

LEMMA LogGrows ==
    ASSUME log \in Seq(Outcome),
           NEW a \in Action, NEW t \in Nat, NEW result \in Results,
           log' = Append(log, [action |-> a, tick |-> t, result |-> result])
    PROVE  Grown(Len(log) + 1, a, t, result)
  <1>1. PICK o \in Outcome : /\ o = [action |-> a, tick |-> t, result |-> result]
                             /\ o.action = a /\ o.tick = t /\ o.result = result
    BY DEF Outcome
  <1>2. log' = Append(log, o)
    BY <1>1
  <1> QED BY <1>1, <1>2, Appended DEF Grown

\* The outcome at n starts a route.
LEMMA FirstStepIsGood ==
    ASSUME NEW a \in Action, NEW t \in Nat, NEW result \in Results, a.issue <= t, tick' = t,
           NEW n, Grown(n, a, t, result),
           NEW moved, moved = IF a.cap = "APPROACH" /\ result = "ok" THEN 1 ELSE 0,
           NEW r \in Episode,
           r.bind = a.bind, r.steps = <<n>>, r.start = t, r.moves = moved
    PROVE  Good(r)' /\ AtEnd(r)'
  <1>1. /\ Len(r.steps) = 1 /\ DOMAIN r.steps = {1} /\ r.steps[1] = n
        /\ LastOf(r.steps) = n /\ r.steps # <<>>
    BY DEF LastOf
  <1>2. n \in Nat /\ DOMAIN log' = 1..n /\ n \in DOMAIN log' /\ log'[n].action = a
        /\ log'[n].tick = t /\ log'[n].result = result
    BY DEF Grown
  <1>3. Whole(r)'
    <2> SUFFICES ASSUME NEW k \in DOMAIN log', Within(k, r)
                 PROVE  StepOf(k, r)
      BY DEF Whole, Within, StepOf
    <2> QED BY <1>1, <1>2 DEF Within, StepOf
  <1>4. Own(r)'
    <2>1. Moves(r)' = IF moved = 1 THEN {1} ELSE {}
      BY <1>1, <1>2 DEF Moves
    <2>2. Cardinality({1}) = 1 /\ Cardinality({}) = 0
      BY FS_Singleton, FS_EmptySet
    <2> QED BY <1>1, <1>2, <2>1, <2>2 DEF Own
  <1>5. InTime(r)'
    BY <1>1, <1>2 DEF InTime
  <1>6. AtEnd(r)'
    BY <1>1, <1>2 DEF AtEnd
  <1> QED BY <1>1, <1>2, <1>3, <1>4, <1>5, <1>6 DEF Good, Started

\* r is e with a step at n, which moved the body or not.
Extends(r, e, n, moved) ==
    /\ r \in Episode /\ e \in Episode
    /\ r.bind = e.bind /\ r.start = e.start /\ r.moves = e.moves + moved
    /\ Len(e.steps) \in Nat /\ Len(e.steps) >= 1 /\ DOMAIN e.steps = 1..Len(e.steps)
    /\ Len(r.steps) = Len(e.steps) + 1 /\ DOMAIN r.steps = 1..(Len(e.steps) + 1)
    /\ r.steps[Len(e.steps) + 1] = n
    /\ \A i \in 1..Len(e.steps) : r.steps[i] = e.steps[i]

\* The outcome at n extends a route at its end.
LEMMA NextStepIsGood ==
    ASSUME NEW a \in Action, NEW t \in Nat, NEW result \in Results,
           tick \in Nat, tick <= t, a.issue <= t, tick' = t,
           NEW n, Grown(n, a, t, result),
           NEW moved, moved = IF a.cap = "APPROACH" /\ result = "ok" THEN 1 ELSE 0,
           NEW e, Good(e), AtEnd(e), e.bind = a.bind,
           NEW r, Extends(r, e, n, moved)
    PROVE  Good(r)' /\ AtEnd(r)'
  <1> DEFINE m == Len(e.steps)
  <1>a. /\ r \in Episode /\ e \in Episode
        /\ r.bind = a.bind /\ r.start = e.start /\ r.moves = e.moves + moved
        /\ m = Len(e.steps) /\ m \in Nat /\ m >= 1 /\ DOMAIN e.steps = 1..m
        /\ Len(r.steps) = m + 1 /\ DOMAIN r.steps = 1..(m + 1) /\ r.steps[m + 1] = n
        /\ \A i \in 1..m : r.steps[i] = e.steps[i]
    BY DEF Extends
  <1> HIDE DEF m
  <1> USE <1>a
  <1> DEFINE l == LastOf(e.steps)
  <1>1. /\ n \in Nat /\ DOMAIN log = 1..(n - 1) /\ DOMAIN log' = 1..n
        /\ log'[n] \in Outcome /\ log'[n].action = a /\ log'[n].tick = t
        /\ log'[n].result = result
    BY DEF Grown
  <1>2. \A k \in DOMAIN log :
           k \in DOMAIN log' /\ log'[k] = log[k] /\ log[k] \in Outcome /\ k < n
    BY DEF Grown
  <1>3. \A i \in 1..m : e.steps[i] \in DOMAIN log /\ log'[e.steps[i]] = log[e.steps[i]]
    BY <1>2 DEF Good
  <1>4. 1 \in 1..m /\ m \in 1..m /\ m + 1 \in 1..(m + 1) /\ m + 1 \notin 1..m
    OBVIOUS
  <1>5. l = e.steps[m] /\ l \in DOMAIN log /\ l \in Nat
    BY <1>1, <1>3, <1>4 DEF LastOf
  <1>6. LastOf(r.steps) = n
    BY DEF LastOf
  <1>7. \A i \in 1..(m + 1) : i \in 1..m \/ i = m + 1
    OBVIOUS
  <1>8. Whole(r)'
    <2> SUFFICES ASSUME NEW k \in DOMAIN log', Within(k, r)
                 PROVE  StepOf(k, r) \/ PassedOver(k)'
      BY DEF Whole, Within, StepOf
    <2>1. CASE k = n
      BY <2>1, <1>4 DEF StepOf
    <2>2. CASE k # n /\ k <= l
      <3>1. k \in DOMAIN log /\ Within(k, e)
        BY <2>2, <1>1, <1>4 DEF Within
      <3>2. StepOf(k, e) \/ PassedOver(k)
        BY <3>1 DEF Good, Whole
      <3>3. ASSUME StepOf(k, e) PROVE StepOf(k, r)
        <4>1. PICK i \in 1..m : e.steps[i] = k
          BY <3>3 DEF StepOf
        <4>2. i \in 1..(m + 1) /\ r.steps[i] = k
          BY <4>1
        <4> QED BY <4>2 DEF StepOf
      <3>4. ASSUME PassedOver(k) PROVE PassedOver(k)'
        BY <3>1, <3>4, <1>2 DEF PassedOver
      <3> QED BY <3>2, <3>3, <3>4
    <2>3. CASE k # n /\ ~(k <= l)
      <3>1. k \in DOMAIN log /\ k > l
        BY <2>3, <1>1, <1>5
      <3> QED BY <3>1, <1>2 DEF AtEnd, PassedOver
    <2> QED BY <2>1, <2>2, <2>3
  <1>9. Own(r)'
    <2>1. Moves(e) \subseteq 1..m /\ e.moves = Cardinality(Moves(e))
      BY DEF Moves, Good, Own
    <2>2. Moves(r)' = IF moved = 1 THEN Moves(e) \cup {m + 1} ELSE Moves(e)
      <3>1. ASSUME NEW i \in 1..m
            PROVE  i \in Moves(r)' <=> i \in Moves(e)
        <4>1. i \in 1..(m + 1) /\ r.steps[i] = e.steps[i] /\ log'[r.steps[i]] = log[e.steps[i]]
          BY <1>3
        <4> QED BY <4>1 DEF Moves
      <3>2. m + 1 \in Moves(r)' <=> moved = 1
        BY <1>1, <1>4 DEF Moves
      <3>3. Moves(r)' \subseteq 1..(m + 1)
        BY DEF Moves
      <3>4. ASSUME NEW i PROVE i \in Moves(r)' <=> i \in Moves(e) \/ (i = m + 1 /\ moved = 1)
        BY <3>1, <3>2, <3>3, <2>1, <1>4, <1>7
      <3>5. CASE moved = 1
        BY <3>4, <3>5
      <3>6. CASE moved # 1
        BY <3>4, <3>6
      <3> QED BY <3>5, <3>6
    <2>3. IsFiniteSet(Moves(e)) /\ m + 1 \notin Moves(e)
      <3>1. IsFiniteSet(1..m)
        BY FS_Interval
      <3>2. IsFiniteSet(Moves(e))
        BY <2>1, <3>1, FS_Subset
      <3> QED BY <2>1, <1>4, <3>2
    <2>4. Cardinality(Moves(e) \cup {m + 1}) = Cardinality(Moves(e)) + 1
      BY <2>3, FS_AddElement
    <2>5. \A i \in DOMAIN r.steps : log'[r.steps[i]].action.bind = r.bind
      <3>1. \A i \in 1..m : log[e.steps[i]].action.bind = a.bind
        BY DEF Good, Own
      <3>2. ASSUME NEW i \in 1..m
            PROVE  log'[r.steps[i]].action.bind = r.bind
        BY <3>1, <1>3
      <3>3. log'[r.steps[m + 1]].action.bind = r.bind
        BY <1>1
      <3> QED BY <3>2, <3>3, <1>7
    <2>6. Cardinality(Moves(e)) \in Nat
      BY <2>3, FS_CardinalityType
    <2>7. r.moves = Cardinality(Moves(r)')
      BY <2>1, <2>2, <2>4, <2>6
    <2> QED BY <2>5, <2>7 DEF Own, Moves
  <1>10. InTime(r)'
    <2>1. r.start = log'[r.steps[1]].tick
      BY <1>3, <1>4 DEF Good, InTime
    <2>2. \A i \in DOMAIN r.steps : log'[r.steps[i]].action.issue <= log'[r.steps[i]].tick
      <3>1. \A i \in 1..m : log[e.steps[i]].action.issue <= log[e.steps[i]].tick
        BY DEF Good, InTime
      <3>2. ASSUME NEW i \in 1..m
            PROVE  log'[r.steps[i]].action.issue <= log'[r.steps[i]].tick
        BY <3>1, <1>3
      <3>3. log'[r.steps[m + 1]].action.issue <= log'[r.steps[m + 1]].tick
        BY <1>1
      <3> QED BY <3>2, <3>3, <1>7
    <2>3. ASSUME NEW i \in 2..Len(r.steps)
          PROVE  log'[r.steps[i - 1]].tick <= log'[r.steps[i]].tick
      <3>1. CASE i = m + 1
        <4>1. log'[r.steps[m]].tick = log[l].tick /\ log'[r.steps[i]].tick = t
          BY <3>1, <1>1, <1>3, <1>4, <1>5
        <4>2. log[l].tick <= t
          <5>1. log[l].tick <= tick
            BY DEF AtEnd
          <5>2. log[l].tick \in Nat
            BY <1>5, <1>2 DEF Outcome
          <5> QED BY <5>1, <5>2
        <4> QED BY <3>1, <4>1, <4>2
      <3>2. CASE i # m + 1
        <4>1. i \in 2..m /\ i \in 1..m /\ i - 1 \in 1..m
          BY <3>2
        <4>2. log[e.steps[i - 1]].tick <= log[e.steps[i]].tick
          BY <4>1 DEF Good, InTime
        <4> QED BY <4>1, <4>2, <1>3
      <3> QED BY <3>1, <3>2
    <2> QED BY <2>1, <2>2, <2>3 DEF InTime
  <1>11. AtEnd(r)'
    BY <1>1, <1>6 DEF AtEnd
  <1>12. \A i \in DOMAIN r.steps : r.steps[i] \in DOMAIN log'
    <2>1. r.steps[m + 1] \in DOMAIN log'
      <3>1. r.steps[m + 1] = n
        OBVIOUS
      <3>2. n \in DOMAIN log'
        BY ONLY <1>1, <1>5
      <3> QED BY ONLY <3>1, <3>2
    <2>2. \A i \in 1..m : r.steps[i] \in DOMAIN log'
      BY <1>1, <1>2, <1>3
    <2> QED BY <1>7, <2>1, <2>2
  <1>13. r.steps # <<>>
    OBVIOUS
  <1> QED BY <1>8, <1>9, <1>10, <1>11, <1>12, <1>13 DEF Good, Started

\* An outcome of a extends the episode of the same binding, or starts one.
LEMMA StepIsGood ==
    ASSUME log \in Seq(Outcome), tick \in Nat,
           NEW a \in Action, NEW t \in Nat, NEW result \in Results,
           tick <= t, a.issue <= t, tick' = t,
           Grown(Len(log) + 1, a, t, result),
           NEW e \in Episode,
           Started(e) => Good(e) /\ AtEnd(e) /\ e.bind = a.bind,
           NEW moved, moved = IF a.cap = "APPROACH" /\ result = "ok" THEN 1 ELSE 0,
           NEW r, r = WithStep(e, a, t, moved)
    PROVE  Good(r)' /\ AtEnd(r)'
  <1>1. Len(log) + 1 \in Nat /\ a.bind \in Binding /\ moved \in Nat
    BY DEF Action
  <1>2. CASE ~Started(e)
    <2>1. PICK n \in Nat : n = Len(log) + 1
      BY <1>1
    <2>2. r = [bind |-> a.bind, steps |-> <<n>>, start |-> t, moves |-> moved]
      BY <1>2, <2>1 DEF WithStep
    <2>3. <<n>> \in Seq(Nat)
      BY <2>1
    <2>4. r.bind = a.bind /\ r.steps = <<n>> /\ r.start = t /\ r.moves = moved
      BY <2>2
    <2>6. r \in Episode
      <3>1. [bind |-> a.bind, steps |-> <<n>>, start |-> t, moves |-> moved] \in Episode
        BY <1>1, <2>3, Zenon DEF Episode
      <3> QED BY <3>1, <2>2, Zenon
    <2>5. Grown(n, a, t, result)
      BY <2>1
    <2> QED BY <2>4, <2>5, <2>6, FirstStepIsGood
  <1>3. CASE Started(e)
    <2> DEFINE n == Len(log) + 1
               s == Append(e.steps, n)
               v == e.moves + moved
    <2>1. /\ e.steps \in Seq(Nat) /\ e.steps # <<>> /\ e.moves \in Nat /\ e.start \in Nat
      BY <1>3 DEF Episode, Started
    <2>2. /\ s \in Seq(Nat) /\ Len(e.steps) \in Nat /\ Len(s) = Len(e.steps) + 1
          /\ DOMAIN e.steps = 1..Len(e.steps) /\ DOMAIN s = 1..(Len(e.steps) + 1)
          /\ s[Len(e.steps) + 1] = n /\ \A i \in 1..Len(e.steps) : s[i] = e.steps[i]
      BY <1>1, <2>1, Appended
    <2>3. Len(e.steps) >= 1
      BY <2>1, <2>2
    <2>4. v \in Nat
      BY <1>1, <2>1
    <2>5. r = [e EXCEPT !.steps = s, !.moves = v]
      BY <1>3 DEF WithStep
    <2>6. v = e.moves + moved
      OBVIOUS
    <2> HIDE DEF s, v
    <2>7. r \in Episode /\ r.bind = e.bind /\ r.start = e.start /\ r.moves = v /\ r.steps = s
      BY <2>2, <2>4, <2>5 DEF Episode
    <2>8. Extends(r, e, n, moved)
      BY <2>2, <2>3, <2>6, <2>7 DEF Extends
    <2>9. Good(e) /\ AtEnd(e) /\ e.bind = a.bind
      BY <1>3
    <2> HIDE DEF n
    <2>10. Grown(n, a, t, result)
      BY DEF n
    <2> QED BY <2>8, <2>9, <2>10, NextStepIsGood
  <1> QED BY <1>2, <1>3

-----------------------------------------------------------------------------
(* One verified outcome *)

EvidenceType ==
    /\ episode \in Episode
    /\ experiences \in Seq(Experience) /\ Len(experiences) <= Capacity

LEMMA NoEpisodeType == NoEpisode \in Episode /\ ~Started(NoEpisode)
  <1>1. <<>> \in Seq(Nat)
    OBVIOUS
  <1> QED BY <1>1 DEF NoEpisode, Episode, Started, Binding

LEMMA DiscardKeeps ==
    ASSUME log \in Seq(Outcome), NEW o \in Outcome, log' = Append(log, o), saved' = saved,
           EvidenceType, Evidence, Discard
    PROVE  EvidenceType' /\ Evidence'
  <1>1. episode' = NoEpisode /\ experiences' = experiences
    BY DEF Discard
  <1>2. GoodList(experiences)' /\ GoodList(saved.experiences)'
    BY <1>1, ListStays DEF Evidence, GoodList
  <1> QED BY <1>1, <1>2, NoEpisodeType DEF EvidenceType, Evidence, Started

LEMMA ExtendKeeps ==
    ASSUME log \in Seq(Outcome), NEW o \in Outcome, log' = Append(log, o), saved' = saved,
           EvidenceType, Evidence, UNCHANGED experiences,
           NEW r, Good(r)', AtEnd(r)', episode' = r
    PROVE  EvidenceType' /\ Evidence'
  <1>1. GoodList(experiences)' /\ GoodList(saved.experiences)'
    BY ListStays DEF Evidence, GoodList
  <1>2. r \in Episode
    BY DEF Good
  <1>3. Good(episode)' /\ AtEnd(episode)'
    BY DEF Good, AtEnd, Whole, Own, InTime, Moves, PassedOver, Within, StepOf, Started, LastOf
  <1> QED BY <1>1, <1>2, <1>3 DEF EvidenceType, Evidence

LEMMA CloseKeeps ==
    ASSUME log \in Seq(Outcome), NEW o \in Outcome, log' = Append(log, o), saved' = saved,
           EvidenceType, Evidence,
           NEW r, Good(r)', NEW t \in Nat, NEW success \in BOOLEAN, Close(r, t, success)
    PROVE  EvidenceType' /\ Evidence'
  <1> DEFINE x == [episode |-> r, final |-> t, success |-> success]
  <1>1. x \in Experience /\ x.episode = r
    <2>1. r \in Episode
      BY DEF Good
    <2>2. x \in Experience
      BY <2>1, Zenon DEF Experience
    <2> QED BY <2>2
  <1>2. episode' = NoEpisode /\ experiences' = Pushed(experiences, x)
    BY DEF Close
  <1> HIDE DEF x
  <1>4. /\ experiences' \in Seq(Experience) /\ Len(experiences') <= Capacity
        /\ \A i \in DOMAIN experiences' :
               \/ experiences'[i] = x
               \/ \E k \in DOMAIN experiences : experiences'[i] = experiences[k]
    BY <1>1, <1>2, PushedType DEF EvidenceType
  <1>5. GoodList(experiences)'
    <2> SUFFICES ASSUME NEW i \in DOMAIN experiences', NEW y, y = experiences'[i].episode
                 PROVE  Good(y)'
      BY DEF GoodList, Good, Whole, Own, InTime, Moves, PassedOver, Within, StepOf,
             Started, LastOf
    <2>1. CASE experiences'[i] = x
      BY <2>1, <1>1
    <2>2. CASE \E k \in DOMAIN experiences : experiences'[i] = experiences[k]
      <3>1. PICK k \in DOMAIN experiences : experiences'[i] = experiences[k]
        BY <2>2
      <3>2. PICK z : z = experiences[k].episode
        OBVIOUS
      <3>3. Good(z)'
        BY <3>2, GoodStays DEF Evidence, GoodList
      <3> QED BY <3>1, <3>2, <3>3
    <2> QED BY <2>1, <2>2, <1>4
  <1>6. GoodList(saved.experiences)'
    BY ListStays DEF Evidence, GoodList
  <1> QED BY <1>2, <1>4, <1>5, <1>6, NoEpisodeType DEF EvidenceType, Evidence, Started

\* The episode an outcome belongs to is of the same binding, body schema included.
LEMMA SameEpisodeIsOwn ==
    ASSUME episode \in Episode, NEW a \in Action, a.bind # Unbound,
           ~(Started(episode) /\ episode.bind.body # a.bind.body)
    PROVE  /\ SameEpisode(a) \in Episode
           /\ Started(SameEpisode(a)) =>
                  SameEpisode(a) = episode /\ SameEpisode(a).bind = a.bind
  <1> DEFINE e == SameEpisode(a)
  <1>1. a.bind \in Binding /\ (a.bind = Unbound \/ a.bind.kind \in Kinds)
    BY DEF Action, Binding
  <1>2. CASE e = NoEpisode
    BY <1>2, NoEpisodeType
  <1>3. CASE e = episode /\ episode.bind.id = a.bind.id /\ episode.bind.kind = a.bind.kind
    <2>1. episode.bind \in Binding
      BY DEF Episode
    <2>2. ASSUME Started(episode) PROVE episode.bind = a.bind
      <3>1. episode.bind.body = a.bind.body
        BY <2>2
      <3>2. a.bind.kind # NoKind
        BY <1>1, RouteAssumption
      <3>3. /\ a.bind \in [kind : Kinds, id : Nat, body : Nat]
            /\ episode.bind \in [kind : Kinds, id : Nat, body : Nat]
        BY <1>1, <1>3, <2>1, <3>2 DEF Binding, Unbound
      <3> QED BY <1>3, <3>1, <3>3
    <2> QED BY <1>3, <2>2
  <1> QED BY <1>2, <1>3 DEF SameEpisode

\* What an outcome of a makes of the evidence.
LEMMA RecordKeeps ==
    ASSUME log \in Seq(Outcome), tick \in Nat,
           EvidenceType, Evidence, saved' = saved,
           NEW a \in Action, NEW t \in Nat, NEW result \in Results,
           tick <= t, a.issue <= t, tick' = t,
           log' = Append(log, [action |-> a, tick |-> t, result |-> result]),
           RecordEvidence(a, t, result)
    PROVE  log' \in Seq(Outcome) /\ EvidenceType' /\ Evidence'
  <1> DEFINE e == SameEpisode(a)
             moved == IF a.cap = "APPROACH" /\ result = "ok" THEN 1 ELSE 0
  <1>1. PICK o \in Outcome : /\ o = [action |-> a, tick |-> t, result |-> result]
                             /\ log' = Append(log, o)
    BY DEF Outcome
  <1>2. log' \in Seq(Outcome)
    BY <1>1, Appended
  <1>3. Grown(Len(log) + 1, a, t, result)
    BY LogGrows
  <1>4. a.bind \in Binding /\ (a.bind = Unbound \/ a.bind.kind \in Kinds)
    BY DEF Action, Binding
  <1>5. ASSUME Discard PROVE EvidenceType' /\ Evidence'
    BY <1>1, <1>5, DiscardKeeps
  <1>6. ASSUME ~(Started(episode) /\ episode.bind.body # a.bind.body), a.bind # Unbound
        PROVE  /\ e \in Episode
               /\ Started(e) => Good(e) /\ AtEnd(e) /\ e.bind = a.bind
    <2>1. PICK f : f = e
      OBVIOUS
    <2>2. f \in Episode /\ (Started(f) => f = episode /\ f.bind = a.bind)
      BY <1>6, <2>1, SameEpisodeIsOwn DEF EvidenceType
    <2>3. Started(f) => Good(f) /\ AtEnd(f)
      BY <2>2 DEF Evidence
    <2> QED BY <2>1, <2>2, <2>3
  <1>7. ASSUME e \in Episode, Started(e) => Good(e) /\ AtEnd(e) /\ e.bind = a.bind,
               NEW r, r = WithStep(e, a, t, moved)
        PROVE  Good(r)' /\ AtEnd(r)'
    BY <1>3, <1>7, StepIsGood
  <1> HIDE DEF moved
  <1>8. ASSUME ControlStep(e, a, t, result), a.cap \in {"APPROACH", "ORIENT"},
               e \in Episode, Started(e) => Good(e) /\ AtEnd(e) /\ e.bind = a.bind
        PROVE  EvidenceType' /\ Evidence'
    <2>1. PICK r : r = WithStep(e, a, t, moved)
      OBVIOUS
    <2>2. Good(r)' /\ AtEnd(r)'
      BY <1>7, <1>8, <2>1
    <2>3. CASE result = "ok"
      <3>1. episode' = r /\ UNCHANGED experiences
        BY <1>8, <2>1, <2>3 DEF ControlStep, moved
      <3> QED BY <1>1, <2>2, <3>1, ExtendKeeps
    <2>4. CASE result # "ok"
      <3>1. Close(r, t, FALSE)
        BY <1>8, <2>1, <2>4 DEF ControlStep, moved
      <3> QED BY <1>1, <2>2, <3>1, CloseKeeps
    <2> QED BY <2>3, <2>4
  <1>9. ASSUME TerminalStep(e, a, t, result), a.cap \notin {"APPROACH", "ORIENT"},
               e \in Episode, Started(e) => Good(e) /\ AtEnd(e) /\ e.bind = a.bind
        PROVE  EvidenceType' /\ Evidence'
    <2>1. PICK r : r = WithStep(e, a, t, moved)
      OBVIOUS
    <2>2. Good(r)' /\ AtEnd(r)' /\ moved = 0
      BY <1>7, <1>9, <2>1 DEF moved
    <2>3. \/ \E success \in BOOLEAN : Close(r, t, success)
          \/ Discard
          \/ episode' = r /\ UNCHANGED experiences
      BY <1>9, <2>1, <2>2 DEF TerminalStep
    <2>4. ASSUME NEW success \in BOOLEAN, Close(r, t, success)
          PROVE  EvidenceType' /\ Evidence'
      BY <1>1, <2>2, <2>4, CloseKeeps
    <2>5. ASSUME episode' = r, UNCHANGED experiences
          PROVE  EvidenceType' /\ Evidence'
      BY <1>1, <2>2, <2>5, ExtendKeeps
    <2> QED BY <1>5, <2>3, <2>4, <2>5
  <1>10. CASE a.bind = Unbound
    <2>1. a.bind.kind \notin DOMAIN Terminals
      BY <1>10, RouteAssumption DEF Unbound
    <2>2. Discard
      BY <1>10, <2>1 DEF RecordEvidence
    <2> QED BY <1>2, <1>5, <2>2
  <1>11. CASE a.bind # Unbound /\ a.bind.kind \in DOMAIN Terminals
    <2>1. RecordBound(a, t, result)
      BY <1>11 DEF RecordEvidence
    <2>2. CASE Started(episode) /\ episode.bind.body # a.bind.body
      BY <1>2, <1>5, <2>1, <2>2 DEF RecordBound
    <2>3. CASE ~(Started(episode) /\ episode.bind.body # a.bind.body)
      <3>1. \/ a.cap \in {"APPROACH", "ORIENT"} /\ ControlStep(e, a, t, result)
            \/ a.cap \notin {"APPROACH", "ORIENT"} /\ TerminalStep(e, a, t, result)
            \/ Discard
        <4>1. Terminals[a.bind.kind] \notin {"APPROACH", "ORIENT"}
          BY <1>11, RouteAssumption DEF Motions
        <4> QED BY <2>1, <2>3, <4>1 DEF RecordBound
      <3>2. e \in Episode /\ (Started(e) => Good(e) /\ AtEnd(e) /\ e.bind = a.bind)
        BY <1>6, <1>11, <2>3
      <3> HIDE DEF e
      <3> QED BY <1>2, <1>5, <1>8, <1>9, <3>1, <3>2
    <2> QED BY <2>2, <2>3
  <1>12. CASE a.bind # Unbound /\ a.bind.kind \notin DOMAIN Terminals
    <2>1. UNCHANGED <<episode, experiences>>
      BY <1>12 DEF RecordEvidence
    <2>2. GoodList(experiences)' /\ GoodList(saved.experiences)'
      BY <1>1, <2>1, ListStays DEF Evidence, GoodList
    <2>3. ASSUME Started(episode) PROVE Good(episode)' /\ AtEnd(episode)'
      <3>1. PICK r : r = episode
        OBVIOUS
      <3>2. Good(r) /\ AtEnd(r)
        BY <2>3, <3>1 DEF Evidence
      <3>3. Good(r)'
        BY <1>1, <3>2, GoodStays
      <3>4. AtEnd(r)'
        <4>1. /\ DOMAIN log' = 1..(Len(log) + 1) /\ DOMAIN log = 1..Len(log) /\ Len(log) \in Nat
              /\ log'[Len(log) + 1].action = a
              /\ \A k \in DOMAIN log : log'[k] = log[k] /\ log[k] \in Outcome
          BY <1>3 DEF Grown
        <4>2. r.steps \in Seq(Nat) /\ Len(r.steps) \in DOMAIN r.steps
          BY <3>2 DEF Good, Episode, Started
        <4>3. LastOf(r.steps) \in DOMAIN log
          BY <3>2, <4>2 DEF Good, LastOf
        <4>4. log[LastOf(r.steps)].tick \in Nat /\ log[LastOf(r.steps)].tick <= tick
          BY <3>2, <4>1, <4>3 DEF AtEnd, Outcome
        <4>5. log'[LastOf(r.steps)].tick <= tick'
          BY <4>1, <4>3, <4>4
        <4>6. ASSUME NEW n \in DOMAIN log', n > LastOf(r.steps) PROVE PassedOver(n)'
          <5>1. CASE n \in DOMAIN log
            BY <3>2, <4>1, <4>6, <5>1 DEF AtEnd, PassedOver
          <5>2. CASE n = Len(log) + 1
            BY <1>4, <1>12, <4>1, <5>2 DEF PassedOver
          <5> QED BY <4>1, <5>1, <5>2
        <4> QED BY <4>5, <4>6 DEF AtEnd, PassedOver, LastOf
      <3> QED BY <2>1, <3>1, <3>3, <3>4
          DEF Good, AtEnd, Whole, Own, InTime, Moves, PassedOver, Within, StepOf, Started, LastOf
    <2> QED BY <1>2, <2>1, <2>2, <2>3 DEF EvidenceType, Evidence, Started
  <1> QED BY <1>10, <1>11, <1>12

-----------------------------------------------------------------------------
(* The steps of Next *)

LEMMA SameLog ==
    ASSUME log' = log, NEW r, Good(r)
    PROVE  Good(r)'
  BY DEF Good, Whole, Own, InTime, Moves, PassedOver, Within, StepOf, Started, LastOf

\* What happens to no outcome leaves the evidence alone, as long as time goes on.
LEMMA EvidenceStays ==
    ASSUME Evidence, UNCHANGED <<log, episode, experiences>>,
           tick \in Nat, tick' \in Nat, tick <= tick', log \in Seq(Outcome),
           saved'.experiences \in {saved.experiences, experiences}
    PROVE  Evidence'
  <1>1. GoodList(experiences)' /\ GoodList(saved.experiences)'
    BY SameLog DEF Evidence, GoodList
  <1>2. ASSUME Started(episode) PROVE Good(episode)' /\ AtEnd(episode)'
    <2>1. PICK r : r = episode
      OBVIOUS
    <2>2. Good(r) /\ AtEnd(r)
      BY <1>2, <2>1 DEF Evidence
    <2>3. Good(r)'
      BY <2>2, SameLog
    <2>4. log[LastOf(r.steps)].tick \in Nat
      <3>1. r.steps \in Seq(Nat) /\ Len(r.steps) \in DOMAIN r.steps
        BY <2>2 DEF Good, Episode, Started
      <3>2. LastOf(r.steps) \in DOMAIN log
        BY <2>2, <3>1 DEF Good, LastOf
      <3>3. log[LastOf(r.steps)] \in Outcome
        BY <3>2
      <3> QED BY <3>3 DEF Outcome
    <2>5. AtEnd(r)'
      BY <2>2, <2>4 DEF AtEnd, PassedOver, LastOf
    <2> QED BY <2>1, <2>3, <2>5
        DEF Good, AtEnd, Whole, Own, InTime, Moves, PassedOver, Within, StepOf, Started, LastOf
  <1> QED BY <1>1, <1>2 DEF Evidence, Started

LEMMA InitOK == Init => IInv
  <1> SUFFICES ASSUME Init PROVE IInv
    OBVIOUS
  <1>1. Absent \in Entity /\ entity \in [Kinds -> Entity]
    BY DEF Init, Absent, Entity
  <1>2. NoDelayed \in Delayed /\ NoDelayed.action.issue = 0
    BY DEF NoDelayed, NoAction, Delayed, Action, Capabilities, Motions, Binding
  <1>3. <<>> \in Seq(Experience) /\ <<>> \in Seq(Outcome) /\ Len(<<>>) <= Capacity
    BY RouteAssumption
  <1>4. body \in 1..MaxBody
    BY RouteAssumption DEF Init
  <1>5. saved \in Snapshot
    BY <1>1, <1>2, <1>3, <1>4 DEF Init, Snapshot
  <1>6. TypeOK
    BY <1>1, <1>2, <1>3, <1>4, <1>5, NoEpisodeType, RouteAssumption DEF Init, TypeOK
  <1>7. Evidence
    BY NoEpisodeType DEF Init, Evidence, GoodList
  <1> QED BY <1>2, <1>6, <1>7 DEF IInv, IssuedBefore, Init

LEMMA IngestType ==
    ASSUME NEW t \in Nat, Ingest(t), TypeOK
    PROVE  entity' \in [Kinds -> Entity] /\ changes' \in Nat
  <1>1. CASE UNCHANGED <<entity, changes>>
    BY <1>1 DEF TypeOK
  <1>2. CASE ~UNCHANGED <<entity, changes>>
    <2>1. PICK seen \in SUBSET Kinds, lost \in SUBSET Kinds, support \in {0, body} :
              entity' = [k \in Kinds |->
                  IF k \in seen
                  THEN [id |-> IF entity[k].id = 0 THEN t ELSE entity[k].id,
                        support |-> support]
                  ELSE IF k \in lost THEN Absent ELSE entity[k]]
      BY <1>2 DEF Ingest
    <2>2. support \in Nat /\ Absent \in Entity
      BY DEF TypeOK, Absent, Entity
    <2>3. ASSUME NEW k \in Kinds
          PROVE  entity'[k] \in Entity
      <3>1. entity[k] \in Entity /\ entity[k].id \in Nat
        BY DEF TypeOK, Entity
      <3>2. ASSUME NEW id \in Nat PROVE [id |-> id, support |-> support] \in Entity
        BY <2>2 DEF Entity
      <3> QED BY <2>1, <2>2, <3>1, <3>2
    <2>4. changes' \in Nat
      BY <1>2 DEF Ingest, TypeOK
    <2> QED BY <2>1, <2>3, <2>4
  <1> QED BY <1>1, <1>2

LEMMA ResultType == ASSUME NEW a PROVE ResultsOf(a) \subseteq Results
  BY DEF ResultsOf, Results

LEMMA BeginTickOK == ASSUME IInv, BeginTick PROVE IInv'
  <1>1. TypeOK /\ Evidence /\ IssuedBefore /\ EvidenceType
    BY DEF IInv, TypeOK, EvidenceType
  <1>2. tick \in Nat /\ tick' = tick + 1 /\ tick' \in Nat /\ saved' = saved
    BY <1>1 DEF BeginTick, TypeOK
  <1>3. entity' \in [Kinds -> Entity] /\ changes' \in Nat
    BY <1>1, <1>2, IngestType DEF BeginTick
  <1>4. delayed \in Delayed /\ delayed.action \in Action /\ delayed.left \in Nat
        /\ delayed.action.issue \in Nat /\ delayed.action.issue <= tick
    BY <1>1 DEF TypeOK, Delayed, Action, IssuedBefore
  <1>5. /\ log' \in Seq(Outcome) /\ EvidenceType' /\ Evidence'
        /\ body' \in 1..MaxBody /\ delayed' \in Delayed /\ delayed'.action.issue <= tick'
    <2>1. CASE delayed.left = 1
      <3>1. delayed' = NoDelayed
        BY <2>1 DEF BeginTick, Completed
      <3>2. PICK result \in Results : FinishOutcome(delayed.action, tick + 1, result)
        BY <2>1, ResultType DEF BeginTick
      <3>3. log' \in Seq(Outcome) /\ EvidenceType' /\ Evidence'
        <4>1. /\ RecordEvidence(delayed.action, tick + 1, result)
              /\ log' = Append(log, [action |-> delayed.action, tick |-> tick + 1,
                                     result |-> result])
          BY <3>2 DEF FinishOutcome
        <4>2. log \in Seq(Outcome) /\ tick + 1 \in Nat /\ tick <= tick + 1
              /\ delayed.action.issue <= tick + 1
          BY <1>1, <1>2, <1>4 DEF TypeOK
        <4> QED BY <1>1, <1>2, <1>4, <4>1, <4>2, RecordKeeps
      <3>4. body' \in 1..MaxBody
        BY <1>1, <3>2 DEF FinishOutcome, TypeOK
      <3>5. NoDelayed \in Delayed /\ NoDelayed.action.issue = 0
        BY DEF NoDelayed, NoAction, Delayed, Action, Capabilities, Motions, Binding
      <3> QED BY <1>2, <3>1, <3>3, <3>4, <3>5
    <2>2. CASE delayed.left # 1
      <3>1. /\ delayed' = [delayed EXCEPT !.left = IF @ = 0 THEN 0 ELSE @ - 1]
            /\ UNCHANGED <<body, episode, experiences, log>>
        BY <2>2 DEF BeginTick
      <3>2. delayed' \in Delayed /\ delayed'.action = delayed.action
        BY <1>4, <3>1 DEF Delayed
      <3>3. EvidenceType' /\ Evidence'
        BY <1>1, <1>2, <3>1, EvidenceStays DEF TypeOK, EvidenceType
      <3> QED BY <1>1, <1>2, <1>4, <3>1, <3>2, <3>3 DEF TypeOK
    <2> QED BY <2>1, <2>2
  <1>6. TypeOK'
    <2>1. acting' = TRUE /\ UNCHANGED <<delay, issued, saved, restarts>>
      BY DEF BeginTick
    <2>2. /\ acting' \in BOOLEAN /\ issued' \in Nat /\ entity' \in [Kinds -> Entity]
          /\ delay' \in Nat /\ changes' \in Nat /\ restarts' \in Nat
          /\ saved' \in Snapshot /\ Len(saved'.experiences) <= Capacity
      BY <1>1, <1>3, <2>1 DEF TypeOK
    <2>3. /\ episode' \in Episode /\ experiences' \in Seq(Experience)
          /\ Len(experiences') <= Capacity
      BY <1>5 DEF EvidenceType
    <2>4. tick' \in Nat
      BY <1>2
    <2> QED BY ONLY <1>5, <2>2, <2>3, <2>4, Zenon DEF TypeOK
  <1>7. IssuedBefore'
    BY <1>1, <1>2, <1>5 DEF IssuedBefore
  <1> QED BY <1>5, <1>6, <1>7 DEF IInv

LEMMA IssuedType ==
    ASSUME TypeOK, NEW p \in Proposal
    PROVE  Issued(p) \in Action /\ Issued(p).issue = tick
  <1>1. /\ p[1] \in Capabilities /\ p[2] \in Kinds \cup {NoKind}
    <2> DEFINE Ends == {Terminals[k] : k \in DOMAIN Terminals}
    <2>1. CASE p \in Unboundable \X {NoKind}
      BY <2>1 DEF Capabilities
    <2>2. CASE p \in {"ORIENT"} \X Kinds
      BY <2>2 DEF Capabilities, Motions
    <2>3. CASE p \in ({"APPROACH"} \cup Ends) \X DOMAIN Terminals
      <3>1. p[1] = "APPROACH" \/ p[1] \in Ends
        BY <2>3
      <3>2. p[2] \in DOMAIN Terminals
        BY <2>3
      <3>3. p[1] \in Capabilities
        BY <3>1 DEF Capabilities, Motions
      <3> QED BY <3>2, <3>3, RouteAssumption
    <2> QED BY <2>1, <2>2, <2>3 DEF Proposal
  <1>2. Bind(p[1], p[2]) \in Binding
    <2>1. Unbound \in Binding
      BY DEF Binding
    <2>2. ASSUME p[2] \in Kinds
          PROVE  [kind |-> p[2], id |-> entity[p[2]].id, body |-> body] \in Binding
      BY <2>2 DEF Binding, TypeOK, Entity
    <2> QED BY <1>1, <2>1, <2>2 DEF Bind
  <1> QED BY <1>1, <1>2 DEF Issued, Action, TypeOK

LEMMA ActOK == ASSUME IInv, Act PROVE IInv'
  <1>1. TypeOK /\ Evidence /\ IssuedBefore /\ EvidenceType
    BY DEF IInv, TypeOK, EvidenceType
  <1>2. tick \in Nat /\ tick' = tick /\ saved' = saved
    BY <1>1 DEF Act, TypeOK
  <1>3. PICK p \in Proposal : ActDelayed(p) \/ ActNow(p)
    BY DEF Act
  <1>4. PICK a \in Action : a = Issued(p) /\ a.issue = tick
    BY <1>1, IssuedType
  <1>5. /\ log' \in Seq(Outcome) /\ EvidenceType' /\ Evidence'
        /\ body' \in 1..MaxBody /\ delayed' \in Delayed /\ delayed'.action.issue <= tick'
    <2>1. CASE ActDelayed(p)
      <3>1. /\ delayed' = [action |-> a, left |-> delay]
            /\ UNCHANGED <<body, episode, experiences, log>>
        BY <1>4, <2>1 DEF ActDelayed
      <3>2. delayed' \in Delayed /\ delayed'.action = a
        BY <1>1, <3>1 DEF Delayed, TypeOK
      <3>3. EvidenceType' /\ Evidence'
        BY <1>1, <1>2, <3>1, EvidenceStays DEF TypeOK, EvidenceType
      <3> QED BY <1>1, <1>2, <1>4, <3>1, <3>2, <3>3 DEF TypeOK
    <2>2. CASE ActNow(p)
      <3>1. PICK result \in Results : FinishOutcome(a, tick, result)
        BY <1>4, <2>2, ResultType DEF ActNow
      <3>2. log' \in Seq(Outcome) /\ EvidenceType' /\ Evidence'
        <4>1. /\ RecordEvidence(a, tick, result)
              /\ log' = Append(log, [action |-> a, tick |-> tick, result |-> result])
          BY <3>1 DEF FinishOutcome
        <4>2. log \in Seq(Outcome) /\ tick <= tick /\ a.issue <= tick
          BY <1>1, <1>2, <1>4 DEF TypeOK
        <4> QED BY <1>1, <1>2, <4>1, <4>2, RecordKeeps
      <3>3. body' \in 1..MaxBody
        BY <1>1, <3>1 DEF FinishOutcome, TypeOK
      <3>4. delayed' = delayed
        BY <2>2 DEF ActNow
      <3> QED BY <1>1, <1>2, <3>2, <3>3, <3>4 DEF TypeOK, IssuedBefore
    <2> QED BY <1>3, <2>1, <2>2
  <1>6. TypeOK'
    <2>1. /\ acting' = FALSE /\ issued' = issued + 1
          /\ UNCHANGED <<entity, delay, changes, saved, restarts>>
      BY DEF Act
    <2>2. /\ acting' \in BOOLEAN /\ issued' \in Nat /\ entity' \in [Kinds -> Entity]
          /\ delay' \in Nat /\ changes' \in Nat /\ restarts' \in Nat
          /\ saved' \in Snapshot /\ Len(saved'.experiences) <= Capacity
      <3>1. acting' \in BOOLEAN
        BY <2>1
      <3>2. issued \in Nat /\ issued' \in Nat
        BY <1>1, <2>1 DEF TypeOK
      <3>3. /\ entity \in [Kinds -> Entity] /\ delay \in Nat /\ changes \in Nat
            /\ restarts \in Nat /\ saved \in Snapshot /\ Len(saved.experiences) <= Capacity
        BY <1>1, Zenon DEF TypeOK
      <3> QED BY ONLY <2>1, <3>1, <3>2, <3>3
    <2>3. /\ episode' \in Episode /\ experiences' \in Seq(Experience)
          /\ Len(experiences') <= Capacity
      BY <1>5 DEF EvidenceType
    <2>4. tick' \in Nat
      BY <1>2
    <2> QED BY ONLY <1>5, <2>2, <2>3, <2>4, Zenon DEF TypeOK
  <1>7. IssuedBefore'
    BY <1>1, <1>2, <1>5 DEF IssuedBefore
  <1> QED BY <1>5, <1>6, <1>7 DEF IInv

LEMMA DeniedOK == ASSUME IInv, Denied PROVE IInv'
  <1>1. Evidence'
    BY EvidenceStays DEF IInv, TypeOK, Denied
  <1> QED BY <1>1 DEF IInv, TypeOK, IssuedBefore, Denied

LEMMA SaveOK == ASSUME IInv, Save PROVE IInv'
  <1>1. /\ UNCHANGED <<tick, acting, entity, body, delay, delayed, episode, experiences, log,
                       issued, changes, restarts>>
        /\ saved' = [tick |-> tick, entity |-> entity, body |-> body, delayed |-> delayed,
                     experiences |-> experiences]
    BY DEF Save
  <1>2. saved' \in Snapshot /\ saved'.experiences = experiences
        /\ saved'.delayed = delayed /\ saved'.tick = tick
    BY <1>1 DEF IInv, TypeOK, Snapshot
  <1>3. Evidence'
    BY <1>1, <1>2, EvidenceStays DEF IInv, TypeOK
  <1>4. TypeOK'
    BY <1>1, <1>2 DEF IInv, TypeOK
  <1>5. IssuedBefore'
    BY <1>1, <1>2 DEF IInv, IssuedBefore
  <1> QED BY <1>3, <1>4, <1>5 DEF IInv

LEMMA RestartOK == ASSUME IInv, Restart PROVE IInv'
  <1>1. /\ tick' = saved.tick /\ entity' = saved.entity /\ body' = saved.body
        /\ delayed' = saved.delayed /\ experiences' = saved.experiences
        /\ episode' = NoEpisode /\ acting' = FALSE
        /\ UNCHANGED <<delay, log, issued, changes, saved>>
        /\ restarts' = restarts + 1
    BY DEF Restart, ResumedTick
  <1>2. /\ saved.tick \in Nat /\ saved.entity \in [Kinds -> Entity]
        /\ saved.body \in 1..MaxBody /\ saved.delayed \in Delayed
        /\ saved.experiences \in Seq(Experience) /\ Len(saved.experiences) <= Capacity
        /\ saved \in Snapshot /\ log \in Seq(Outcome)
        /\ delay \in Nat /\ issued \in Nat /\ changes \in Nat /\ restarts \in Nat
    BY DEF IInv, TypeOK, Snapshot
  <1>3. TypeOK'
    <2>1. /\ tick' \in Nat /\ acting' \in BOOLEAN /\ delay' \in Nat /\ issued' \in Nat
          /\ changes' \in Nat /\ restarts' \in Nat
      <3>1. tick' \in Nat /\ delay' \in Nat /\ issued' \in Nat /\ changes' \in Nat
        BY <1>1, <1>2, Zenon
      <3>2. acting' = FALSE
        BY <1>1, Zenon
      <3>3. restarts' = restarts + 1 /\ restarts \in Nat
        BY <1>1, <1>2, Zenon
      <3>4. restarts' \in Nat
        BY ONLY <3>3
      <3> QED BY ONLY <3>1, <3>2, <3>4
    <2>2. /\ entity' \in [Kinds -> Entity] /\ body' \in 1..MaxBody
          /\ delayed' \in Delayed /\ log' \in Seq(Outcome)
      BY <1>1, <1>2
    <2>3. saved' \in Snapshot /\ Len(saved'.experiences) <= Capacity
      BY <1>1, <1>2
    <2>4. episode' \in Episode
      BY <1>1, NoEpisodeType
    <2>5. experiences' \in Seq(Experience) /\ Len(experiences') <= Capacity
      BY <1>1, <1>2
    <2> QED BY ONLY <2>1, <2>2, <2>3, <2>4, <2>5, Zenon DEF TypeOK
  <1>4. GoodList(saved.experiences)' /\ GoodList(experiences)'
    BY <1>1, SameLog DEF IInv, Evidence, GoodList
  <1>5. Evidence'
    BY <1>1, <1>4, NoEpisodeType DEF Evidence, Started
  <1>6. IssuedBefore'
    BY <1>1 DEF IInv, IssuedBefore
  <1> QED BY <1>3, <1>5, <1>6 DEF IInv

LEMMA StutterOK == ASSUME IInv, UNCHANGED vars PROVE IInv'
  <1>1. Evidence'
    BY EvidenceStays DEF IInv, TypeOK, vars
  <1> QED BY <1>1 DEF IInv, TypeOK, IssuedBefore, vars

-----------------------------------------------------------------------------
(* How routes end *)

\* No step of r failed for good.
Mild(r) == \A k \in DOMAIN r.steps : log[r.steps[k]].result # "failed"

EndOf(r, final, success) ==
    /\ final = log[LastOf(r.steps)].tick
    /\ success <=> log[LastOf(r.steps)].result = "ok"
    /\ success => log[LastOf(r.steps)].action.cap = Terminals[r.bind.kind]
    /\ \A k \in 1..(Len(r.steps) - 1) : log[r.steps[k]].result # "failed"

EndOK(x) == EndOf(x.episode, x.final, x.success)

EndList(list) == \A i \in DOMAIN list : EndOK(list[i])

Ends ==
    /\ Started(episode) => Mild(episode)
    /\ EndList(experiences)
    /\ EndList(saved.experiences)

\* The steps of a good route are outcomes, which the log keeps.
LEMMA StepsLogged ==
    ASSUME log \in Seq(Outcome), NEW o \in Outcome, log' = Append(log, o), NEW r, Good(r)
    PROVE  /\ Len(r.steps) \in Nat /\ Len(r.steps) >= 1 /\ DOMAIN r.steps = 1..Len(r.steps)
           /\ \A k \in 1..Len(r.steps) : log'[r.steps[k]] = log[r.steps[k]]
  <1>1. r.steps \in Seq(Nat) /\ r.steps # <<>>
    BY DEF Good, Episode, Started
  <1>2. \A n \in DOMAIN log : log'[n] = log[n]
    OBVIOUS
  <1> QED BY <1>1, <1>2 DEF Good

LEMMA EndStays ==
    ASSUME log \in Seq(Outcome), NEW o \in Outcome, log' = Append(log, o),
           NEW r, Good(r), NEW final, NEW success, EndOf(r, final, success)
    PROVE  EndOf(r, final, success)'
  <1> DEFINE m == Len(r.steps)
  <1>1. m \in Nat /\ m >= 1 /\ \A k \in 1..m : log'[r.steps[k]] = log[r.steps[k]]
    BY StepsLogged
  <1>2. /\ final = log[r.steps[m]].tick
        /\ success <=> log[r.steps[m]].result = "ok"
        /\ success => log[r.steps[m]].action.cap = Terminals[r.bind.kind]
        /\ \A k \in 1..(m - 1) : log[r.steps[k]].result # "failed"
    BY DEF EndOf, LastOf
  <1> SUFFICES /\ final = log'[r.steps[m]].tick
               /\ success <=> log'[r.steps[m]].result = "ok"
               /\ success => log'[r.steps[m]].action.cap = Terminals[r.bind.kind]
               /\ \A k \in 1..(m - 1) : log'[r.steps[k]].result # "failed"
    BY DEF EndOf, LastOf
  <1> HIDE DEF m
  <1>3. log'[r.steps[m]] = log[r.steps[m]]
    <2>1. m \in 1..m
      BY <1>1
    <2> QED BY <1>1, <2>1, Zenon
  <1>4. ASSUME NEW k \in 1..(m - 1) PROVE log'[r.steps[k]].result # "failed"
    <2>1. k \in 1..m
      BY <1>1
    <2>2. log'[r.steps[k]] = log[r.steps[k]]
      BY <1>1, <2>1, Zenon
    <2> QED BY <1>2, <2>2, Zenon
  <1>5. PICK l : l = log[r.steps[m]] /\ l = log'[r.steps[m]]
    BY <1>3, Zenon
  <1>6. \A k \in 1..(m - 1) : log'[r.steps[k]].result # "failed"
    BY <1>4
  <1> QED BY <1>2, <1>5, <1>6, Zenon

LEMMA EndListStays ==
    ASSUME log \in Seq(Outcome), NEW o \in Outcome, log' = Append(log, o),
           NEW list, GoodList(list), EndList(list)
    PROVE  \A i \in DOMAIN list : EndOK(list[i])'
  BY EndStays DEF GoodList, EndList, EndOK

\* The outcome of a at the end of an episode without failures.
LEMMA StepEnds ==
    ASSUME log \in Seq(Outcome),
           NEW a \in Action, NEW t \in Nat, NEW result \in Results,
           log' = Append(log, [action |-> a, tick |-> t, result |-> result]),
           NEW e \in Episode, Started(e) => Good(e) /\ Mild(e) /\ e.bind = a.bind,
           NEW moved, NEW r, r = WithStep(e, a, t, moved)
    PROVE  /\ r.bind = a.bind
           /\ \A success \in BOOLEAN :
                  /\ success <=> result = "ok"
                  /\ success => a.cap = Terminals[a.bind.kind]
                  => EndOf(r, t, success)'
           /\ result # "failed" => Mild(r)'
  <1>1. PICK o \in Outcome : /\ o = [action |-> a, tick |-> t, result |-> result]
                             /\ o.action = a /\ o.tick = t /\ o.result = result
    BY DEF Outcome
  <1>2. log' = Append(log, o)
    BY <1>1
  <1>3. PICK n \in Nat : n = Len(log) + 1 /\ log'[n] = o
    BY <1>2, Appended
  <1>4. PICK m \in Nat : /\ r.bind = a.bind /\ Len(r.steps) = m + 1
                         /\ DOMAIN r.steps = 1..(m + 1) /\ r.steps[m + 1] = n
                         /\ \A k \in 1..m : log'[r.steps[k]].result # "failed"
    <2>1. CASE ~Started(e)
      <3>1. r = [bind |-> a.bind, steps |-> <<n>>, start |-> t, moves |-> moved]
        BY <1>3, <2>1 DEF WithStep
      <3>2. r.bind = a.bind /\ r.steps = <<n>>
        BY <3>1
      <3>3. /\ r.bind = a.bind /\ Len(r.steps) = 0 + 1 /\ DOMAIN r.steps = 1..(0 + 1)
            /\ r.steps[0 + 1] = n /\ \A k \in 1..0 : log'[r.steps[k]].result # "failed"
        BY <3>2
      <3> QED BY <3>3
    <2>2. CASE Started(e)
      <3>1. Good(e) /\ Mild(e) /\ e.bind = a.bind
        BY <2>2
      <3>2. e.steps \in Seq(Nat)
        BY DEF Episode
      <3>3. PICK m \in Nat : /\ m = Len(e.steps) /\ DOMAIN e.steps = 1..m
                             /\ \A k \in 1..m : log'[e.steps[k]] = log[e.steps[k]]
        BY <1>2, <3>1, StepsLogged
      <3>4. PICK s : s = Append(e.steps, n)
        OBVIOUS
      <3>5. /\ Len(s) = m + 1 /\ DOMAIN s = 1..(m + 1)
            /\ s[m + 1] = n /\ \A i \in 1..m : s[i] = e.steps[i]
        BY <3>2, <3>3, <3>4, Appended
      <3>6. r.bind = e.bind /\ r.steps = s
        BY <1>3, <2>2, <3>4 DEF WithStep, Episode
      <3>7. \A k \in 1..m : log'[e.steps[k]].result # "failed"
        BY <3>1, <3>3 DEF Mild
      <3>8. \A k \in 1..m : log'[s[k]].result # "failed"
        BY <3>5, <3>7
      <3>9. /\ r.bind = a.bind /\ Len(r.steps) = m + 1
            /\ DOMAIN r.steps = 1..(m + 1) /\ r.steps[m + 1] = n
            /\ \A k \in 1..m : log'[r.steps[k]].result # "failed"
        BY ONLY <3>1, <3>5, <3>6, <3>8, Zenon
      <3> QED BY <3>9
    <2> QED BY <2>1, <2>2
  <1>5. Len(r.steps) - 1 = m
    BY <1>4
  <1>6. LastOf(r.steps) = n
    BY <1>4 DEF LastOf
  <1>7. ASSUME NEW success \in BOOLEAN, success <=> result = "ok",
               success => a.cap = Terminals[a.bind.kind]
        PROVE  EndOf(r, t, success)'
    <2> SUFFICES /\ t = log'[n].tick /\ (success <=> log'[n].result = "ok")
                 /\ success => log'[n].action.cap = Terminals[r.bind.kind]
                 /\ \A k \in 1..m : log'[r.steps[k]].result # "failed"
      BY <1>5, <1>6 DEF EndOf, LastOf
    <2>1. log'[n].tick = t /\ log'[n].result = result /\ log'[n].action = a
      BY <1>1, <1>3, Zenon
    <2> QED BY ONLY <1>4, <1>7, <2>1, Zenon
  <1>8. ASSUME result # "failed" PROVE Mild(r)'
    <2>1. log'[r.steps[m + 1]].result # "failed"
      BY <1>1, <1>3, <1>4, <1>8
    <2>2. \A k \in 1..(m + 1) : k \in 1..m \/ k = m + 1
      OBVIOUS
    <2>3. \A k \in DOMAIN r.steps : log'[r.steps[k]].result # "failed"
      BY <1>4, <2>1, <2>2
    <2> QED BY <2>3 DEF Mild
  <1> QED BY <1>4, <1>7, <1>8

LEMMA DiscardEnds ==
    ASSUME log \in Seq(Outcome), NEW o \in Outcome, log' = Append(log, o), saved' = saved,
           Evidence, Ends, Discard
    PROVE  Ends'
  <1>1. episode' = NoEpisode /\ experiences' = experiences
    BY DEF Discard
  <1>2. EndList(experiences)' /\ EndList(saved.experiences)'
    BY <1>1, EndListStays DEF Evidence, Ends, EndList
  <1> QED BY <1>1, <1>2, NoEpisodeType DEF Ends, Started

LEMMA ExtendEnds ==
    ASSUME log \in Seq(Outcome), NEW o \in Outcome, log' = Append(log, o), saved' = saved,
           Evidence, Ends, UNCHANGED experiences, NEW r, Mild(r)', episode' = r
    PROVE  Ends'
  <1>1. EndList(experiences)' /\ EndList(saved.experiences)'
    BY EndListStays DEF Evidence, Ends, EndList
  <1>2. Mild(episode)'
    BY DEF Mild
  <1> QED BY <1>1, <1>2 DEF Ends

LEMMA CloseEnds ==
    ASSUME log \in Seq(Outcome), NEW o \in Outcome, log' = Append(log, o), saved' = saved,
           EvidenceType, Evidence, Ends,
           NEW r \in Episode, NEW t \in Nat, NEW success \in BOOLEAN, Close(r, t, success),
           EndOf(r, t, success)'
    PROVE  Ends'
  <1> DEFINE y == [episode |-> r, final |-> t, success |-> success]
  <1>1. y \in Experience
    BY Zenon DEF Experience
  <1>2. PICK x \in Experience : x = y
    BY <1>1
  <1>3. x.episode = r /\ x.final = t /\ x.success = success
    BY <1>2
  <1>4. episode' = NoEpisode /\ experiences' = Pushed(experiences, x)
    BY <1>2 DEF Close
  <1> HIDE DEF y
  <1>5. EndOK(x)'
    BY <1>3 DEF EndOK, EndOf, LastOf
  <1>6. \A i \in DOMAIN experiences' :
            \/ experiences'[i] = x
            \/ \E k \in DOMAIN experiences : experiences'[i] = experiences[k]
    BY <1>4, PushedType DEF EvidenceType
  <1>7. EndList(experiences)'
    <2> SUFFICES ASSUME NEW i \in DOMAIN experiences', NEW z, z = experiences'[i]
                 PROVE  EndOK(z)'
      BY DEF EndList, EndOK, EndOf, LastOf
    <2>1. CASE experiences'[i] = x
      BY <1>5, <2>1
    <2>2. CASE \E k \in DOMAIN experiences : experiences'[i] = experiences[k]
      <3>1. PICK k \in DOMAIN experiences : z = experiences[k]
        BY <2>2
      <3>2. Good(z.episode) /\ EndOK(z)
        BY <3>1 DEF Evidence, Ends, GoodList, EndList
      <3> QED BY <3>2, EndStays DEF EndOK
    <2> QED BY <1>6, <2>1, <2>2
  <1>8. EndList(saved.experiences)'
    BY EndListStays DEF Evidence, Ends, EndList
  <1> QED BY <1>4, <1>7, <1>8, NoEpisodeType DEF Ends, Started

LEMMA WithStepType ==
    ASSUME log \in Seq(Outcome), NEW e \in Episode, NEW a \in Action, NEW t \in Nat,
           NEW moved \in Nat, NEW r, r = WithStep(e, a, t, moved)
    PROVE  r \in Episode
  <1>1. PICK n \in Nat : n = Len(log) + 1
    OBVIOUS
  <1>2. a.bind \in Binding /\ <<n>> \in Seq(Nat) /\ Append(e.steps, n) \in Seq(Nat)
    BY DEF Action, Episode
  <1>3. e.bind \in Binding /\ e.start \in Nat /\ e.moves \in Nat
    BY DEF Episode
  <1>4. CASE Started(e)
    <2> DEFINE s == Append(e.steps, n)
               v == e.moves + moved
    <2>1. s \in Seq(Nat) /\ v \in Nat
      BY <1>2, <1>3
    <2>2. r = [e EXCEPT !.steps = s, !.moves = v]
      BY <1>1, <1>4 DEF WithStep
    <2> HIDE DEF s, v
    <2> QED BY <2>1, <2>2 DEF Episode
  <1>5. CASE ~Started(e)
    <2>1. [bind |-> a.bind, steps |-> <<n>>, start |-> t, moves |-> moved] \in Episode
      BY <1>2, Zenon DEF Episode
    <2>2. r = [bind |-> a.bind, steps |-> <<n>>, start |-> t, moves |-> moved]
      BY <1>1, <1>5 DEF WithStep
    <2> QED BY <2>1, <2>2, Zenon
  <1> QED BY <1>4, <1>5

LEMMA PassedOverEnds ==
    ASSUME log \in Seq(Outcome), NEW o \in Outcome, log' = Append(log, o), saved' = saved,
           Evidence, Ends, UNCHANGED <<episode, experiences>>
    PROVE  Ends'
  <1>1. EndList(experiences)' /\ EndList(saved.experiences)'
    BY EndListStays DEF Evidence, Ends, EndList
  <1>2. ASSUME Started(episode) PROVE Mild(episode)'
    <2>1. PICK r : r = episode
      OBVIOUS
    <2>2. Good(r) /\ Mild(r)
      BY <1>2, <2>1 DEF Evidence, Ends
    <2>3. /\ DOMAIN r.steps = 1..Len(r.steps)
          /\ \A k \in 1..Len(r.steps) : log'[r.steps[k]] = log[r.steps[k]]
      BY <2>2, StepsLogged
    <2>4. \A k \in DOMAIN r.steps : log'[r.steps[k]].result # "failed"
      BY <2>2, <2>3, Zenon DEF Mild
    <2> QED BY <2>1, <2>4 DEF Mild
  <1> QED BY <1>1, <1>2 DEF Ends, Started

\* What an outcome of a makes of how the routes end.
LEMMA RecordEnds ==
    ASSUME log \in Seq(Outcome), EvidenceType, Evidence, Ends, saved' = saved,
           NEW a \in Action, NEW t \in Nat, NEW result \in Results,
           log' = Append(log, [action |-> a, tick |-> t, result |-> result]),
           RecordEvidence(a, t, result)
    PROVE  Ends'
  <1> DEFINE e == SameEpisode(a)
  <1>1. PICK o \in Outcome : /\ o = [action |-> a, tick |-> t, result |-> result]
                             /\ log' = Append(log, o)
    BY DEF Outcome
  <1>2. ASSUME Discard PROVE Ends'
    BY <1>1, <1>2, DiscardEnds
  <1>3. ASSUME a.bind # Unbound, ~(Started(episode) /\ episode.bind.body # a.bind.body)
        PROVE  e \in Episode /\ (Started(e) => Good(e) /\ Mild(e) /\ e.bind = a.bind)
    BY <1>3, SameEpisodeIsOwn DEF EvidenceType, Evidence, Ends
  <1>4. ASSUME e \in Episode, Started(e) => Good(e) /\ Mild(e) /\ e.bind = a.bind,
               NEW moved, NEW r \in Episode, r = WithStep(e, a, t, moved)
        PROVE  /\ result # "failed" => Mild(r)'
               /\ \A success \in BOOLEAN :
                      /\ success <=> result = "ok"
                      /\ success => a.cap = Terminals[a.bind.kind]
                      => EndOf(r, t, success)'
    BY <1>4, StepEnds
  <1>5. ASSUME e \in Episode, NEW moved \in Nat, NEW r, r = WithStep(e, a, t, moved)
        PROVE  r \in Episode
    BY <1>5, WithStepType
  <1> HIDE DEF e
  <1>6. ASSUME NEW moved \in Nat, NEW r, r = WithStep(e, a, t, moved),
               e \in Episode, Started(e) => Good(e) /\ Mild(e) /\ e.bind = a.bind
        PROVE  /\ result # "failed" /\ episode' = r /\ UNCHANGED experiences => Ends'
               /\ \A success \in BOOLEAN :
                      /\ success <=> result = "ok"
                      /\ success => a.cap = Terminals[a.bind.kind]
                      /\ Close(r, t, success)
                      => Ends'
    <2>1. r \in Episode
      BY <1>5, <1>6
    <2>2. ASSUME result # "failed", episode' = r, UNCHANGED experiences PROVE Ends'
      <3>1. Mild(r)'
        BY <1>4, <1>6, <2>1, <2>2
      <3> QED BY <1>1, <2>2, <3>1, ExtendEnds
    <2>3. ASSUME NEW success \in BOOLEAN, success <=> result = "ok",
                 success => a.cap = Terminals[a.bind.kind], Close(r, t, success)
          PROVE  Ends'
      <3>1. EndOf(r, t, success)'
        BY <1>4, <1>6, <2>1, <2>3
      <3> QED BY <1>1, <2>1, <2>3, <3>1, CloseEnds
    <2> QED BY <2>2, <2>3
  <1>7. ASSUME ControlStep(e, a, t, result),
               e \in Episode, Started(e) => Good(e) /\ Mild(e) /\ e.bind = a.bind
        PROVE  Ends'
    <2>1. CASE result = "ok"
      <3>1. PICK moved \in Nat : episode' = WithStep(e, a, t, moved) /\ UNCHANGED experiences
        BY <1>7, <2>1 DEF ControlStep
      <3> QED BY <1>6, <1>7, <2>1, <3>1
    <2>2. CASE result # "ok"
      <3>1. Close(WithStep(e, a, t, 0), t, FALSE)
        BY <1>7, <2>2 DEF ControlStep
      <3> QED BY <1>6, <1>7, <2>2, <3>1
    <2> QED BY <2>1, <2>2
  <1>8. ASSUME TerminalStep(e, a, t, result), a.cap = Terminals[a.bind.kind],
               e \in Episode, Started(e) => Good(e) /\ Mild(e) /\ e.bind = a.bind
        PROVE  Ends'
    <2>1. \/ result = "ok" /\ Close(WithStep(e, a, t, 0), t, TRUE)
          \/ Discard
          \/ /\ result = "premature"
             /\ episode' = WithStep(e, a, t, 0) /\ UNCHANGED experiences
          \/ result # "ok" /\ Close(WithStep(e, a, t, 0), t, FALSE)
      BY <1>8 DEF TerminalStep
    <2> QED BY <1>2, <1>6, <1>8, <2>1
  <1>9. CASE a.bind = Unbound
    <2>1. a.bind.kind \notin DOMAIN Terminals
      BY <1>9, RouteAssumption DEF Unbound
    <2>2. Discard
      BY <1>9, <2>1 DEF RecordEvidence
    <2> QED BY <1>2, <2>2
  <1>10. CASE a.bind # Unbound /\ a.bind.kind \in DOMAIN Terminals
    <2>1. RecordBound(a, t, result)
      BY <1>10 DEF RecordEvidence
    <2>2. CASE Started(episode) /\ episode.bind.body # a.bind.body
      BY <1>2, <2>1, <2>2 DEF RecordBound
    <2>3. CASE ~(Started(episode) /\ episode.bind.body # a.bind.body)
      <3>1. \/ ControlStep(e, a, t, result)
            \/ a.cap = Terminals[a.bind.kind] /\ TerminalStep(e, a, t, result)
            \/ Discard
        BY <2>1, <2>3 DEF RecordBound, e
      <3> QED BY <1>2, <1>3, <1>7, <1>8, <1>10, <2>3, <3>1
    <2> QED BY <2>2, <2>3
  <1>11. CASE a.bind # Unbound /\ a.bind.kind \notin DOMAIN Terminals
    <2>1. UNCHANGED <<episode, experiences>>
      BY <1>11 DEF RecordEvidence
    <2> QED BY <1>1, <2>1, PassedOverEnds
  <1> QED BY <1>9, <1>10, <1>11

LEMMA SameLogEnds ==
    ASSUME log' = log, NEW x, EndOK(x)
    PROVE  EndOK(x)'
  BY DEF EndOK, EndOf, LastOf

LEMMA EndsKept == ASSUME IInv, Ends, [Next]_vars PROVE Ends'
  <1>1. /\ TypeOK /\ Evidence /\ EvidenceType /\ log \in Seq(Outcome)
        /\ tick \in Nat /\ delayed.action \in Action
    BY DEF IInv, TypeOK, EvidenceType, Delayed
  <1>2. ASSUME log' = log, UNCHANGED <<episode, experiences>>,
               saved'.experiences \in {saved.experiences, experiences}
        PROVE  Ends'
    <2>1. EndList(experiences)'
      BY <1>2, SameLogEnds DEF Ends, EndList
    <2>2. EndList(saved.experiences)'
      BY <1>2, SameLogEnds DEF Ends, EndList
    <2>3. Started(episode)' => Mild(episode)'
      BY <1>2 DEF Ends, Mild, Started
    <2> QED BY <2>1, <2>2, <2>3 DEF Ends
  <1>3. ASSUME NEW a \in Action, NEW t \in Nat, NEW result \in Results, saved' = saved,
               FinishOutcome(a, t, result)
        PROVE  Ends'
    BY <1>1, <1>3, RecordEnds DEF FinishOutcome
  <1>4. CASE BeginTick
    <2>1. saved' = saved
      BY <1>4 DEF BeginTick
    <2>2. CASE delayed.left = 1
      <3>1. PICK result \in Results : FinishOutcome(delayed.action, tick + 1, result)
        BY <1>4, <2>2, ResultType DEF BeginTick
      <3>2. tick + 1 \in Nat
        BY <1>1
      <3> QED BY <1>1, <1>3, <2>1, <3>1, <3>2
    <2>3. CASE delayed.left # 1
      BY <1>2, <1>4, <2>1, <2>3 DEF BeginTick
    <2> QED BY <2>2, <2>3
  <1>5. CASE Act
    <2>1. saved' = saved
      BY <1>5 DEF Act
    <2>2. PICK p \in Proposal : ActDelayed(p) \/ ActNow(p)
      BY <1>5 DEF Act
    <2>3. CASE ActDelayed(p)
      BY <1>2, <2>1, <2>3 DEF ActDelayed
    <2>4. CASE ActNow(p)
      <3>1. PICK result \in Results : FinishOutcome(Issued(p), tick, result)
        BY <2>4, ResultType DEF ActNow
      <3>2. Issued(p) \in Action
        BY <1>1, IssuedType
      <3> QED BY <1>1, <1>3, <2>1, <3>1, <3>2
    <2> QED BY <2>2, <2>3, <2>4
  <1>6. CASE Denied
    BY <1>2, <1>6 DEF Denied
  <1>7. CASE Save
    BY <1>2, <1>7 DEF Save
  <1>8. CASE Restart
    <2>1. /\ log' = log /\ saved' = saved /\ experiences' = saved.experiences
          /\ episode' = NoEpisode
      BY <1>8 DEF Restart
    <2>2. EndList(saved.experiences)' /\ EndList(experiences)'
      BY <2>1, SameLogEnds DEF Ends, EndList
    <2> QED BY <2>1, <2>2, NoEpisodeType DEF Ends, Started
  <1>9. CASE UNCHANGED vars
    BY <1>2, <1>9 DEF vars
  <1> QED BY <1>4, <1>5, <1>6, <1>7, <1>8, <1>9 DEF Next

-----------------------------------------------------------------------------
(* No execution is a step twice *)

\* Over the log l: the execution the i-th step of a route e is of.
Number(l, e, i) == l[e.steps[i]].action.number
Logged(l, e)    == \A i \in DOMAIN e.steps : e.steps[i] \in DOMAIN l
Once(l, e)      == \A i, k \in DOMAIN e.steps : Number(l, e, i) = Number(l, e, k) => i = k
Apart(l, e, f)  ==
    \A i \in DOMAIN e.steps, k \in DOMAIN f.steps : Number(l, e, i) # Number(l, f, k)
Free(l, e, x)   == \A i \in DOMAIN e.steps : Number(l, e, i) # x

\* The steps of the experiences of a list and of an episode e are all of different
\* executions.
Distinct(l, list, e) ==
    /\ Logged(l, e) /\ Once(l, e)
    /\ \A j \in DOMAIN list : /\ Logged(l, list[j].episode) /\ Once(l, list[j].episode)
                              /\ Apart(l, list[j].episode, e)
    /\ \A j, k \in DOMAIN list : j # k => Apart(l, list[j].episode, list[k].episode)

FreeIn(l, list, e, x) ==
    Free(l, e, x) /\ \A j \in DOMAIN list : Free(l, list[j].episode, x)

\* A motion under way is not a step yet, of what is in memory with it or of what is in
\* the snapshot with it: a restart takes both back, and the ledger nothing.
OnceInv ==
    /\ Distinct(log, experiences, episode)
    /\ Distinct(log, saved.experiences, NoEpisode)
    /\ delayed.left > 0 => FreeIn(log, experiences, episode, delayed.action.number)
    /\ saved.delayed.left > 0 =>
           FreeIn(log, saved.experiences, NoEpisode, saved.delayed.action.number)
    /\ delayed.action.number <= issued /\ saved.delayed.action.number <= issued
    /\ \A n \in DOMAIN log : log[n].action.number <= issued

LEMMA NoEpisodeIsEmpty ==
    /\ DOMAIN NoEpisode.steps = {}
    /\ \A l : Logged(l, NoEpisode) /\ Once(l, NoEpisode)
    /\ \A l, e : Apart(l, e, NoEpisode)
    /\ \A l, x : Free(l, NoEpisode, x)
  <1>1. DOMAIN NoEpisode.steps = {}
    BY DEF NoEpisode
  <1> QED BY <1>1 DEF Logged, Once, Apart, Free

\* Without its episode the evidence stays as it is.
LEMMA DistinctDrop ==
    ASSUME NEW l, NEW list, NEW e, Distinct(l, list, e)
    PROVE  /\ Distinct(l, list, NoEpisode)
           /\ \A x : FreeIn(l, list, e, x) => FreeIn(l, list, NoEpisode, x)
  BY NoEpisodeIsEmpty DEF Distinct, FreeIn

\* Another outcome in the log changes nothing for the steps there are.
LEMMA NumberStays ==
    ASSUME NEW l \in Seq(Outcome), NEW o \in Outcome, NEW e, Logged(l, e)
    PROVE  /\ Logged(Append(l, o), e)
           /\ \A i \in DOMAIN e.steps : Number(Append(l, o), e, i) = Number(l, e, i)
  <1>1. \A n \in DOMAIN l : n \in DOMAIN Append(l, o) /\ Append(l, o)[n] = l[n]
    BY Appended
  <1> QED BY <1>1 DEF Logged, Number

LEMMA DistinctGrows ==
    ASSUME NEW l \in Seq(Outcome), NEW o \in Outcome, NEW m, m = Append(l, o),
           NEW list, NEW e, Distinct(l, list, e)
    PROVE  /\ Distinct(m, list, e)
           /\ \A x : FreeIn(l, list, e, x) => FreeIn(m, list, e, x)
  <1>1. /\ Logged(m, e)
        /\ \A i \in DOMAIN e.steps : Number(m, e, i) = Number(l, e, i)
    BY NumberStays DEF Distinct
  <1>2. ASSUME NEW j \in DOMAIN list
        PROVE  /\ Logged(m, list[j].episode)
               /\ \A i \in DOMAIN list[j].episode.steps :
                      Number(m, list[j].episode, i) = Number(l, list[j].episode, i)
    <2>1. PICK f : f = list[j].episode
      OBVIOUS
    <2>2. Logged(l, f)
      BY <2>1 DEF Distinct
    <2>3. Logged(m, f) /\ \A i \in DOMAIN f.steps : Number(m, f, i) = Number(l, f, i)
      BY <2>2, NumberStays
    <2> QED BY <2>1, <2>3
  <1>3. Once(m, e)
    BY <1>1 DEF Distinct, Once
  <1>4. ASSUME NEW j \in DOMAIN list
        PROVE  Once(m, list[j].episode) /\ Apart(m, list[j].episode, e)
    <2>1. Once(l, list[j].episode) /\ Apart(l, list[j].episode, e)
      BY DEF Distinct
    <2>2. Once(m, list[j].episode)
      BY <1>2, <2>1 DEF Once
    <2> QED BY <1>1, <1>2, <2>1, <2>2 DEF Apart
  <1>5. ASSUME NEW j \in DOMAIN list, NEW k \in DOMAIN list, j # k
        PROVE  Apart(m, list[j].episode, list[k].episode)
    <2>1. Apart(l, list[j].episode, list[k].episode)
      BY <1>5 DEF Distinct
    <2> QED BY <1>2, <2>1 DEF Apart
  <1>6. ASSUME NEW x, FreeIn(l, list, e, x) PROVE FreeIn(m, list, e, x)
    <2>1. Free(m, e, x)
      BY <1>1, <1>6 DEF FreeIn, Free
    <2>2. ASSUME NEW j \in DOMAIN list PROVE Free(m, list[j].episode, x)
      <3>1. Free(l, list[j].episode, x)
        BY <1>6 DEF FreeIn
      <3> QED BY <1>2, <3>1 DEF Free
    <2> QED BY <2>1, <2>2 DEF FreeIn
  <1> QED BY <1>1, <1>2, <1>3, <1>4, <1>5, <1>6 DEF Distinct

\* r is e with one more step, at n.
OneMoreStep(r, e, n) ==
    /\ Len(e.steps) \in Nat /\ DOMAIN e.steps = 1..Len(e.steps)
    /\ DOMAIN r.steps = 1..(Len(e.steps) + 1) /\ r.steps[Len(e.steps) + 1] = n
    /\ \A i \in 1..Len(e.steps) : r.steps[i] = e.steps[i]

LEMMA WithStepIsOneMore ==
    ASSUME log \in Seq(Outcome), NEW e \in Episode, NEW a, NEW t, NEW moved
    PROVE  OneMoreStep(WithStep(e, a, t, moved), e, Len(log) + 1)
  <1>1. PICK n \in Nat : n = Len(log) + 1
    OBVIOUS
  <1>2. e.steps \in Seq(Nat)
    BY DEF Episode
  <1>3. PICK s \in Seq(Nat) : s = e.steps
    BY <1>2
  <1>4. /\ Len(s) \in Nat /\ DOMAIN s = 1..Len(s) /\ DOMAIN Append(s, n) = 1..(Len(s) + 1)
        /\ Append(s, n)[Len(s) + 1] = n /\ \A i \in 1..Len(s) : Append(s, n)[i] = s[i]
    BY Appended
  <1>5. WithStep(e, a, t, moved).steps = Append(s, n)
    <2>1. CASE Started(e)
      <3> DEFINE v == e.moves + moved
      <3>1. WithStep(e, a, t, moved) = [e EXCEPT !.steps = Append(s, n), !.moves = v]
        BY <1>1, <1>3, <2>1 DEF WithStep
      <3> HIDE DEF v
      <3> QED BY <3>1 DEF Episode
    <2>2. CASE ~Started(e)
      <3>1. WithStep(e, a, t, moved).steps = <<n>>
        BY <1>1, <2>2 DEF WithStep
      <3>2. s = <<>>
        BY <1>3, <2>2 DEF Started
      <3> QED BY <3>1, <3>2
    <2> QED BY <2>1, <2>2
  <1> QED BY <1>1, <1>3, <1>4, <1>5 DEF OneMoreStep

\* A step of an execution that was none before keeps all steps distinct.
LEMMA DistinctExtends ==
    ASSUME NEW l \in Seq(Outcome), NEW o \in Outcome, NEW m, m = Append(l, o),
           NEW list, NEW e, Distinct(l, list, e), FreeIn(l, list, e, o.action.number),
           NEW r, OneMoreStep(r, e, Len(l) + 1)
    PROVE  /\ Distinct(m, list, r)
           /\ \A x : x # o.action.number /\ FreeIn(l, list, e, x) => FreeIn(m, list, r, x)
  <1>1. /\ Distinct(m, list, e)
        /\ \A x : FreeIn(l, list, e, x) => FreeIn(m, list, e, x)
    BY DistinctGrows
  <1>2. PICK n \in Nat : n = Len(l) + 1
    OBVIOUS
  <1>3. n \in DOMAIN m /\ m[n] = o
    BY <1>2, Appended
  <1>4. PICK d \in Nat : d = Len(e.steps)
    BY DEF OneMoreStep
  <1>5. /\ DOMAIN e.steps = 1..d /\ DOMAIN r.steps = 1..(d + 1) /\ r.steps[d + 1] = n
        /\ \A i \in 1..d : r.steps[i] = e.steps[i]
    BY <1>2, <1>4 DEF OneMoreStep
  <1>6. /\ d + 1 \in 1..(d + 1) /\ d + 1 \notin 1..d
        /\ \A i \in 1..(d + 1) : i \in 1..d \/ i = d + 1
        /\ \A i \in 1..d : i \in 1..(d + 1)
    OBVIOUS
  <1>7. /\ Number(m, r, d + 1) = o.action.number
        /\ \A i \in 1..d : Number(m, r, i) = Number(m, e, i)
    BY <1>3, <1>5 DEF Number
  <1>8. FreeIn(m, list, e, o.action.number)
    BY <1>1
  <1>9. Logged(m, r)
    BY <1>1, <1>3, <1>5, <1>6 DEF Distinct, Logged
  <1>10. Once(m, r)
    <2> SUFFICES ASSUME NEW i \in 1..(d + 1), NEW k \in 1..(d + 1),
                        Number(m, r, i) = Number(m, r, k)
                 PROVE  i = k
      BY <1>5 DEF Once
    <2>1. \A j \in 1..d : Number(m, e, j) # o.action.number
      BY <1>5, <1>8 DEF FreeIn, Free
    <2>2. CASE i \in 1..d /\ k \in 1..d
      BY <1>1, <1>5, <1>7, <2>2 DEF Distinct, Once
    <2> QED BY <1>6, <1>7, <2>1, <2>2
  <1>11. ASSUME NEW j \in DOMAIN list PROVE Apart(m, list[j].episode, r)
    <2>1. Apart(m, list[j].episode, e)
      BY <1>1 DEF Distinct
    <2>2. Free(m, list[j].episode, o.action.number)
      BY <1>8 DEF FreeIn
    <2> SUFFICES ASSUME NEW i \in DOMAIN list[j].episode.steps, NEW k \in 1..(d + 1)
                 PROVE  Number(m, list[j].episode, i) # Number(m, r, k)
      BY <1>5 DEF Apart
    <2>3. CASE k \in 1..d
      BY <1>5, <1>7, <2>1, <2>3 DEF Apart
    <2>4. CASE k = d + 1
      BY <1>7, <2>2, <2>4 DEF Free
    <2> QED BY <1>6, <2>3, <2>4
  <1>12. ASSUME NEW x, x # o.action.number, FreeIn(l, list, e, x) PROVE FreeIn(m, list, r, x)
    <2>1. FreeIn(m, list, e, x)
      BY <1>1, <1>12
    <2>2. Free(m, r, x)
      <3> SUFFICES ASSUME NEW i \in 1..(d + 1) PROVE Number(m, r, i) # x
        BY <1>5 DEF Free
      <3>1. CASE i \in 1..d
        BY <1>5, <1>7, <2>1, <3>1 DEF FreeIn, Free
      <3>2. CASE i = d + 1
        BY <1>7, <1>12, <3>2
      <3> QED BY <1>6, <3>1, <3>2
    <2> QED BY <2>1, <2>2 DEF FreeIn
  <1>13. Distinct(m, list, r)
    BY <1>1, <1>9, <1>10, <1>11 DEF Distinct
  <1> QED BY <1>12, <1>13

\* What is in a ring after a push: the newcomer at its end, and before it what was in
\* it, shifted when the oldest made room.
LEMMA PushedShift ==
    ASSUME NEW T, NEW ring \in Seq(T), NEW x \in T, Len(ring) <= Capacity
    PROVE  \E d \in {0, 1} : \E n \in Nat :
               /\ DOMAIN Pushed(ring, x) = 1..n /\ Pushed(ring, x)[n] = x
               /\ \A i \in 1..n : i # n => /\ i + d \in DOMAIN ring
                                           /\ Pushed(ring, x)[i] = ring[i + d]
  <1>1. CASE Len(ring) < Capacity
    <2>1. Pushed(ring, x) = Append(ring, x)
      BY <1>1 DEF Pushed
    <2>2. PICK n \in Nat : n = Len(ring) + 1
      OBVIOUS
    <2>3. /\ DOMAIN Append(ring, x) = 1..n /\ Append(ring, x)[n] = x
          /\ \A i \in 1..n : i # n => i + 0 \in DOMAIN ring /\ Append(ring, x)[i] = ring[i + 0]
      BY <2>2, Appended
    <2> QED BY <2>1, <2>3
  <1>2. CASE ~(Len(ring) < Capacity)
    <2>1. Pushed(ring, x) = Append(Tail(ring), x)
      BY <1>2 DEF Pushed
    <2>2. PICK n \in Nat : n = Len(ring) /\ n >= 1
      BY <1>2, RouteAssumption
    <2>3. Tail(ring) \in Seq(T) /\ Len(Tail(ring)) = n - 1
      BY <2>2
    <2>4. \A k \in 1..(n - 1) : Tail(ring)[k] = ring[k + 1] /\ k + 1 \in DOMAIN ring
      BY <2>2
    <2>5. PICK rest \in Seq(T) : rest = Tail(ring)
      BY <2>3
    <2>6. /\ DOMAIN Append(rest, x) = 1..n /\ Append(rest, x)[n] = x
          /\ \A i \in 1..(n - 1) : Append(rest, x)[i] = rest[i]
      BY <2>2, <2>3, <2>5, Appended
    <2>7. \A i \in 1..n : i # n => i \in 1..(n - 1)
      OBVIOUS
    <2>8. \A i \in 1..n : i # n => /\ i + 1 \in DOMAIN ring
                                   /\ Append(rest, x)[i] = ring[i + 1]
      BY <2>4, <2>5, <2>6, <2>7
    <2> QED BY <2>1, <2>5, <2>6, <2>8
  <1> QED BY <1>1, <1>2

\* An episode that becomes an experience takes its steps with it.
LEMMA DistinctPushed ==
    ASSUME NEW l, NEW list \in Seq(Experience), Len(list) <= Capacity,
           NEW y \in Experience, Distinct(l, list, y.episode)
    PROVE  /\ Distinct(l, Pushed(list, y), NoEpisode)
           /\ \A x : FreeIn(l, list, y.episode, x) => FreeIn(l, Pushed(list, y), NoEpisode, x)
  <1> DEFINE new == Pushed(list, y)
  <1>1. PICK d \in {0, 1}, n \in Nat :
            /\ DOMAIN new = 1..n /\ new[n] = y
            /\ \A i \in 1..n : i # n => i + d \in DOMAIN list /\ new[i] = list[i + d]
    BY PushedShift
  <1> HIDE DEF new
  <1>2. ASSUME NEW j \in DOMAIN new
        PROVE  Logged(l, new[j].episode) /\ Once(l, new[j].episode)
    BY <1>1 DEF Distinct
  <1>3. ASSUME NEW j \in DOMAIN new, NEW k \in DOMAIN new, j # k
        PROVE  Apart(l, new[j].episode, new[k].episode)
    <2>1. CASE j # n /\ k # n
      <3>1. /\ j + d \in DOMAIN list /\ new[j] = list[j + d]
            /\ k + d \in DOMAIN list /\ new[k] = list[k + d]
        BY <1>1, <2>1
      <3>2. j + d # k + d
        BY <1>1, <1>3
      <3>3. Apart(l, list[j + d].episode, list[k + d].episode)
        BY <3>1, <3>2 DEF Distinct
      <3> QED BY <3>1, <3>3
    <2>2. CASE j # n /\ k = n
      <3>1. j + d \in DOMAIN list /\ new[j] = list[j + d] /\ new[k] = y
        BY <1>1, <2>2
      <3>2. Apart(l, list[j + d].episode, y.episode)
        BY <3>1 DEF Distinct
      <3> QED BY <3>1, <3>2
    <2>3. CASE j = n /\ k # n
      <3>1. k + d \in DOMAIN list /\ new[k] = list[k + d] /\ new[j] = y
        BY <1>1, <2>3
      <3>2. Apart(l, list[k + d].episode, y.episode)
        BY <3>1 DEF Distinct
      <3>3. Apart(l, y.episode, list[k + d].episode)
        BY <3>2 DEF Apart
      <3> QED BY <3>1, <3>3
    <2> QED BY <1>3, <2>1, <2>2, <2>3
  <1>4. Distinct(l, new, NoEpisode)
    BY <1>2, <1>3, NoEpisodeIsEmpty DEF Distinct
  <1>5. ASSUME NEW x, FreeIn(l, list, y.episode, x) PROVE FreeIn(l, new, NoEpisode, x)
    <2>1. ASSUME NEW j \in DOMAIN new PROVE Free(l, new[j].episode, x)
      <3>1. j = n \/ (j + d \in DOMAIN list /\ new[j] = list[j + d])
        BY <1>1
      <3> QED BY <1>1, <1>5, <3>1 DEF FreeIn
    <2> QED BY <2>1, NoEpisodeIsEmpty DEF FreeIn
  <1> QED BY <1>4, <1>5 DEF new

\* The ways an outcome may change the evidence.
LEMMA RecordShape ==
    ASSUME NEW a, NEW t, NEW result, RecordEvidence(a, t, result)
    PROVE  \/ episode' \in {episode, NoEpisode} /\ UNCHANGED experiences
           \/ \E f \in {episode, NoEpisode}, moved \in {0, 1} :
                  \/ episode' = WithStep(f, a, t, moved) /\ UNCHANGED experiences
                  \/ \E success \in BOOLEAN : Close(WithStep(f, a, t, moved), t, success)
  <1> DEFINE f == SameEpisode(a)
             Stepped == \E moved \in {0, 1} :
                 \/ episode' = WithStep(f, a, t, moved) /\ UNCHANGED experiences
                 \/ \E success \in BOOLEAN : Close(WithStep(f, a, t, moved), t, success)
             Same == episode' \in {episode, NoEpisode} /\ UNCHANGED experiences
  <1>1. f \in {episode, NoEpisode}
    BY DEF SameEpisode
  <1>2. Discard => Same
    BY DEF Discard
  <1>3. ControlStep(f, a, t, result) => Stepped
    <2> HIDE DEF f
    <2> QED BY DEF ControlStep
  <1>4. TerminalStep(f, a, t, result) => Stepped \/ Discard
    <2> HIDE DEF f
    <2> QED BY DEF TerminalStep
  <1>5. RecordBound(a, t, result) => Stepped \/ Same
    BY <1>2, <1>3, <1>4 DEF RecordBound
  <1>6. Stepped \/ Same
    BY <1>2, <1>5 DEF RecordEvidence
  <1> QED BY <1>1, <1>6

\* An outcome of an execution that is no step yet.
LEMMA RecordOnce ==
    ASSUME log \in Seq(Outcome), EvidenceType, NEW a \in Action, NEW t \in Nat,
           NEW result \in Results,
           log' = Append(log, [action |-> a, tick |-> t, result |-> result]),
           RecordEvidence(a, t, result),
           Distinct(log, experiences, episode),
           FreeIn(log, experiences, episode, a.number)
    PROVE  /\ Distinct(log', experiences', episode')
           /\ \A x : x # a.number /\ FreeIn(log, experiences, episode, x) =>
                         FreeIn(log', experiences', episode', x)
  <1>1. PICK o \in Outcome : o.action = a /\ log' = Append(log, o)
    <2>1. PICK o \in Outcome : o = [action |-> a, tick |-> t, result |-> result]
      BY DEF Outcome
    <2> QED BY <2>1
  <1>2. PICK m : m = log'
    OBVIOUS
  <1>3. ASSUME NEW f \in {episode, NoEpisode}
        PROVE  /\ Distinct(log, experiences, f) /\ f \in Episode
               /\ \A x : FreeIn(log, experiences, episode, x) => FreeIn(log, experiences, f, x)
    BY DistinctDrop, NoEpisodeType DEF EvidenceType
  <1>4. ASSUME NEW f \in {episode, NoEpisode}
        PROVE  /\ Distinct(m, experiences, f)
               /\ \A x : FreeIn(log, experiences, f, x) => FreeIn(m, experiences, f, x)
    BY <1>1, <1>2, <1>3, DistinctGrows
  <1>5. CASE episode' \in {episode, NoEpisode} /\ UNCHANGED experiences
    BY <1>2, <1>3, <1>4, <1>5
  <1>6. ASSUME NEW f \in {episode, NoEpisode}, NEW moved \in {0, 1}, NEW r,
               r = WithStep(f, a, t, moved)
        PROVE  /\ Distinct(m, experiences, r) /\ r \in Episode
               /\ \A x : x # a.number /\ FreeIn(log, experiences, episode, x) =>
                             FreeIn(m, experiences, r, x)
    <2>1. f \in Episode /\ OneMoreStep(r, f, Len(log) + 1)
      BY <1>3, <1>6, WithStepIsOneMore
    <2>2. Distinct(log, experiences, f) /\ FreeIn(log, experiences, f, o.action.number)
      BY <1>1, <1>3
    <2>3. /\ Distinct(m, experiences, r)
          /\ \A x : x # o.action.number /\ FreeIn(log, experiences, f, x) =>
                        FreeIn(m, experiences, r, x)
      BY <1>1, <1>2, <2>1, <2>2, DistinctExtends
    <2>4. r \in Episode
      BY <1>6, <2>1, WithStepType
    <2> QED BY <1>1, <1>3, <2>3, <2>4
  <1>7. ASSUME NEW f \in {episode, NoEpisode}, NEW moved \in {0, 1},
               episode' = WithStep(f, a, t, moved), UNCHANGED experiences
        PROVE  /\ Distinct(m, experiences', episode')
               /\ \A x : x # a.number /\ FreeIn(log, experiences, episode, x) =>
                             FreeIn(m, experiences', episode', x)
    BY <1>6, <1>7
  <1>8. ASSUME NEW f \in {episode, NoEpisode}, NEW moved \in {0, 1}, NEW success \in BOOLEAN,
               Close(WithStep(f, a, t, moved), t, success)
        PROVE  /\ Distinct(m, experiences', episode')
               /\ \A x : x # a.number /\ FreeIn(log, experiences, episode, x) =>
                             FreeIn(m, experiences', episode', x)
    <2>1. PICK r : r = WithStep(f, a, t, moved)
      OBVIOUS
    <2>2. /\ Distinct(m, experiences, r) /\ r \in Episode
          /\ \A x : x # a.number /\ FreeIn(log, experiences, episode, x) =>
                        FreeIn(m, experiences, r, x)
      BY <1>6, <2>1
    <2>3. [episode |-> r, final |-> t, success |-> success] \in Experience
      BY <2>2, Zenon DEF Experience
    <2>4. PICK y \in Experience : y = [episode |-> r, final |-> t, success |-> success]
      BY <2>3
    <2>5. y.episode = r /\ experiences' = Pushed(experiences, y) /\ episode' = NoEpisode
      BY <1>8, <2>1, <2>4 DEF Close
    <2>6. experiences \in Seq(Experience) /\ Len(experiences) <= Capacity
      BY DEF EvidenceType
    <2>7. /\ Distinct(m, Pushed(experiences, y), NoEpisode)
          /\ \A x : FreeIn(m, experiences, y.episode, x) =>
                        FreeIn(m, Pushed(experiences, y), NoEpisode, x)
      BY <2>2, <2>5, <2>6, DistinctPushed
    <2> QED BY <2>2, <2>5, <2>7
  <1> QED BY <1>2, <1>5, <1>7, <1>8, RecordShape

\* An outcome of an execution that was issued and is no step yet, when what is under
\* way next is nothing, or another execution that is no step either.
LEMMA FinishOnce ==
    ASSUME IInv, OnceInv, saved' = saved, NEW a \in Action, NEW t \in Nat,
           NEW result \in Results, FinishOutcome(a, t, result),
           FreeIn(log, experiences, episode, a.number), a.number <= issued',
           issued <= issued', issued' \in Nat,
           delayed'.action.number <= issued',
           delayed'.left > 0 =>
               /\ delayed'.action.number # a.number
               /\ FreeIn(log, experiences, episode, delayed'.action.number)
    PROVE  OnceInv'
  <1>1. log \in Seq(Outcome) /\ EvidenceType /\ issued \in Nat
    BY DEF IInv, TypeOK, EvidenceType
  <1>2. /\ log' = Append(log, [action |-> a, tick |-> t, result |-> result])
        /\ RecordEvidence(a, t, result)
    BY DEF FinishOutcome
  <1>3. PICK o \in Outcome : o.action = a /\ log' = Append(log, o)
    <2>1. PICK o \in Outcome : o = [action |-> a, tick |-> t, result |-> result]
      BY DEF Outcome
    <2> QED BY <1>2, <2>1
  <1>4. /\ Distinct(log', experiences', episode')
        /\ \A x : x # a.number /\ FreeIn(log, experiences, episode, x) =>
                      FreeIn(log', experiences', episode', x)
    BY <1>1, <1>2, RecordOnce DEF OnceInv
  <1>5. /\ Distinct(log', saved.experiences, NoEpisode)
        /\ \A x : FreeIn(log, saved.experiences, NoEpisode, x) =>
                      FreeIn(log', saved.experiences, NoEpisode, x)
    <2>1. PICK m : m = log'
      OBVIOUS
    <2> QED BY <1>1, <1>3, <2>1, DistinctGrows DEF OnceInv
  <1>6. saved.delayed.action.number \in Nat
    BY DEF IInv, TypeOK, Snapshot, Delayed, Action
  <1>7. saved.delayed.action.number <= issued'
    BY <1>1, <1>6 DEF OnceInv
  <1>8. ASSUME NEW n \in DOMAIN log' PROVE log'[n].action.number <= issued'
    <2>1. \/ log'[n] = o
          \/ n \in DOMAIN log /\ log'[n] = log[n] /\ log[n] \in Outcome
      BY <1>1, <1>3, Appended
    <2>2. CASE n \in DOMAIN log /\ log'[n] = log[n] /\ log[n] \in Outcome
      <3>1. log[n].action.number \in Nat /\ log[n].action.number <= issued
        BY <2>2 DEF Outcome, Action, OnceInv
      <3> QED BY <1>1, <2>2, <3>1
    <2> QED BY <1>3, <2>1, <2>2
  <1>9. delayed'.left > 0 => FreeIn(log', experiences', episode', delayed'.action.number)
    BY <1>4
  <1>10. /\ Distinct(log', saved'.experiences, NoEpisode)
         /\ saved'.delayed.left > 0 =>
               FreeIn(log', saved'.experiences, NoEpisode, saved'.delayed.action.number)
         /\ saved'.delayed.action.number <= issued'
    BY <1>5, <1>7 DEF OnceInv
  <1>11. \A n \in DOMAIN log' : log'[n].action.number <= issued'
    BY <1>8
  <1> QED BY <1>4, <1>9, <1>10, <1>11 DEF OnceInv

LEMMA SameOutcomesOnce ==
    ASSUME IInv, OnceInv, UNCHANGED <<log, episode, experiences>>,
           issued \in Nat, issued' \in Nat, issued <= issued',
           delayed'.action.number <= issued',
           delayed'.left > 0 => FreeIn(log, experiences, episode, delayed'.action.number),
           saved' = saved
    PROVE  OnceInv'
  <1>1. saved.delayed.action.number \in Nat /\ log \in Seq(Outcome)
    BY DEF IInv, TypeOK, Snapshot, Delayed, Action
  <1>2. saved.delayed.action.number <= issued'
    BY <1>1 DEF OnceInv
  <1>3. ASSUME NEW n \in DOMAIN log PROVE log[n].action.number <= issued'
    <2>1. log[n].action.number \in Nat
      <3>1. log[n] \in Outcome
        BY <1>1
      <3> QED BY <3>1 DEF Outcome, Action
    <2> QED BY <2>1 DEF OnceInv
  <1> QED BY <1>2, <1>3 DEF OnceInv

\* A new execution has a number no step has.
LEMMA NextIsFree ==
    ASSUME IInv, OnceInv
    PROVE  FreeIn(log, experiences, episode, issued + 1)
  <1>1. PICK x \in Nat : x = issued + 1 /\ issued \in Nat
    BY DEF IInv, TypeOK
  <1>2. log \in Seq(Outcome)
    BY DEF IInv, TypeOK
  <1>3. ASSUME NEW n \in DOMAIN log PROVE log[n].action.number # x
    <2>1. log[n].action.number \in Nat
      <3>1. log[n] \in Outcome
        BY <1>2
      <3> QED BY <3>1 DEF Outcome, Action
    <2> QED BY <1>1, <2>1 DEF OnceInv
  <1>4. ASSUME NEW e, Logged(log, e) PROVE Free(log, e, x)
    BY <1>3, <1>4 DEF Logged, Free, Number
  <1> QED BY <1>1, <1>4 DEF OnceInv, Distinct, FreeIn

LEMMA OnceKept == ASSUME IInv, OnceInv, [Next]_vars PROVE OnceInv'
  <1>1. /\ issued \in Nat /\ tick \in Nat /\ tick + 1 \in Nat /\ delay \in Nat
        /\ delayed \in Delayed /\ delayed.action \in Action /\ delayed.left \in Nat
        /\ delayed.action.number \in Nat
    BY DEF IInv, TypeOK, Delayed, Action
  <1>2. CASE BeginTick
    <2>1. saved' = saved /\ issued' = issued
      BY <1>2 DEF BeginTick
    <2>2. CASE delayed.left = 1
      <3>1. PICK result \in Results : FinishOutcome(delayed.action, tick + 1, result)
        BY <1>2, <2>2, ResultType DEF BeginTick
      <3>2. delayed'.left = 0 /\ delayed'.action.number = 0
        BY <1>2, <2>2 DEF BeginTick, Completed, NoDelayed, NoAction
      <3>3. FreeIn(log, experiences, episode, delayed.action.number)
        BY <2>2 DEF OnceInv
      <3>4. delayed.action.number <= issued' /\ delayed'.action.number <= issued'
        BY <1>1, <2>1, <3>2 DEF OnceInv
      <3>5. ~(delayed'.left > 0)
        BY <3>2
      <3> QED BY <1>1, <2>1, <3>1, <3>3, <3>4, <3>5, FinishOnce
    <2>3. CASE delayed.left # 1
      <3>1. /\ delayed' = [delayed EXCEPT !.left = IF @ = 0 THEN 0 ELSE @ - 1]
            /\ UNCHANGED <<episode, experiences, log>>
        BY <1>2, <2>3 DEF BeginTick
      <3>2. delayed'.action = delayed.action /\ (delayed'.left > 0 => delayed.left > 0)
        BY <1>1, <3>1 DEF Delayed
      <3> QED BY <1>1, <2>1, <3>1, <3>2, SameOutcomesOnce DEF OnceInv
    <2> QED BY <2>2, <2>3
  <1>3. CASE Act
    <2>1. saved' = saved /\ issued' = issued + 1
      BY <1>3 DEF Act
    <2>2. PICK p \in Proposal : ActDelayed(p) \/ ActNow(p)
      BY <1>3 DEF Act
    <2>3. PICK a \in Action : a = Issued(p)
      BY IssuedType DEF IInv
    <2>4. a.number = issued + 1
      BY <2>3 DEF Issued
    <2>5. FreeIn(log, experiences, episode, a.number)
      BY <2>4, NextIsFree
    <2>6. issued' \in Nat /\ issued <= issued' /\ a.number <= issued'
      BY <1>1, <2>1, <2>4
    <2>7. CASE ActDelayed(p)
      <3>1. /\ delayed' = [action |-> a, left |-> delay]
            /\ UNCHANGED <<episode, experiences, log>>
        BY <2>3, <2>7 DEF ActDelayed
      <3>2. delayed'.action = a
        BY <3>1
      <3> QED BY <1>1, <2>1, <2>5, <2>6, <3>1, <3>2, SameOutcomesOnce
    <2>8. CASE ActNow(p)
      <3>1. PICK result \in Results : FinishOutcome(a, tick, result)
        BY <2>3, <2>8, ResultType DEF ActNow
      <3>2. delayed' = delayed
        BY <2>8 DEF ActNow
      <3>3. delayed.action.number <= issued
        BY DEF OnceInv
      <3>4. delayed'.action.number <= issued' /\ delayed'.action.number # a.number
        BY <1>1, <2>1, <2>4, <3>2, <3>3
      <3>5. delayed'.left > 0 => FreeIn(log, experiences, episode, delayed'.action.number)
        BY <3>2 DEF OnceInv
      <3> QED BY <1>1, <2>1, <2>5, <2>6, <3>1, <3>4, <3>5, FinishOnce
    <2> QED BY <2>2, <2>7, <2>8
  <1>4. CASE Denied
    <2>1. UNCHANGED <<log, episode, experiences, issued, delayed, saved>>
      BY <1>4 DEF Denied
    <2> QED BY <2>1 DEF OnceInv
  <1>5. CASE Save
    <2>1. /\ UNCHANGED <<log, episode, experiences, issued, delayed>>
          /\ saved'.experiences = experiences /\ saved'.delayed = delayed
      BY <1>5 DEF Save
    <2>2. /\ Distinct(log, experiences, NoEpisode)
          /\ \A x : FreeIn(log, experiences, episode, x) =>
                        FreeIn(log, experiences, NoEpisode, x)
      BY DistinctDrop DEF OnceInv
    <2> QED BY <2>1, <2>2 DEF OnceInv
  <1>6. CASE Restart
    <2>1. /\ UNCHANGED <<log, issued, saved>> /\ episode' = NoEpisode
          /\ experiences' = saved.experiences /\ delayed' = saved.delayed
      BY <1>6 DEF Restart
    <2> QED BY <2>1 DEF OnceInv
  <1>7. CASE UNCHANGED vars
    <2>1. UNCHANGED <<log, episode, experiences, issued, delayed, saved>>
      BY <1>7 DEF vars
    <2> QED BY <2>1 DEF OnceInv
  <1> QED BY <1>2, <1>3, <1>4, <1>5, <1>6, <1>7 DEF Next

LEMMA InitOnce == Init => OnceInv
  <1> SUFFICES ASSUME Init PROVE OnceInv
    OBVIOUS
  <1>1. /\ log = <<>> /\ experiences = <<>> /\ episode = NoEpisode /\ issued = 0
        /\ delayed = NoDelayed /\ saved.experiences = <<>> /\ saved.delayed = NoDelayed
    BY DEF Init
  <1>2. NoDelayed.left = 0 /\ NoDelayed.action.number = 0
    BY DEF NoDelayed, NoAction
  <1>3. Distinct(log, experiences, episode) /\ Distinct(log, saved.experiences, NoEpisode)
    BY <1>1, NoEpisodeIsEmpty DEF Distinct
  <1>4. ~(delayed.left > 0) /\ ~(saved.delayed.left > 0)
    BY <1>1, <1>2
  <1> QED BY <1>1, <1>2, <1>3, <1>4 DEF OnceInv

-----------------------------------------------------------------------------
(* Theorems *)

THEOREM Invariance == Spec => []IInv
  <1>1. IInv /\ [Next]_vars => IInv'
    BY BeginTickOK, ActOK, DeniedOK, SaveOK, RestartOK, StutterOK DEF Next
  <1> QED BY <1>1, InitOK, PTL DEF Spec

LEMMA RoutesAreGood == ASSUME IInv, NEW r \in Routes PROVE Good(r)
  BY DEF IInv, Evidence, GoodList, Routes

\* The store of routes keeps its types and its capacity, in memory and in the snapshot.
THEOREM TypesKept == Spec => []TypeOK
  <1>1. IInv => TypeOK
    BY DEF IInv
  <1> QED BY <1>1, Invariance, PTL

\* No route joins what was interrupted, whatever was under way, denied or overtaken,
\* and across any number of restarts.
THEOREM RoutesUnbroken == Spec => []Unbroken
  <1>1. IInv => Unbroken
    BY RoutesAreGood DEF Unbroken, Good
  <1> QED BY <1>1, Invariance, PTL

\* Every step of a route is for the entity and with the body the route is evidence of,
\* and its movements are counted once each.
THEOREM RoutesOwnTheirSteps == Spec => []StepsAreOwn
  <1>1. IInv => StepsAreOwn
    BY RoutesAreGood DEF StepsAreOwn, Good
  <1> QED BY <1>1, Invariance, PTL

\* A route never has a step that ended before it was issued or before the one before
\* it, although a restart takes the age of the organism back.
THEOREM RoutesInTime == Spec => []StepsInTime
  <1>1. IInv => StepsInTime
    BY RoutesAreGood DEF StepsInTime, Good
  <1> QED BY <1>1, Invariance, PTL

\* The result a route is kept with is that of its last step, a success is one at the
\* terminal of the kind, and no step before failed for good: after restarts as well.
THEOREM RoutesEndAsTheySay == Spec => []EndsAsItSays
  <1>1. Init => Ends
    BY NoEpisodeType DEF Init, Ends, EndList
  <1>2. IInv /\ Ends /\ [Next]_vars => Ends'
    BY EndsKept
  <1>3. Ends => EndsAsItSays
    BY DEF Ends, EndList, EndOK, EndOf, EndsAsItSays
  <1> QED BY <1>1, <1>2, <1>3, Invariance, PTL DEF Spec

\* No execution is evidence twice: what a restart completes again is a step of what the
\* same restart took back, or of nothing.
THEOREM ExecutionsCountOnce == Spec => []OneStepPerExecution
  <1>1. ASSUME OnceInv PROVE OneStepPerExecution
    <2> DEFINE Steps == [r : DOMAIN experiences \cup {0}, i : 1..Len(log)]
               RouteAt(k) == IF k = 0 THEN episode.steps ELSE experiences[k].episode.steps
               Used == {s \in Steps : s.i \in DOMAIN RouteAt(s.r)}
               NumberOf(s) == log[RouteAt(s.r)[s.i]].action.number
    <2>1. ASSUME NEW s \in Used, NEW u \in Used, s # u PROVE NumberOf(s) # NumberOf(u)
      <3>1. /\ s \in Steps /\ u \in Steps /\ (s.r # u.r \/ s.i # u.i)
            /\ s.i \in DOMAIN RouteAt(s.r) /\ u.i \in DOMAIN RouteAt(u.r)
        BY <2>1
      <3>2. CASE s.r = 0 /\ u.r = 0
        BY <1>1, <3>1, <3>2 DEF OnceInv, Distinct, Once, Number
      <3>3. CASE s.r # 0 /\ u.r = 0
        BY <1>1, <3>1, <3>3 DEF OnceInv, Distinct, Apart, Number
      <3>4. CASE s.r = 0 /\ u.r # 0
        BY <1>1, <3>1, <3>4 DEF OnceInv, Distinct, Apart, Number
      <3>5. CASE s.r # 0 /\ u.r # 0 /\ s.r = u.r
        BY <1>1, <3>1, <3>5 DEF OnceInv, Distinct, Once, Number
      <3>6. CASE s.r # 0 /\ u.r # 0 /\ s.r # u.r
        BY <1>1, <3>1, <3>6 DEF OnceInv, Distinct, Apart, Number
      <3> QED BY <3>2, <3>3, <3>4, <3>5, <3>6
    <2> QED BY <2>1 DEF OneStepPerExecution
  <1>2. IInv /\ OnceInv /\ [Next]_vars => OnceInv'
    BY OnceKept
  <1> QED BY <1>1, <1>2, InitOnce, Invariance, PTL DEF Spec
=============================================================================
