--------------------------- MODULE Social_proofs ---------------------------
(***************************************************************************)
(* Proofs about Social, for any number of partners, bids and restarts.     *)
(*                                                                         *)
(* The invariant says of the engine in memory and of the engine in the     *)
(* snapshot the same thing (EngineOK), because a restart puts the one in   *)
(* the place of the other while the ledger goes on.  The capacity (CapInv) *)
(* needs the counting of the library's finite sets: with every place taken *)
(* the oldest settled bid is one that leaves.                              *)
(***************************************************************************)
EXTENDS Social, FiniteSetTheorems, TLAPS

\* The evidence of one relation about one partner.
Evidence(ls, h, r) == {l \in ls : l.partner = h /\ l.relation = r}

BidOK(e, b, hist) ==
    /\ e.pending[b] \in Bid
    /\ e.pending[b].age <= Timeout + e.missed
    /\ e.hypotheses[e.pending[b].partner] # "CONTESTED"
    /\ \E i \in 1..Len(hist[b]) : hist[b][i] = "created"

\* What holds of an engine, in memory or saved, beside a ledger.
EngineOK(e, hist, ls) ==
    /\ e.hypotheses \in [Partners -> Statuses]
    /\ DOMAIN e.pending \subseteq Bids
    /\ \A b \in DOMAIN e.pending : BidOK(e, b, hist)
    /\ e.settled \subseteq Bids
    /\ e.cells \in [Partners -> Cell]
    /\ \A h \in Partners : \A r \in Relations :
           e.cells[h][r] <= Cardinality(Evidence(ls, h, r))
    /\ e.nextPartner \in 1..MaxPartners + 1
    /\ e.nextBid \in 1..MaxBids + 1
    /\ e.missed \in 0..MaxMissed

LedgerOK ==
    /\ history \in [Bids -> Seq(Kinds)]
    /\ links \subseteq Link
    /\ IsFiniteSet(links)
    /\ begin \in [Bids -> Nat]

IInv ==
    /\ LedgerOK
    /\ EngineOK(Current, history, links)
    /\ EngineOK(snap, history, links)
    /\ SessionAgrees
    /\ SettledOncePerSession

-----------------------------------------------------------------------------
(* A longer ledger contradicts no engine *)

\* The history a step leaves extends the one it found.
Extends(hist, old) ==
    /\ hist \in [Bids -> Seq(Kinds)]
    /\ \A b \in Bids : \/ hist[b] = old[b]
                       \/ \E k \in Kinds : hist[b] = Append(old[b], k)

\* EngineOK is monotone in the history.
LEMMA EngineMonotone ==
    ASSUME NEW e, NEW old \in [Bids -> Seq(Kinds)], NEW hist, NEW ls,
           EngineOK(e, old, ls), Extends(hist, old)
    PROVE  EngineOK(e, hist, ls)
  <1>1. ASSUME NEW b \in DOMAIN e.pending PROVE BidOK(e, b, hist)
    <2>1. b \in Bids /\ BidOK(e, b, old)
      BY DEF EngineOK
    <2>2. CASE hist[b] = old[b]
      BY <2>1, <2>2 DEF BidOK
    <2>3. CASE \E k \in Kinds : hist[b] = Append(old[b], k)
      <3>1. PICK k \in Kinds : hist[b] = Append(old[b], k)
        BY <2>3
      <3>2. PICK i \in 1..Len(old[b]) : old[b][i] = "created"
        BY <2>1 DEF BidOK
      <3>3. old[b] \in Seq(Kinds)
        BY <2>1
      <3>4. i \in 1..Len(hist[b]) /\ hist[b][i] = "created"
        BY <3>1, <3>2, <3>3
      <3> QED BY <2>1, <3>4 DEF BidOK
    <2> QED BY <2>1, <2>2, <2>3 DEF Extends
  <1> QED BY <1>1 DEF EngineOK

\* EngineOK is monotone in the links.
LEMMA EngineKeepsLinks ==
    ASSUME NEW e, NEW hist, NEW old, NEW ls,
           EngineOK(e, hist, old), old \subseteq ls, IsFiniteSet(ls)
    PROVE  EngineOK(e, hist, ls)
  <1>1. ASSUME NEW h \in Partners, NEW r \in Relations
        PROVE  e.cells[h][r] <= Cardinality(Evidence(ls, h, r))
    <2>1. e.cells[h][r] <= Cardinality(Evidence(old, h, r)) /\ e.cells[h] \in Cell
      BY DEF EngineOK
    <2>2. /\ IsFiniteSet(Evidence(ls, h, r))
          /\ Evidence(old, h, r) \subseteq Evidence(ls, h, r)
      BY FS_Subset DEF Evidence
    <2>3. /\ IsFiniteSet(Evidence(old, h, r))
          /\ Cardinality(Evidence(old, h, r)) <= Cardinality(Evidence(ls, h, r))
      BY <2>2, FS_Subset
    <2>4. Cardinality(Evidence(old, h, r)) \in Nat /\ Cardinality(Evidence(ls, h, r)) \in Nat
      BY <2>2, <2>3, FS_CardinalityType
    <2>5. e.cells[h][r] \in Nat
      BY <2>1 DEF Cell, Relations
    <2> QED BY <2>1, <2>3, <2>4, <2>5
  <1> QED BY <1>1 DEF EngineOK

-----------------------------------------------------------------------------
(* Settling bids *)

\* Whoever settles open bids, with one event each, settles each of them once.
LEMMA Settling ==
    ASSUME IInv, NEW closed \in SUBSET Open,
           history' = [b \in Bids |-> IF b \in closed THEN Append(history[b], "settled")
                                      ELSE history[b]],
           DOMAIN pending' = Open \ closed,
           begin' = begin
    PROVE  /\ Extends(history', history)
           /\ SessionAgrees'
           /\ SettledOncePerSession'
  <1> USE DEF IInv, LedgerOK, Open
  <1>1. Extends(history', history)
    BY DEF Extends, Kinds
  <1>2. ASSUME NEW b \in Bids, Len(history'[b]) > begin'[b]
        PROVE  b \in Open' <=> history'[b][Len(history'[b])] = "created"
    <2>1. history[b] \in Seq(Kinds) /\ begin[b] \in Nat
      OBVIOUS
    <2>2. CASE b \in closed
      <3>1. history'[b] = Append(history[b], "settled")
        BY <2>2
      <3>2. history'[b][Len(history'[b])] = "settled"
        BY <2>1, <3>1
      <3> QED BY <2>2, <3>2
    <2>3. CASE b \notin closed
      BY <1>2, <2>3 DEF SessionAgrees
    <2> QED BY <2>2, <2>3
  <1>3. ASSUME NEW b \in Bids, NEW i \in begin'[b] + 2..Len(history'[b]),
               history'[b][i] = "settled"
        PROVE  history'[b][i - 1] = "created"
    <2>1. history[b] \in Seq(Kinds) /\ begin[b] \in Nat
      OBVIOUS
    <2>2. CASE b \in closed /\ i = Len(history[b]) + 1
      <3>1. history'[b] = Append(history[b], "settled")
        BY <2>2
      <3>2. Len(history[b]) > begin[b]
        BY <1>3, <2>1, <2>2
      <3>3. history[b][Len(history[b])] = "created"
        BY <2>2, <3>2 DEF SessionAgrees
      <3>4. history'[b][i - 1] = history[b][Len(history[b])]
        BY <2>1, <2>2, <3>1, <3>2
      <3> QED BY <3>3, <3>4
    <2>3. CASE b \in closed /\ i # Len(history[b]) + 1
      <3>1. history'[b] = Append(history[b], "settled")
        BY <2>3
      <3>2. i \in begin[b] + 2..Len(history[b])
        BY <1>3, <2>1, <2>3, <3>1
      <3>3. history'[b][i] = history[b][i] /\ history'[b][i - 1] = history[b][i - 1]
        BY <2>1, <3>1, <3>2
      <3> QED BY <1>3, <3>2, <3>3 DEF SettledOncePerSession
    <2>4. CASE b \notin closed
      BY <1>3, <2>4 DEF SettledOncePerSession
    <2> QED BY <2>2, <2>3, <2>4
  <1> QED BY <1>1, <1>2, <1>3 DEF SessionAgrees, SettledOncePerSession

\* A step that leaves history, the open bids and the session alone.
LEMMA Silent ==
    ASSUME IInv, history' = history, DOMAIN pending' = DOMAIN pending, begin' = begin
    PROVE  SessionAgrees' /\ SettledOncePerSession'
  BY DEF IInv, SessionAgrees, SettledOncePerSession, Open

-----------------------------------------------------------------------------
(* Ticks *)

LEMMA RecognisedType ==
    ASSUME IInv, NEW cue \in Cues, Possible(cue), NEW hyps \in Recognised(cue)
    PROVE  hyps \in [Partners -> Statuses]
  <1>1. hypotheses \in [Partners -> Statuses] /\ nextPartner \in 1..MaxPartners + 1
    BY DEF IInv, EngineOK, Current
  <1>2. CASE cue.kind = "none"
    BY <1>1, <1>2 DEF Recognised
  <1>3. CASE cue.kind = "new"
    <2> DEFINE more == [hypotheses EXCEPT ![nextPartner] = "CLEAR"]
    <2>1. more \in [Partners -> Statuses]
      BY <1>1 DEF Statuses
    <2>2. hyps \in Retired(more)
      BY <1>3 DEF Recognised
    <2>3. CASE hyps = more
      BY <2>1, <2>3
    <2>4. CASE \E h \in Partners : hyps = [more EXCEPT ![h] = "INACTIVE"]
      BY <2>1, <2>4 DEF Statuses
    <2>5. hyps = more \/ \E h \in Partners : hyps = [more EXCEPT ![h] = "INACTIVE"]
      <3> HIDE DEF more
      <3> QED BY <2>2 DEF Retired, In
    <2> QED BY <2>3, <2>4, <2>5
  <1>4. CASE cue.kind = "seen"
    BY <1>1, <1>4 DEF Recognised, Statuses
  <1>5. CASE cue.kind = "torn"
    BY <1>1, <1>5 DEF Recognised, Statuses
  <1>6. cue.kind \in {"none", "new", "seen", "torn"}
    BY DEF Cues
  <1> QED BY <1>2, <1>3, <1>4, <1>5, <1>6

\* A tick settles the bids whose partner has become contested and those whose
\* window is over; the others are in their windows, and looked at.
LEMMA TickStep ==
    ASSUME IInv, NEW cue \in Cues, NEW n \in {0, 1}, Tick(cue, n)
    PROVE  IInv'
  <1>1. PICK hyps \in Recognised(cue) :
            /\ hypotheses' = hyps
            /\ pending' = Aged(Interrupted(hyps) \cup Elapsed(Open \ Interrupted(hyps), n), n)
            /\ settled' = settled \cup Interrupted(hyps)
                            \cup Elapsed(Open \ Interrupted(hyps), n)
            /\ history' = Reported(Interrupted(hyps), Elapsed(Open \ Interrupted(hyps), n))
    BY DEF Tick
  <1> DEFINE closed == Interrupted(hyps) \cup Elapsed(Open \ Interrupted(hyps), n)
  <1>2. closed \in SUBSET Open
    BY DEF Interrupted, Elapsed
  <1>3. /\ Possible(cue)
        /\ links' = links /\ snap' = snap /\ cells' = cells
        /\ nextBid' = nextBid /\ begin' = begin /\ missed' = 0
        /\ nextPartner' = IF cue.kind = "new" THEN nextPartner + 1 ELSE nextPartner
    BY DEF Tick
  <1>4. hyps \in [Partners -> Statuses]
    BY <1>3, RecognisedType
  <1>5. history' = [b \in Bids |-> IF b \in closed THEN Append(history[b], "settled")
                                  ELSE history[b]]
    BY <1>1 DEF Reported
  <1>6. DOMAIN pending' = Open \ closed
    BY <1>1 DEF Aged
  <1>7. Extends(history', history) /\ SessionAgrees' /\ SettledOncePerSession'
    <2> HIDE DEF closed
    <2> QED BY <1>2, <1>3, <1>5, <1>6, Settling
  <1>8. ASSUME NEW b \in DOMAIN pending'
        PROVE  /\ b \in Bids
               /\ pending'[b] \in Bid
               /\ pending'[b].age <= Timeout + missed'
               /\ hypotheses'[pending'[b].partner] # "CONTESTED"
               /\ \E i \in 1..Len(history[b]) : history[b][i] = "created"
    <2>1. b \in Open /\ b \notin closed
      BY <1>6
    <2>2. /\ b \in Bids /\ pending[b] \in Bid
          /\ hypotheses[pending[b].partner] # "CONTESTED"
          /\ \E i \in 1..Len(history[b]) : history[b][i] = "created"
      BY <2>1 DEF IInv, EngineOK, BidOK, Current, Open
    <2>3. pending'[b] = [pending[b] EXCEPT !.age = @ + n]
      BY <1>1, <2>1 DEF Aged
    <2>4. /\ pending'[b] \in Bid
          /\ pending'[b].age = pending[b].age + n
          /\ pending'[b].partner = pending[b].partner
      BY <2>2, <2>3 DEF Bid
    <2>5. ~(pending[b].age + n > Timeout)
      BY <2>1 DEF Elapsed
    <2>6. pending[b].age \in Nat /\ Timeout \in Nat
      BY <2>2, SocialAssumption DEF Bid
    <2>7. hyps[pending[b].partner] # "CONTESTED"
      BY <2>1, <2>2 DEF Interrupted
    <2> QED BY <1>1, <1>3, <2>2, <2>4, <2>5, <2>6, <2>7
  <1>9. EngineOK(Current', history, links)
    <2>1. nextPartner' \in 1..MaxPartners + 1
      <3>1. nextPartner \in 1..MaxPartners + 1 /\ MaxPartners \in Nat
        BY SocialAssumption DEF IInv, EngineOK, Current
      <3>2. cue.kind = "new" => nextPartner <= MaxPartners
        BY <1>3 DEF Possible
      <3> QED BY <1>3, <3>1, <3>2
    <2>2. settled' \subseteq Bids
      BY <1>1, <1>2 DEF IInv, EngineOK, Current, Open
    <2>3. missed' \in 0..MaxMissed
      BY <1>3, SocialAssumption
    <2> QED BY <1>1, <1>3, <1>4, <1>8, <2>1, <2>2, <2>3
            DEF IInv, EngineOK, BidOK, Current
  <1>10. /\ EngineOK(Current', history', links')
         /\ EngineOK(snap', history', links')
    BY <1>3, <1>7, <1>9, EngineMonotone DEF IInv, LedgerOK
  <1> QED BY <1>3, <1>7, <1>10 DEF IInv, LedgerOK, Extends

\* What passes unseen is counted.
LEMMA UnseenStep ==
    ASSUME IInv, NEW n \in Nat, Unseen(n)
    PROVE  IInv'
  <1>1. /\ missed + n <= MaxMissed /\ missed' = missed + n
        /\ pending' = Aged({}, n)
        /\ UNCHANGED <<history, links, snap, hypotheses, settled, cells, nextPartner, nextBid,
                       begin>>
    BY DEF Unseen, durable
  <1>2. DOMAIN pending' = DOMAIN pending
    BY <1>1 DEF Aged, Open
  <1>3. missed \in 0..MaxMissed /\ missed' \in 0..MaxMissed /\ MaxMissed \in Nat /\ Timeout \in Nat
    BY <1>1, SocialAssumption DEF IInv, EngineOK, Current
  <1>4. ASSUME NEW b \in DOMAIN pending'
        PROVE  /\ pending'[b] \in Bid
               /\ pending'[b].age <= Timeout + missed'
               /\ pending'[b].partner = pending[b].partner
    <2>1. pending[b] \in Bid /\ pending[b].age <= Timeout + missed
      BY <1>2 DEF IInv, EngineOK, BidOK, Current
    <2>2. pending'[b] = [pending[b] EXCEPT !.age = @ + n]
      BY <1>1, <1>2 DEF Aged, Open
    <2> QED BY <1>1, <1>3, <2>1, <2>2 DEF Bid
  <1>5. EngineOK(Current', history', links')
    <2>1. \A b \in DOMAIN pending' : BidOK(Current', b, history')
      BY <1>1, <1>2, <1>4 DEF IInv, EngineOK, BidOK, Current
    <2> QED BY <1>1, <1>2, <1>3, <2>1 DEF IInv, EngineOK, Current
  <1>6. EngineOK(snap', history', links')
    BY <1>1 DEF IInv, EngineOK, BidOK
  <1>7. SessionAgrees' /\ SettledOncePerSession'
    BY <1>1, <1>2, Silent
  <1> QED BY <1>1, <1>5, <1>6, <1>7 DEF IInv, LedgerOK

-----------------------------------------------------------------------------
(* Signals *)

LEMMA SignalStep ==
    ASSUME IInv, NEW h \in Partners, Signal(h)
    PROVE  IInv'
  <1>1. /\ nextBid \in Bids
        /\ hypotheses[h] = "CLEAR"
        /\ history' = [history EXCEPT ![nextBid] = Append(@, "created")]
        /\ pending' = Opened(h)
        /\ settled' \subseteq settled
        /\ nextBid' = nextBid + 1
        /\ links' = links /\ snap' = snap /\ hypotheses' = hypotheses
        /\ cells' = cells /\ nextPartner' = nextPartner /\ begin' = begin
        /\ missed' = missed
    BY DEF Signal, Proposed, Kept
  <1>2. /\ history \in [Bids -> Seq(Kinds)] /\ begin \in [Bids -> Nat]
        /\ DOMAIN pending \subseteq Bids
    BY DEF IInv, LedgerOK, EngineOK, Current
  <1>3. DOMAIN pending' = Open \cup {nextBid}
    BY <1>1 DEF Opened
  <1>4. Extends(history', history)
    BY <1>1, <1>2 DEF Extends, Kinds
  <1>5. SessionAgrees'
    <2> SUFFICES ASSUME NEW b \in Bids, Len(history'[b]) > begin'[b]
                 PROVE  b \in Open' <=> history'[b][Len(history'[b])] = "created"
      BY DEF SessionAgrees
    <2>1. CASE b = nextBid
      <3>1. history'[b] = Append(history[b], "created") /\ history[b] \in Seq(Kinds)
        BY <1>1, <1>2, <2>1
      <3>2. history'[b][Len(history'[b])] = "created"
        BY <3>1
      <3> QED BY <1>3, <2>1, <3>2 DEF Open
    <2>2. CASE b # nextBid
      BY <1>1, <1>2, <1>3, <2>2 DEF IInv, SessionAgrees, Open
    <2> QED BY <2>1, <2>2
  <1>6. SettledOncePerSession'
    <2> SUFFICES ASSUME NEW b \in Bids, NEW i \in begin'[b] + 2..Len(history'[b]),
                        history'[b][i] = "settled"
                 PROVE  history'[b][i - 1] = "created"
      BY DEF SettledOncePerSession
    <2>0. history[b] \in Seq(Kinds) /\ begin[b] \in Nat
      BY <1>2
    <2>1. CASE b = nextBid
      <3>1. history'[b] = Append(history[b], "created")
        BY <1>1, <1>2, <2>1
      <3>2. i # Len(history[b]) + 1
        BY <2>0, <3>1
      <3>3. i \in begin[b] + 2..Len(history[b])
        BY <1>1, <2>0, <3>1, <3>2
      <3>4. history'[b][i] = history[b][i] /\ history'[b][i - 1] = history[b][i - 1]
        BY <2>0, <3>1, <3>3
      <3> QED BY <3>3, <3>4 DEF IInv, SettledOncePerSession
    <2>2. CASE b # nextBid
      BY <1>1, <1>2, <2>2 DEF IInv, SettledOncePerSession
    <2> QED BY <2>1, <2>2
  <1>7. EngineOK(snap', history', links')
    BY <1>1, <1>2, <1>4, EngineMonotone DEF IInv
  <1>8. EngineOK(Current, history', links)
    BY <1>2, <1>4, EngineMonotone DEF IInv
  <1>9. \E i \in 1..Len(history'[nextBid]) : history'[nextBid][i] = "created"
    <2>1. history'[nextBid] = Append(history[nextBid], "created")
          /\ history[nextBid] \in Seq(Kinds)
      BY <1>1, <1>2
    <2>2. /\ Len(history'[nextBid]) \in 1..Len(history'[nextBid])
          /\ history'[nextBid][Len(history'[nextBid])] = "created"
      BY <2>1
    <2> QED BY <2>2
  <1>10. ASSUME NEW b \in DOMAIN pending'
         PROVE  /\ b \in Bids
                /\ pending'[b] \in Bid
                /\ pending'[b].age <= Timeout + missed'
                /\ hypotheses'[pending'[b].partner] # "CONTESTED"
                /\ \E i \in 1..Len(history'[b]) : history'[b][i] = "created"
    <2>1. CASE b = nextBid
      <3>1. pending'[b] = [partner |-> h, age |-> 0]
        BY <1>1, <1>3, <2>1 DEF Opened
      <3>2. missed' \in 0..MaxMissed
        BY <1>1 DEF IInv, EngineOK, Current
      <3> QED BY <1>1, <1>9, <2>1, <3>1, <3>2, SocialAssumption DEF Bid
    <2>2. CASE b # nextBid
      <3>1. b \in Open /\ pending'[b] = pending[b]
        BY <1>1, <1>3, <2>2 DEF Opened
      <3> QED BY <1>1, <1>8, <3>1 DEF EngineOK, BidOK, Current, Open
    <2> QED BY <2>1, <2>2
  <1>11. EngineOK(Current', history', links')
    <2>1. nextBid' \in 1..MaxBids + 1
      BY <1>1, SocialAssumption DEF Bids
    <2> QED BY <1>1, <1>8, <1>10, <2>1 DEF EngineOK, BidOK, Current
  <1> QED BY <1>1, <1>4, <1>5, <1>6, <1>7, <1>11 DEF IInv, LedgerOK, Extends

LEMMA SignalRefusedStep ==
    ASSUME IInv, NEW h \in Partners, SignalRefused(h)
    PROVE  IInv'
  <1>1. /\ settled' = {}
        /\ UNCHANGED <<history, links, snap, hypotheses, pending, cells, nextPartner,
                       nextBid, missed, begin>>
    BY DEF SignalRefused, durable
  <1>2. EngineOK(Current', history', links') /\ EngineOK(snap', history', links')
    BY <1>1 DEF IInv, EngineOK, BidOK, Current
  <1>3. SessionAgrees' /\ SettledOncePerSession'
    BY <1>1, Silent
  <1> QED BY <1>1, <1>2, <1>3 DEF IInv, LedgerOK

LEMMA SignalFailsStep ==
    ASSUME IInv, NEW h \in Partners, SignalFails(h)
    PROVE  IInv'
  <1>1. /\ settled' \subseteq settled
        /\ nextBid \in Bids /\ nextBid' = nextBid + 1
        /\ UNCHANGED <<history, links, snap, hypotheses, pending, cells, nextPartner, missed,
                       begin>>
    BY DEF SignalFails, durable, Kept
  <1>2. nextBid' \in 1..MaxBids + 1
    BY <1>1, SocialAssumption DEF Bids
  <1>3. EngineOK(Current', history', links') /\ EngineOK(snap', history', links')
    BY <1>1, <1>2 DEF IInv, EngineOK, BidOK, Current
  <1>4. SessionAgrees' /\ SettledOncePerSession'
    BY <1>1, Silent
  <1> QED BY <1>1, <1>3, <1>4 DEF IInv, LedgerOK

-----------------------------------------------------------------------------
(* Answers *)

\* A link that was not there raises the evidence it belongs to by one, and no other.
LEMMA OneLinkMore ==
    ASSUME NEW ls, IsFiniteSet(ls), NEW l, l \notin ls, NEW h, NEW r
    PROVE  Cardinality(Evidence(ls \cup {l}, h, r))
             = IF l.partner = h /\ l.relation = r
               THEN Cardinality(Evidence(ls, h, r)) + 1
               ELSE Cardinality(Evidence(ls, h, r))
  <1>1. IsFiniteSet(Evidence(ls, h, r)) /\ l \notin Evidence(ls, h, r)
    BY FS_Subset DEF Evidence
  <1>2. CASE l.partner = h /\ l.relation = r
    <2>1. Evidence(ls \cup {l}, h, r) = Evidence(ls, h, r) \cup {l}
      BY <1>2 DEF Evidence
    <2>2. Cardinality(Evidence(ls, h, r) \cup {l}) = Cardinality(Evidence(ls, h, r)) + 1
      <3>1. PICK es : es = Evidence(ls, h, r)
        OBVIOUS
      <3> QED BY <1>1, <3>1, FS_AddElement
    <2> QED BY <1>2, <2>1, <2>2, Zenon
  <1>3. CASE ~(l.partner = h /\ l.relation = r)
    <2>1. Evidence(ls \cup {l}, h, r) = Evidence(ls, h, r)
      BY <1>3 DEF Evidence
    <2> QED BY <1>3, <2>1
  <1> QED BY <1>2, <1>3

LEMMA ObserveStep ==
    ASSUME IInv, NEW b \in Open, NEW responded \in BOOLEAN, NEW external \in BOOLEAN,
           Observe(b, responded, external)
    PROVE  IInv'
  <1> DEFINE relation == Classified(b, responded, external)
             p == pending[b].partner
             l == [partner |-> p, bid |-> b, relation |-> relation]
  <1>1. /\ Linked(b, relation) \cap links = {}
        /\ links' = links \cup Linked(b, relation)
        /\ cells' = IF relation = "none" THEN cells
                    ELSE [cells EXCEPT ![p][relation] = @ + 1]
        /\ history' = [history EXCEPT ![b] = Append(@, "settled")]
        /\ pending' = [c \in Open \ {b} |-> pending[c]]
        /\ settled' = settled \cup {b}
        /\ UNCHANGED <<snap, hypotheses, nextPartner, nextBid, missed, begin>>
    BY DEF Observe
  <1>2. /\ history \in [Bids -> Seq(Kinds)] /\ links \subseteq Link /\ IsFiniteSet(links)
        /\ b \in Bids /\ p \in Partners /\ cells \in [Partners -> Cell]
    BY DEF IInv, LedgerOK, EngineOK, BidOK, Current, Open, Bid
  <1>3. relation \in Relations \cup {"none"}
    BY DEF Classified, Relations
  <1>4. /\ Extends(history', history) /\ SessionAgrees' /\ SettledOncePerSession'
    <2>1. history' = [c \in Bids |-> IF c \in {b} THEN Append(history[c], "settled")
                                    ELSE history[c]]
      BY <1>1, <1>2
    <2>2. DOMAIN pending' = Open \ {b} /\ {b} \in SUBSET Open
      BY <1>1
    <2> QED BY <1>1, <2>1, <2>2, Settling
  <1>5. links' \subseteq Link /\ IsFiniteSet(links')
    <2>1. CASE relation = "none"
      BY <1>1, <1>2, <2>1 DEF Linked
    <2>2. CASE relation # "none"
      <3>1. links' = links \cup {l} /\ l \in Link
        BY <1>1, <1>2, <1>3, <2>2 DEF Linked, Link
      <3> QED BY <1>2, <3>1, FS_AddElement
    <2> QED BY <2>1, <2>2
  <1>6. /\ EngineOK(snap', history', links') /\ EngineOK(Current, history', links')
    BY <1>1, <1>2, <1>4, <1>5, EngineMonotone, EngineKeepsLinks DEF IInv
  <1>7. /\ cells' \in [Partners -> Cell]
        /\ \A h \in Partners : \A r \in Relations :
               cells'[h][r] <= Cardinality(Evidence(links', h, r))
    <2>1. CASE relation = "none"
      BY <1>1, <1>6, <2>1 DEF EngineOK, Current
    <2>2. CASE relation # "none"
      <3>1. links' = links \cup {l} /\ l \notin links /\ relation \in Relations
        BY <1>1, <1>3, <2>2 DEF Linked
      <3>2. cells' = [cells EXCEPT ![p][relation] = @ + 1]
        BY <1>1, <2>2
      <3>3. cells[p] \in Cell /\ cells[p] \in [Relations -> Nat]
        BY <1>2 DEF Cell, Relations
      <3>4. /\ cells'[p] = [cells[p] EXCEPT ![relation] = @ + 1]
            /\ \A h \in Partners \ {p} : cells'[h] = cells[h]
        BY <1>2, <3>2
      <3>5. cells'[p] \in Cell
        BY <3>1, <3>3, <3>4 DEF Cell, Relations
      <3>6. cells' \in [Partners -> Cell]
        BY <1>2, <3>2, <3>4, <3>5
      <3>7. ASSUME NEW h \in Partners, NEW r \in Relations
            PROVE  cells'[h][r] <= Cardinality(Evidence(links', h, r))
        <4>1. cells[h][r] <= Cardinality(Evidence(links, h, r))
          BY DEF IInv, EngineOK, Current
        <4>2. cells[h][r] \in Nat /\ Cardinality(Evidence(links, h, r)) \in Nat
          <5>1. IsFiniteSet(Evidence(links, h, r))
            BY <1>2, FS_Subset DEF Evidence
          <5>2. cells[h] \in Cell
            BY <1>2
          <5> QED BY <5>1, <5>2, FS_CardinalityType DEF Cell, Relations
        <4>3. Cardinality(Evidence(links', h, r))
                = IF p = h /\ relation = r THEN Cardinality(Evidence(links, h, r)) + 1
                  ELSE Cardinality(Evidence(links, h, r))
          BY <1>2, <3>1, OneLinkMore
        <4>4. cells'[h][r] = IF p = h /\ relation = r THEN cells[h][r] + 1 ELSE cells[h][r]
          BY <3>1, <3>3, <3>4
        <4>5. PICK k \in Nat, n \in Nat :
                 k = cells[h][r] /\ n = Cardinality(Evidence(links, h, r))
          BY <4>2
        <4> QED BY <4>1, <4>3, <4>4, <4>5
      <3> QED BY <3>6, <3>7
    <2> QED BY <2>1, <2>2
  <1>8. ASSUME NEW c \in DOMAIN pending'
        PROVE  BidOK(Current, c, history') /\ c \in DOMAIN pending /\ pending'[c] = pending[c]
    BY <1>1, <1>6 DEF EngineOK, Current, Open
  <1>9. EngineOK(Current', history', links')
    <2>1. \A c \in DOMAIN pending' : BidOK(Current', c, history')
      BY <1>1, <1>8 DEF BidOK, Current
    <2>2. DOMAIN pending' \subseteq Bids /\ settled' \subseteq Bids
      BY <1>1, <1>2, <1>6 DEF EngineOK, Current, Open
    <2>3. /\ hypotheses' \in [Partners -> Statuses]
          /\ nextPartner' \in 1..MaxPartners + 1 /\ nextBid' \in 1..MaxBids + 1
          /\ missed' \in 0..MaxMissed
      BY <1>1, <1>6 DEF EngineOK, Current
    <2> QED BY <1>7, <2>1, <2>2, <2>3 DEF EngineOK, Current
  <1> QED BY <1>1, <1>2, <1>4, <1>5, <1>6, <1>9 DEF IInv, LedgerOK, Extends

-----------------------------------------------------------------------------
(* Snapshots and restarts *)

\* A snapshot is what is in memory.
LEMMA SaveStep == ASSUME IInv, Save PROVE IInv'
  <1>1. /\ snap' = Current
        /\ UNCHANGED <<history, links, hypotheses, pending, settled, cells, nextPartner,
                       nextBid, missed, begin>>
    BY DEF Save, memory
  <1>2. EngineOK(Current', history', links') /\ EngineOK(snap', history', links')
    BY <1>1 DEF IInv, EngineOK, BidOK, Current
  <1>3. SessionAgrees' /\ SettledOncePerSession'
    BY <1>1, Silent
  <1> QED BY <1>1, <1>2, <1>3 DEF IInv, LedgerOK

\* A session begins where the ledger ends: nothing in it is this session's yet.
LEMMA RestartStep == ASSUME IInv, Restart PROVE IInv'
  <1>1. /\ Restored(snap)
        /\ begin' = [b \in Bids |-> Len(history[b])]
        /\ UNCHANGED <<history, links, snap>>
    BY DEF Restart, durable
  <1>2. EngineOK(Current', history', links') /\ EngineOK(snap', history', links')
    BY <1>1 DEF IInv, EngineOK, BidOK, Current, Restored
  <1>3. \A b \in Bids : begin'[b] = Len(history'[b]) /\ Len(history'[b]) \in Nat
    BY <1>1 DEF IInv, LedgerOK
  <1>4. SessionAgrees' /\ SettledOncePerSession'
    BY <1>3 DEF SessionAgrees, SettledOncePerSession
  <1> QED BY <1>1, <1>2, <1>3, <1>4 DEF IInv, LedgerOK

-----------------------------------------------------------------------------
(* The invariant *)

LEMMA Initially == Init => IInv
  <1> SUFFICES ASSUME Init PROVE IInv
    OBVIOUS
  <1> USE DEF Init
  <1>1. LedgerOK
    <2>1. <<"created", "settled">> \in Seq(Kinds) /\ <<>> \in Seq(Kinds)
      BY DEF Kinds
    <2>2. history \in [Bids -> Seq(Kinds)]
      BY <2>1
    <2>3. links \subseteq Link /\ IsFiniteSet(links) /\ begin \in [Bids -> Nat]
      BY FS_EmptySet
    <2> QED BY <2>2, <2>3 DEF LedgerOK
  <1>2. DOMAIN Acquainted.pending = {}
    BY DEF Acquainted
  <1>3. ASSUME NEW h \in Partners, NEW r \in Relations
        PROVE  Acquainted.cells[h][r] <= Cardinality(Evidence(links, h, r))
    <2>1. Evidence(links, h, r) = {}
      BY DEF Evidence
    <2>2. Acquainted.cells[h] = [support |-> 0, contradict |-> 0]
      BY DEF Acquainted
    <2>3. Acquainted.cells[h][r] = 0
      BY <2>2 DEF Relations
    <2>4. Cardinality(Evidence(links, h, r)) = 0
      BY <2>1, FS_EmptySet
    <2> QED BY <2>3, <2>4
  <1>4. /\ Acquainted.hypotheses \in [Partners -> Statuses]
        /\ Acquainted.settled \subseteq Bids
        /\ Acquainted.cells \in [Partners -> Cell]
        /\ Acquainted.nextPartner \in 1..MaxPartners + 1
        /\ Acquainted.nextBid \in 1..MaxBids + 1
        /\ Acquainted.missed \in 0..MaxMissed
    BY SocialAssumption DEF Acquainted, Statuses, Cell, Bids
  <1>5. EngineOK(Acquainted, history, links)
    BY <1>2, <1>3, <1>4 DEF EngineOK
  <1>6. EngineOK(Current, history, links) /\ EngineOK(snap, history, links)
    BY <1>5 DEF EngineOK, BidOK, Current, Acquainted
  <1>7. SessionAgrees /\ SettledOncePerSession
    BY <1>2 DEF SessionAgrees, SettledOncePerSession, Open
  <1> QED BY <1>1, <1>6, <1>7 DEF IInv

LEMMA Inductive == IInv /\ [Next]_vars => IInv'
  <1> SUFFICES ASSUME IInv, [Next]_vars PROVE IInv'
    OBVIOUS
  <1>1. CASE \E cue \in Cues, n \in {0, 1} : Tick(cue, n)
    BY <1>1, TickStep
  <1>2. CASE \E h \in Partners : Signal(h) \/ SignalRefused(h) \/ SignalFails(h)
    BY <1>2, SignalStep, SignalRefusedStep, SignalFailsStep
  <1>3. CASE \E b \in Open, responded, external \in BOOLEAN : Observe(b, responded, external)
    BY <1>3, ObserveStep
  <1>4. CASE Save
    BY <1>4, SaveStep
  <1>5. CASE Restart
    BY <1>5, RestartStep
  <1>6. CASE DisplacedTick \/ \E n \in 1..MaxMissed : Downtime(n)
    <2>1. PICK n \in Nat : Unseen(n)
      BY <1>6, SocialAssumption DEF DisplacedTick, Downtime
    <2> QED BY <2>1, UnseenStep
  <1>7. CASE UNCHANGED vars
    <2>1. UNCHANGED <<history, links, snap, hypotheses, pending, settled, cells,
                      nextPartner, nextBid, missed, begin>>
      BY <1>7 DEF vars, durable, memory
    <2>2. EngineOK(Current', history', links') /\ EngineOK(snap', history', links')
      BY <2>1 DEF IInv, EngineOK, BidOK, Current
    <2> QED BY <2>1, <2>2, Silent DEF IInv, LedgerOK
  <1> QED BY <1>1, <1>2, <1>3, <1>4, <1>5, <1>6, <1>7 DEF Next

LEMMA Invariance == Spec => []IInv
  BY Initially, Inductive, PTL DEF Spec

-----------------------------------------------------------------------------
(* The capacity *)

\* What an engine, in memory or saved, keeps of bids: numbers it has given out, either
\* open or settled, and no more of both than it has places for.
CapOK(e) ==
    /\ DOMAIN e.pending \cap e.settled = {}
    /\ \A b \in DOMAIN e.pending \cup e.settled : b < e.nextBid
    /\ Cardinality(DOMAIN e.pending) + Cardinality(e.settled) <= MaxOpen

CapInv == CapOK(Current) /\ CapOK(snap) /\ loads \in 0..MaxLoads

LEMMA BidsFinite ==
    ASSUME NEW S, S \subseteq Bids
    PROVE  IsFiniteSet(S) /\ Cardinality(S) \in Nat
  <1>1. IsFiniteSet(Bids)
    BY SocialAssumption, FS_Interval DEF Bids
  <1> QED BY <1>1, FS_Subset, FS_CardinalityType

\* Bids that settle keep their places.
LEMMA SettlingCounts ==
    ASSUME NEW open, open \subseteq Bids, NEW done, done \subseteq Bids, open \cap done = {},
           NEW closed, closed \subseteq open
    PROVE  Cardinality(open \ closed) + Cardinality(done \cup closed)
               = Cardinality(open) + Cardinality(done)
  <1>1. closed \subseteq Bids /\ open \ closed \subseteq Bids /\ done \cup closed \subseteq Bids
    OBVIOUS
  <1>2. /\ IsFiniteSet(open) /\ IsFiniteSet(done) /\ IsFiniteSet(closed)
        /\ Cardinality(open) \in Nat /\ Cardinality(done) \in Nat /\ Cardinality(closed) \in Nat
    BY <1>1, BidsFinite
  <1>3. open \cap closed = closed /\ done \cap closed = {}
    OBVIOUS
  <1>4. Cardinality(open \ closed) = Cardinality(open) - Cardinality(closed)
    BY <1>2, <1>3, FS_Difference
  <1>5. Cardinality(done \cup closed) = Cardinality(done) + Cardinality(closed)
    <2>1. Cardinality(done \cup closed)
              = Cardinality(done) + Cardinality(closed) - Cardinality(done \cap closed)
      BY <1>2, FS_Union
    <2>2. Cardinality(done \cap closed) = 0
      BY <1>3, FS_EmptySet
    <2> QED BY <1>2, <2>1, <2>2
  <1> QED BY <1>2, <1>4, <1>5

\* Where there was no place left for another bid, the oldest settled one has gone.
LEMMA KeptLeavesRoom ==
    ASSUME IInv, CapInv, Cardinality(Open) < MaxOpen
    PROVE  Kept \subseteq settled /\ Cardinality(Open) + 1 + Cardinality(Kept) <= MaxOpen
  <1>1. /\ Open \subseteq Bids /\ settled \subseteq Bids
        /\ Cardinality(Open) + Cardinality(settled) <= MaxOpen
    BY DEF IInv, EngineOK, CapInv, CapOK, Current, Open
  <1>2. Kept \subseteq settled
    BY DEF Kept
  <1>3. PICK o \in Nat, s \in Nat, m \in Nat :
            o = Cardinality(Open) /\ s = Cardinality(settled) /\ m = MaxOpen
    BY <1>1, BidsFinite, SocialAssumption
  <1>4. IsFiniteSet(settled) /\ IsFiniteSet(Kept) /\ Cardinality(Kept) \in Nat
    BY <1>1, <1>2, BidsFinite
  <1>5. CASE o + s < m
    <2>1. Cardinality(Kept) <= Cardinality(settled)
      BY <1>2, <1>4, FS_Subset
    <2> QED BY <1>2, <1>3, <1>4, <1>5, <2>1
  <1>6. CASE o + s = m
    <2>1. settled # {}
      <3>1. s # 0
        BY <1>3, <1>6
      <3> QED BY <1>3, <3>1, FS_EmptySet
    <2>2. settled \subseteq Nat
      BY <1>1 DEF Bids
    <2>3. PICK b \in settled : \A c \in settled : ~(<<c, b>> \in OpToRel(<, Nat))
      BY <2>1, <2>2, NatLessThanWellFounded, WFMin
    <2>4. \A c \in settled : ~(c < b)
      BY <2>2, <2>3 DEF OpToRel
    <2>5. {c \in settled : c < b} = {}
      BY <2>4
    <2>6. Cardinality({c \in settled : c < b}) = 0
      BY <2>5, FS_EmptySet
    <2>7. b \notin Kept
      <3>1. Cardinality(Open) + Cardinality(settled) + 1 - MaxOpen = 1
        BY <1>3, <1>6
      <3>2. ~(Cardinality({c \in settled : c < b}) >=
                  Cardinality(Open) + Cardinality(settled) + 1 - MaxOpen)
        BY <2>6, <3>1
      <3> QED BY <3>2 DEF Kept
    <2>8. Kept \subseteq settled \ {b}
      BY <1>2, <2>7
    <2>9. /\ IsFiniteSet(settled \ {b})
          /\ Cardinality(settled \ {b}) = Cardinality(settled) - 1
      BY <1>4, FS_RemoveElement
    <2>10. Cardinality(Kept) <= Cardinality(settled \ {b})
      BY <2>8, <2>9, FS_Subset
    <2> QED BY <1>2, <1>3, <1>4, <1>6, <2>9, <2>10
  <1> QED BY <1>1, <1>3, <1>5, <1>6

LEMMA InitCap == Init => CapInv
  <1> SUFFICES ASSUME Init PROVE CapInv
    OBVIOUS
  <1>1. Cardinality({}) = 0 /\ Cardinality({1}) = 1
    BY FS_EmptySet, FS_Singleton
  <1>2. /\ Current.settled = {1} /\ Current.nextBid = 2 /\ DOMAIN Current.pending = {}
        /\ snap.settled = {1} /\ snap.nextBid = 2 /\ DOMAIN snap.pending = {}
    BY DEF Init, Current, Acquainted
  <1>3. MaxOpen \in Nat \ {0} /\ loads = 0 /\ MaxLoads \in Nat
    BY SocialAssumption DEF Init
  <1> QED BY <1>1, <1>2, <1>3 DEF CapInv, CapOK

\* Another engine in memory, with the same snapshot.
LEMMA CapOfMemory ==
    ASSUME CapInv, snap' = snap, loads' = loads,
           Open' \cap settled' = {}, \A b \in Open' \cup settled' : b < nextBid',
           Cardinality(Open') + Cardinality(settled') <= MaxOpen
    PROVE  CapInv'
  BY DEF CapInv, CapOK, Current, Open

LEMMA MemoryCap ==
    ASSUME IInv, CapInv
    PROVE  /\ Open \subseteq Bids /\ settled \subseteq Bids /\ Open \cap settled = {}
           /\ \A b \in Open \cup settled : b \in Nat /\ b < nextBid
           /\ Cardinality(Open) + Cardinality(settled) <= MaxOpen
           /\ nextBid \in Nat /\ IsFiniteSet(Open) /\ Cardinality(Open) \in Nat
  <1>1. Open \subseteq Bids /\ settled \subseteq Bids
    BY DEF IInv, EngineOK, Current, Open
  <1>2. IsFiniteSet(Open) /\ Cardinality(Open) \in Nat
    BY <1>1, BidsFinite
  <1>3. nextBid \in Nat
    BY DEF IInv, EngineOK, Current
  <1> QED BY <1>1, <1>2, <1>3 DEF CapInv, CapOK, Current, Open, Bids

\* Some open bids are settled: a tick's, or the one that is answered.
LEMMA SettlingCap ==
    ASSUME IInv, CapInv, NEW closed \in SUBSET Open, Open' = Open \ closed,
           settled' = settled \cup closed, UNCHANGED <<snap, loads, nextBid>>
    PROVE  CapInv'
  <1>1. Cardinality(Open \ closed) + Cardinality(settled \cup closed)
            = Cardinality(Open) + Cardinality(settled)
    BY MemoryCap, SettlingCounts
  <1>2. Cardinality(Open') + Cardinality(settled') <= MaxOpen
    BY <1>1, MemoryCap
  <1>3. Open' \cap settled' = {} /\ \A b \in Open' \cup settled' : b < nextBid'
    BY MemoryCap
  <1> QED BY <1>2, <1>3, CapOfMemory

\* The next bid has a number no other has.
LEMMA OpeningCap ==
    ASSUME IInv, CapInv, Cardinality(Open) < MaxOpen, settled' = Kept,
           Open' = Open \cup {nextBid} \/ Open' = Open,
           nextBid' = nextBid + 1, UNCHANGED <<snap, loads>>
    PROVE  CapInv'
  <1>1. /\ Kept \subseteq settled /\ Cardinality(Open) + 1 + Cardinality(Kept) <= MaxOpen
        /\ Cardinality(Kept) \in Nat /\ MaxOpen \in Nat
    BY KeptLeavesRoom, MemoryCap, BidsFinite, SocialAssumption
  <1>2. Cardinality(Open \cup {nextBid}) = Cardinality(Open) + 1
    <2>1. nextBid \notin Open
      BY MemoryCap
    <2> QED BY <2>1, MemoryCap, FS_AddElement
  <1>3. Cardinality(Open') + Cardinality(settled') <= MaxOpen
    <2>1. Cardinality(Open') \in {Cardinality(Open), Cardinality(Open) + 1}
      BY <1>2
    <2>2. Cardinality(settled') = Cardinality(Kept)
      OBVIOUS
    <2> QED BY <1>1, <2>1, <2>2, MemoryCap
  <1>4. \A b \in Open \cup settled \cup {nextBid} : b < nextBid'
    BY MemoryCap
  <1>5. Open' \cap settled' = {} /\ \A b \in Open' \cup settled' : b < nextBid'
    <2>1. nextBid \notin settled
      BY MemoryCap
    <2> QED BY <1>1, <1>4, <2>1, MemoryCap
  <1> QED BY <1>3, <1>5, CapOfMemory

LEMMA StepCap ==
    ASSUME IInv, CapInv, [Next]_vars
    PROVE  CapInv'
  <1>1. ASSUME NEW cue \in Cues, NEW n \in {0, 1}, Tick(cue, n) PROVE CapInv'
    <2>1. PICK hyps \in Recognised(cue) :
              /\ pending' = Aged(Interrupted(hyps) \cup Elapsed(Open \ Interrupted(hyps), n), n)
              /\ settled' = settled \cup Interrupted(hyps)
                              \cup Elapsed(Open \ Interrupted(hyps), n)
      BY <1>1 DEF Tick
    <2>2. PICK closed : closed = Interrupted(hyps) \cup Elapsed(Open \ Interrupted(hyps), n)
      OBVIOUS
    <2>3. closed \in SUBSET Open
      BY <2>2 DEF Interrupted, Elapsed
    <2>4. Open' = Open \ closed /\ settled' = settled \cup closed
      BY <2>1, <2>2 DEF Aged, Open
    <2> QED BY <1>1, <2>3, <2>4, SettlingCap DEF Tick
  <1>2. ASSUME NEW h \in Partners, Signal(h) PROVE CapInv'
    <2>1. Open' = Open \cup {nextBid}
      BY <1>2 DEF Signal, Opened, Open
    <2> QED BY <1>2, <2>1, OpeningCap DEF Signal
  <1>3. ASSUME NEW h \in Partners, SignalRefused(h) PROVE CapInv'
    <2>1. /\ Open' = Open /\ settled' = {} /\ nextBid' = nextBid
          /\ snap' = snap /\ loads' = loads
      BY <1>3 DEF SignalRefused, Open, durable
    <2>2. Cardinality({}) = 0
      BY FS_EmptySet
    <2>3. Cardinality(Open) <= MaxOpen
      BY MemoryCap, BidsFinite, SocialAssumption
    <2>4. Cardinality(Open') + Cardinality(settled') <= MaxOpen
      BY <2>1, <2>2, <2>3, MemoryCap
    <2> QED BY <2>1, <2>4, MemoryCap, CapOfMemory
  <1>4. ASSUME NEW h \in Partners, SignalFails(h) PROVE CapInv'
    <2>1. Open' = Open /\ snap' = snap
      BY <1>4 DEF SignalFails, Open, durable
    <2> QED BY <1>4, <2>1, OpeningCap DEF SignalFails
  <1>5. ASSUME NEW b \in Open, NEW responded \in BOOLEAN, NEW external \in BOOLEAN,
               Observe(b, responded, external)
        PROVE  CapInv'
    <2>1. Open' = Open \ {b} /\ settled' = settled \cup {b} /\ {b} \in SUBSET Open
      BY <1>5 DEF Observe, Open
    <2> QED BY <1>5, <2>1, SettlingCap DEF Observe
  <1>6. CASE Save
    BY <1>6 DEF Save, CapInv, memory, Current
  <1>7. CASE Restart
    <2>1. /\ pending' = snap.pending /\ settled' = snap.settled
          /\ nextBid' = snap.nextBid /\ snap' = snap
      BY <1>7 DEF Restart, Restored, durable
    <2>2. loads' \in 0..MaxLoads
      BY <1>7, SocialAssumption DEF Restart, CapInv
    <2>3. /\ Current'.pending = snap.pending /\ Current'.settled = snap.settled
          /\ Current'.nextBid = snap.nextBid
      BY <2>1 DEF Current
    <2>4. CapOK(snap)
      BY DEF CapInv
    <2> QED BY <2>1, <2>2, <2>3, <2>4 DEF CapInv, CapOK
  <1>8. ASSUME NEW n, Unseen(n) PROVE CapInv'
    <2>1. Open' = Open
      BY <1>8 DEF Unseen, Aged, Open
    <2> QED BY <1>8, <2>1, MemoryCap, CapOfMemory DEF Unseen, durable
  <1>9. CASE UNCHANGED vars
    BY <1>9 DEF vars, durable, memory, CapInv, Current, CapOK
  <1> QED BY <1>1, <1>2, <1>3, <1>4, <1>5, <1>6, <1>7, <1>8, <1>9
          DEF Next, DisplacedTick, Downtime

-----------------------------------------------------------------------------
(* Theorems *)

\* Within a session an answer, contested recognition and the timeout settle a bid
\* once between them, whatever restarts came before.
THEOREM SettledOnce == Spec => []SettledOncePerSession
  BY Invariance, PTL DEF IInv

\* In every session the bids the engine waits for are in the ledger, and are those
\* its events of the session leave open.
THEOREM MemoryMatches == Spec => []MemoryMatchesLedger
  <1>1. IInv => MemoryMatchesLedger
    BY DEF IInv, EngineOK, BidOK, Current, MemoryMatchesLedger, OpenBidsRecorded, Open
  <1> QED BY <1>1, Invariance, PTL

\* No cell ever counts more evidence than the ledger has links for.
THEOREM CellsBacked == Spec => []EvidenceBacked
  <1>1. IInv => EvidenceBacked
    BY DEF IInv, EngineOK, Current, EvidenceBacked, Evidence
  <1> QED BY <1>1, Invariance, PTL

\* A bid outlives its window by no more than the age added since the engine last looked.
THEOREM BidsEndInTime == Spec => []SettledInTime
  <1>1. IInv => SettledInTime
    BY DEF IInv, EngineOK, BidOK, Current, SettledInTime, Open
  <1> QED BY <1>1, Invariance, PTL

\* No bid to a contested partner is open.
THEOREM ContestedHasNoBid == Spec => []NoBidToContested
  <1>1. IInv => NoBidToContested
    BY DEF IInv, EngineOK, BidOK, Current, NoBidToContested, Open
  <1> QED BY <1>1, Invariance, PTL

\* A bid supports its partner only when no other bid was in its window.
THEOREM CausalSupport == Spec => SupportIsCausal
  <1> DEFINE Causal == \A l \in links' \ links : l.relation = "support" =>
                           /\ \A b \in Open \ {l.bid} : pending[b].age = 0 \/ pending[b].age > Timeout
                           /\ pending[l.bid].age \in 1..Delayed
  <1>1. ASSUME IInv, [Next]_vars PROVE Causal
    <2> SUFFICES ASSUME NEW l \in links' \ links, l.relation = "support"
                 PROVE  /\ \A b \in Open \ {l.bid} : pending[b].age = 0 \/ pending[b].age > Timeout
                        /\ pending[l.bid].age \in 1..Delayed
      OBVIOUS
    <2>1. links' # links
      OBVIOUS
    <2>2. \E b \in Open, responded, external \in BOOLEAN : Observe(b, responded, external)
      BY <1>1, <2>1 DEF Next, Tick, DisplacedTick, Downtime, Unseen, Signal, SignalRefused,
                        SignalFails, Save, Restart, durable, memory, vars
    <2>3. PICK b \in Open, responded \in BOOLEAN, external \in BOOLEAN :
              Observe(b, responded, external)
      BY <2>2
    <2> DEFINE relation == Classified(b, responded, external)
    <2>4. l \in Linked(b, relation)
      BY <2>3 DEF Observe
    <2>5. l.bid = b /\ relation = "support"
      <3>1. l = [partner |-> pending[b].partner, bid |-> b, relation |-> relation]
        BY <2>4 DEF Linked
      <3> QED BY <3>1
    <2>6. pending[b].age \in 1..Delayed /\ ~Overlapped(b)
      BY <2>5 DEF Classified
    <2>7. \A c \in Open : pending[c].age \in Nat
      BY <1>1 DEF IInv, EngineOK, BidOK, Current, Open, Bid
    <2>8. \A c \in Open \ {b} : pending[c].age = 0 \/ pending[c].age > Timeout
      BY <2>6, <2>7, SocialAssumption DEF Overlapped
    <2> QED BY <2>5, <2>6, <2>8
  <1> QED BY <1>1, Invariance, PTL DEF SupportIsCausal, Spec

\* The engine never holds more bids than max_pending_interactions, the settled ones
\* included, and no bid is both open and settled, also when a snapshot is loaded
\* (social/engine.py, _ensure_pending_capacity).
THEOREM CapacityKept == Spec => []TypeOK
  <1>1. IInv /\ CapInv => TypeOK
    BY DEF IInv, LedgerOK, EngineOK, BidOK, CapInv, CapOK, Current, Open, TypeOK
  <1>2. IInv /\ CapInv /\ [Next]_vars => CapInv'
    BY StepCap
  <1> QED BY <1>1, <1>2, InitCap, Invariance, PTL DEF Spec

=============================================================================
