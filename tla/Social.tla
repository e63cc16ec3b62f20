-------------------------------- MODULE Social --------------------------------
(***************************************************************************)
(* The social engine: hypotheses about who a partner is, the bids (pending *)
(* interactions) opened by an executed signal, their settlement by an      *)
(* answer, by contested recognition or by a timeout, and the evidence an   *)
(* answer leaves behind, across restarts from a snapshot that may be older *)
(* than the ledger.                                                        *)
(*                                                                         *)
(* There is one context and one signal.  A bid's age is the organism's age *)
(* minus its signal_tick.  The organism ages by one in a tick, but not     *)
(* only in ticks that look at the bids: one with an external displacement  *)
(* returns before, and reconciled downtime adds several at once.  Age and  *)
(* the seeded counters of bids and of hypotheses come from the snapshot    *)
(* after a restart.  The ledger is kept per bid: nothing that reads it     *)
(* relates the events of two bids.                                         *)
(***************************************************************************)
EXTENDS Naturals, FiniteSets, Sequences

CONSTANTS
    MaxHypotheses,  \* max_partner_hypotheses
    MaxOpen,        \* max_pending_interactions
    Delayed,        \* last tick of the delayed window
    Timeout,        \* response_none_timeout
    MaxPartners,    \* bound on hypothesis ids
    MaxBids,        \* bound on bid ids
    MaxMissed,      \* bound on the age that passes between two looks at the bids
    MaxLoads        \* bound on restarts

ASSUME SocialAssumption ==
    /\ MaxHypotheses \in Nat \ {0}
    /\ MaxOpen \in Nat \ {0}
    /\ Delayed \in Nat \ {0} /\ Timeout \in Nat /\ Delayed <= Timeout
    /\ MaxPartners \in Nat /\ MaxHypotheses <= MaxPartners /\ MaxBids \in Nat \ {0}
    /\ MaxMissed \in Nat /\ MaxLoads \in Nat

Partners == 1..MaxPartners
Bids     == 1..MaxBids

VARIABLES
    \* durable
    history,     \* bid -> its lifecycle events, in ledger order
    links,       \* rows of social_evidence_links
    snap,        \* the engine's to_state() in the restart snapshot
    \* volatile
    hypotheses,  \* hypothesis id -> status, CLEAR for UNKNOWN or FAMILIAR
    pending,     \* the open bids of SocialEngine.pending
    settled,     \* the other bids of SocialEngine.pending
    cells,       \* hypothesis id -> counts of its contingency cell
    nextPartner, \* _hypothesis_counter + 1
    nextBid,     \* _pending_counter + 1
    missed,      \* by how much the organism aged since the bids were last looked at
    \* auxiliary
    begin,       \* bid -> events it had when this session was loaded
    loads        \* restarts so far

durable == <<history, links, snap>>
memory  == <<hypotheses, pending, settled, cells, nextPartner, nextBid, missed>>
vars    == <<durable, memory, begin, loads>>

\* social_pending_created, and one of _resolved, _expired, _interrupted.
Kinds       == {"created", "settled"}
Statuses    == {"NONE", "CLEAR", "CONTESTED", "INACTIVE"}
Bid         == [partner : Partners, age : Nat]
Relations   == {"support", "contradict"}
Link        == [partner : Partners, bid : Bids, relation : Relations]
Cell        == [support : Nat, contradict : Nat]

\* The engine of an organism that knows all the partners it can keep and has
\* had one bid interrupted.
Acquainted ==
    [hypotheses |-> [h \in Partners |-> IF h <= MaxHypotheses THEN "CLEAR" ELSE "NONE"],
     pending |-> <<>>, settled |-> {1},
     cells |-> [h \in Partners |-> [support |-> 0, contradict |-> 0]],
     nextPartner |-> MaxHypotheses + 1, nextBid |-> 2, missed |-> 0]

Current == [hypotheses |-> hypotheses, pending |-> pending, settled |-> settled, cells |-> cells,
            nextPartner |-> nextPartner, nextBid |-> nextBid, missed |-> missed]

Restored(state) ==
    /\ hypotheses' = state.hypotheses
    /\ pending' = state.pending
    /\ settled' = state.settled
    /\ cells' = state.cells
    /\ nextPartner' = state.nextPartner
    /\ nextBid' = state.nextBid
    /\ missed' = state.missed

Open       == DOMAIN pending
In(hyps, status) == {h \in Partners : hyps[h] = status}
Active     == In(hypotheses, "CLEAR") \cup In(hypotheses, "CONTESTED")
Reachable  == Active \cup In(hypotheses, "INACTIVE")

Init ==
    /\ history = [b \in Bids |-> IF b = 1 THEN <<"created", "settled">> ELSE <<>>]
    /\ links = {}
    /\ snap = Acquainted
    /\ hypotheses = Acquainted.hypotheses
    /\ pending = Acquainted.pending /\ settled = Acquainted.settled
    /\ cells = Acquainted.cells
    /\ nextPartner = Acquainted.nextPartner /\ nextBid = Acquainted.nextBid
    /\ missed = 0
    /\ begin = [b \in Bids |-> 0]
    /\ loads = 0

-----------------------------------------------------------------------------
(* Recognition *)

\* What the matcher makes of this tick's cue: nothing that changes a status,
\* no hypothesis close enough, a contested one clear again, or two too close
\* to tell apart.
Cues ==
    {[kind |-> "none"], [kind |-> "new"]}
    \cup {[kind |-> "seen", who |-> {h}] : h \in Partners}
    \cup {[kind |-> "torn", who |-> w] : w \in {v \in SUBSET Partners : Cardinality(v) = 2}}

Possible(cue) ==
    CASE cue.kind = "none" -> TRUE
      [] cue.kind = "new"  -> nextPartner <= MaxPartners
      [] cue.kind = "seen" -> cue.who \subseteq In(hypotheses, "CONTESTED")
      [] cue.kind = "torn" -> cue.who \subseteq Active /\ cue.who \cap In(hypotheses, "CLEAR") # {}

\* _prune_hypotheses: a hypothesis too many goes to the archive, the least
\* familiar one, which may well be the newcomer.
Retired(hyps) ==
    LET active == In(hyps, "CLEAR") \cup In(hyps, "CONTESTED")
    IN  IF Cardinality(active) <= MaxHypotheses THEN {hyps}
        ELSE {[hyps EXCEPT ![h] = "INACTIVE"] : h \in active}

\* Outcomes of recognize for one cue.
Recognised(cue) ==
    CASE cue.kind = "none" -> {hypotheses}
      [] cue.kind = "new"  ->
            Retired([hypotheses EXCEPT ![nextPartner] = "CLEAR"])
      [] cue.kind = "seen" ->
            {[h \in Partners |-> IF h \in cue.who THEN "CLEAR" ELSE hypotheses[h]]}
      [] cue.kind = "torn" ->
            {[h \in Partners |-> IF h \in cue.who THEN "CONTESTED" ELSE hypotheses[h]]}

\* Open bids whose hypothesis has just become contested.
Interrupted(hyps) ==
    {b \in Open : LET h == pending[b].partner
                  IN  /\ hyps[h] = "CONTESTED"
                      /\ hypotheses[h] # "CONTESTED"}

-----------------------------------------------------------------------------
(* Ticks *)

\* Mutant: only the bids of active hypotheses are looked at.
ElapsedActive(waiting, n) ==
    {b \in waiting : pending[b].age + n > Timeout /\ pending[b].partner \in Active}

\* resume_pending, n later: the bids whose window is over.
Elapsed(waiting, n) == {b \in waiting : pending[b].age + n > Timeout}

\* The bids that stay open get older.
Aged(closed, n) == [b \in Open \ closed |-> [pending[b] EXCEPT !.age = @ + n]]

\* Mutant: a bid that is interrupted changes its status and nothing else.
ReportedExpired(interrupted, expired) ==
    [b \in Bids |-> IF b \in expired THEN Append(history[b], "settled") ELSE history[b]]

\* Mutant: resume_pending goes by the statuses from before recognize.
ReportedTwice(interrupted, expired) ==
    [b \in Bids |->
        CASE b \in Elapsed(interrupted, 1) -> history[b] \o <<"settled", "settled">>
          [] b \in interrupted \ Elapsed(interrupted, 1) -> Append(history[b], "settled")
          [] b \in expired -> Append(history[b], "settled")
          [] OTHER -> history[b]]

\* interrupt_pending and resume_pending write the event, then close the bid.
Reported(interrupted, expired) ==
    [b \in Bids |-> IF b \in interrupted \cup expired THEN Append(history[b], "settled")
                    ELSE history[b]]

\* The social part of tick_once: recognize, then resume_pending, n later than the
\* last tick.  The age a tick has is kept only when it ends well: n is 0 after one that
\* raised.
Tick(cue, n) ==
    /\ Possible(cue)
    /\ \E hyps \in Recognised(cue) :
        LET interrupted == Interrupted(hyps)
            expired     == Elapsed(Open \ interrupted, n)
        IN  /\ hypotheses' = hyps
            /\ pending' = Aged(interrupted \cup expired, n)
            /\ settled' = settled \cup interrupted \cup expired
            /\ history' = Reported(interrupted, expired)
    /\ nextPartner' = IF cue.kind = "new" THEN nextPartner + 1 ELSE nextPartner
    /\ missed' = 0
    /\ UNCHANGED <<links, snap, cells, nextBid, begin, loads>>

\* The organism gets older by n, and nobody looks at the bids.
Unseen(n) ==
    /\ missed + n <= MaxMissed
    /\ pending' = Aged({}, n)
    /\ missed' = missed + n
    /\ UNCHANGED <<durable, hypotheses, settled, cells, nextPartner, nextBid, begin, loads>>

\* A tick with an external displacement returns before recognition.
DisplacedTick == Unseen(1)

\* apply_downtime_reconciliation advances the age by the ticks of the gap.
Downtime(n) == Unseen(n)

-----------------------------------------------------------------------------
(* Bids *)

\* _ensure_pending_capacity: the oldest settled bids make room.
Kept ==
    LET excess == Cardinality(Open) + Cardinality(settled) + 1 - MaxOpen
    IN  {b \in settled : Cardinality({c \in settled : c < b}) >= excess}

\* propose, in a tick that has looked at the bids, offers a signal to an active
\* partner nobody contests, and only while no bid to that partner is open.
Proposed(h) ==
    /\ missed = 0
    /\ hypotheses[h] = "CLEAR"
    /\ \A b \in Open : pending[b].partner # h

Opened(h) == [b \in Open \cup {nextBid} |->
                 IF b = nextBid THEN [partner |-> h, age |-> 0] ELSE pending[b]]

\* create_pending: the event first, then the bid in memory.
Signal(h) ==
    /\ nextBid \in Bids
    /\ Proposed(h)
    /\ Cardinality(Open) < MaxOpen
    /\ history' = [history EXCEPT ![nextBid] = Append(@, "created")]
    /\ pending' = Opened(h)
    /\ settled' = Kept
    /\ nextBid' = nextBid + 1
    /\ UNCHANGED <<links, snap, hypotheses, cells, nextPartner, missed, begin, loads>>

\* create_pending with every place taken by an open bid: it raises, and the
\* settled ones are gone.
SignalRefused(h) ==
    /\ Proposed(h)
    /\ Cardinality(Open) >= MaxOpen
    /\ settled' = {}
    /\ UNCHANGED <<durable, hypotheses, pending, cells, nextPartner, nextBid, missed, begin,
                   loads>>

\* Mutant: the bid is in memory before its event is written.
SignalFailsLate(h) ==
    /\ nextBid \in Bids
    /\ Proposed(h)
    /\ Cardinality(Open) < MaxOpen
    /\ pending' = Opened(h)
    /\ settled' = Kept
    /\ nextBid' = nextBid + 1
    /\ UNCHANGED <<durable, hypotheses, cells, nextPartner, missed, begin, loads>>

\* create_pending whose event could not be written.
SignalFails(h) ==
    /\ nextBid \in Bids
    /\ Proposed(h)
    /\ Cardinality(Open) < MaxOpen
    /\ settled' = Kept
    /\ nextBid' = nextBid + 1
    /\ UNCHANGED <<durable, hypotheses, pending, cells, nextPartner, missed, begin, loads>>

\* Mutant: another bid overlaps only when it is for the same partner.
OverlappedBySame(b) ==
    \E c \in Open \ {b} : pending[c].age \in 1..Timeout /\ pending[c].partner = pending[b].partner

\* _has_inseparable_overlap: another open bid, for whichever partner.
Overlapped(b) == \E c \in Open \ {b} : pending[c].age \in 1..Timeout

\* classify_response, down to what it makes of the evidence.  The caller says
\* whether a response was seen, now, and whether it had an external cause.  One that
\* comes past the window is none.
Classified(b, responded, external) ==
    LET attributable == /\ ~external
                        /\ hypotheses[pending[b].partner] # "CONTESTED"
                        /\ ~Overlapped(b)
    IN  CASE attributable /\ responded /\ pending[b].age \in 1..Delayed -> "support"
          [] attributable /\ (responded => pending[b].age > Timeout) -> "contradict"
          [] OTHER -> "none"

\* Mutant: a delayed response counts, and leaves no link.
LinkedWhenPrompt(b, relation) ==
    IF relation = "none" \/ pending[b].age = Delayed THEN {}
    ELSE {[partner |-> pending[b].partner, bid |-> b, relation |-> relation]}

Linked(b, relation) ==
    IF relation = "none" THEN {}
    ELSE {[partner |-> pending[b].partner, bid |-> b, relation |-> relation]}

\* observe_outcome and resolve_pending: link and events are one transaction,
\* the memory follows its COMMIT.  A link that is there already breaks the
\* UNIQUE constraint, and the whole outcome is rolled back.
Observe(b, responded, external) ==
    /\ b \in Open
    /\ pending[b].partner \in Reachable
    /\ LET relation == Classified(b, responded, external)
       IN  /\ Linked(b, relation) \cap links = {}
           /\ links' = links \cup Linked(b, relation)
           /\ cells' = IF relation = "none" THEN cells
                       ELSE [cells EXCEPT ![pending[b].partner][relation] = @ + 1]
    /\ history' = [history EXCEPT ![b] = Append(@, "settled")]
    /\ pending' = [c \in Open \ {b} |-> pending[c]]
    /\ settled' = settled \cup {b}
    /\ UNCHANGED <<snap, hypotheses, nextPartner, nextBid, missed, begin, loads>>

-----------------------------------------------------------------------------
(* Snapshots and restarts *)

\* A snapshot the remaining restarts may read.
Save ==
    /\ loads < MaxLoads
    /\ snap' = Current
    /\ UNCHANGED <<history, links, memory, begin, loads>>

\* A crash or a close, and load_organism: from_state of the snapshot.  The
\* ledger is not asked.
Restart ==
    /\ loads < MaxLoads
    /\ Restored(snap)
    /\ begin' = [b \in Bids |-> Len(history[b])]
    /\ loads' = loads + 1
    /\ UNCHANGED durable

Next ==
    \/ \E cue \in Cues, n \in {0, 1} : Tick(cue, n)
    \/ DisplacedTick \/ \E n \in 1..MaxMissed : Downtime(n)
    \/ \E h \in Partners : Signal(h) \/ SignalRefused(h) \/ SignalFails(h)
    \/ \E b \in Open, responded, external \in BOOLEAN : Observe(b, responded, external)
    \/ Save
    \/ Restart

Spec == Init /\ [][Next]_vars

\* What the future depends on: a snapshot no restart will read makes no
\* difference.
View == <<history, links, IF loads < MaxLoads THEN snap ELSE Acquainted, memory, begin, loads>>

-----------------------------------------------------------------------------
(* Properties *)

\* Type invariant, with the bound max_pending_interactions.
TypeOK ==
    /\ history \in [Bids -> Seq(Kinds)]
    /\ links \subseteq Link
    /\ snap.hypotheses \in [Partners -> Statuses]
    /\ DOMAIN snap.pending \subseteq Bids /\ snap.settled \subseteq Bids
    /\ \A b \in DOMAIN snap.pending : snap.pending[b] \in Bid
    /\ snap.cells \in [Partners -> Cell]
    /\ snap.nextPartner \in 1..MaxPartners + 1 /\ snap.nextBid \in 1..MaxBids + 1
    /\ hypotheses \in [Partners -> Statuses]
    /\ DOMAIN pending \subseteq Bids /\ settled \subseteq Bids
    /\ \A b \in DOMAIN pending : pending[b] \in Bid
    /\ cells \in [Partners -> Cell]
    /\ nextPartner \in 1..MaxPartners + 1 /\ nextBid \in 1..MaxBids + 1
    /\ Open \cap settled = {} /\ Cardinality(Open) + Cardinality(settled) <= MaxOpen
    /\ missed \in 0..MaxMissed /\ snap.missed \in 0..MaxMissed
    /\ begin \in [Bids -> Nat] /\ loads \in 0..MaxLoads

\* A bid the engine waits for has its social_pending_created in the ledger,
\* also when writing an event failed, and after any restart.
OpenBidsRecorded == \A b \in Open : \E i \in 1..Len(history[b]) : history[b][i] = "created"

\* What reconstruct_pending would make of the events of this session is what
\* the engine waits for: no bid is settled in memory or in the ledger alone.
SessionAgrees ==
    \A b \in Bids : Len(history[b]) > begin[b]
            => (b \in Open <=> history[b][Len(history[b])] = "created")

\* Memory and ledger agree on what is waited for: an open bid is in the ledger
\* since some session, and what this session recorded is what memory holds, when
\* writing an event failed as well.
MemoryMatchesLedger == OpenBidsRecorded /\ SessionAgrees

\* Within a session an answer, contested recognition and the timeout settle a
\* bid once between them.
SettledOncePerSession ==
    \A b \in Bids : \A i \in begin[b] + 2..Len(history[b]) :
            history[b][i] = "settled" => history[b][i - 1] = "created"

\* No cell counts evidence that the link table does not hold, whatever was
\* rewound: "no contingency update without its episode".
EvidenceBacked ==
    \A h \in Partners : \A r \in Relations :
        cells[h][r] <= Cardinality({l \in links : l.partner = h /\ l.relation = r})

\* Nothing is waited for from a contested partner: its bids ended with the
\* cue that contested it, and no bid to it is opened.
NoBidToContested == \A b \in Open : hypotheses[pending[b].partner] # "CONTESTED"

\* A bid supports its partner only when no other open bid, to whichever partner,
\* was in its window and could have drawn the response.
SupportIsCausal ==
    [][\A l \in links' \ links : l.relation = "support" =>
            /\ \A b \in Open \ {l.bid} : pending[b].age = 0 \/ pending[b].age > Timeout
            /\ pending[l.bid].age \in 1..Delayed]_vars

\* A bid outlives its window by no more than the age that displacements and downtime
\* have added since the engine last looked, whatever has become of its partner:
\* retired, contested, or reloaded from a snapshot.
SettledInTime == \A b \in Open : pending[b].age <= Timeout + missed

\* "Never silently drops; never double-settles."
NeverDoubleSettles ==
    \A b \in Bids : \A i \in 2..Len(history[b]) :
        history[b][i] = "settled" => history[b][i - 1] = "created"

=============================================================================
