---------------------------- MODULE LedgerConfig ----------------------------
(***************************************************************************)
(* The configuration that the tables of the ledger (Ledger) and the counts *)
(* of its tail (HotTail) share: how long the hot tail may get, and the     *)
(* room that one tick takes of it.                                         *)
(***************************************************************************)
EXTENDS Naturals

CONSTANTS
    HotTailMax,     \* config.ledger_hot_tail_event_max
    PerTick         \* config.ledger_max_events_per_tick

ASSUME ConfigAssumption ==
    HotTailMax \in Nat /\ PerTick \in Nat /\ PerTick <= HotTailMax
=============================================================================
