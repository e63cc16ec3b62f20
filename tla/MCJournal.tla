------------------------------ MODULE MCJournal ------------------------------
(***************************************************************************)
(* Small instances of ExecutionJournal.  Execution take (PICK_UP) has an   *)
(* effect of its own; eat and bite (USE of a resource) have the same one,  *)
(* which yields energy and, where Lossy says so, also sets a cooldown.     *)
(* Lossy effects only make rehydration and restores refuse, so that the    *)
(* run without them has all the behaviours there are.                      *)
(***************************************************************************)
EXTENDS ExecutionJournal

MCExecutions == {"take", "eat", "bite"}
MCEffects    == {"taken", "eaten"}
MCEffectOf   == [e \in MCExecutions |-> IF e = "take" THEN "taken" ELSE "eaten"]
MCEaten      == {"eaten"}
MCTick       == {"tick"}
MCBoth       == {"api", "tick"}
MCNone       == {}
=============================================================================
