------------------------------ MODULE MCRoute -------------------------------
(* Small instances of Route: the capabilities that end a route at a kind. *)
EXTENDS Route, TLC

MCTerminals == "resource" :> "CHARGE"
MCTwoTerminals == "resource" :> "CHARGE" @@ "rest" :> "REST"

\* A snapshot that no restart will read is not distinguished.
View == <<tick, acting, entity, body, delay, delayed, episode, experiences, log, issued,
          changes, restarts, IF restarts < MaxRestarts THEN saved ELSE <<>> >>
=============================================================================
