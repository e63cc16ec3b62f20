------------------------------- MODULE MCWait -------------------------------
(* Small instances of Wait: a short and a long window that overlap. *)
EXTENDS Wait

MCWindows == {[from |-> 0, until |-> 1], [from |-> 1, until |-> 4]}
=============================================================================
