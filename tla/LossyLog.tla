------------------------------ MODULE LossyLog ------------------------------
(***************************************************************************)
(* What an asynchronous event log promises: events are numbered in the     *)
(* order they are written; some are lost; those that are logged are logged *)
(* in that order, each once, and the log is never rewritten.               *)
(***************************************************************************)
EXTENDS Integers, Sequences

VARIABLES written,   \* events written so far
          pending,   \* those whose fate is open
          log

logVars == <<written, pending, log>>

Init == written = 0 /\ pending = {} /\ log = <<>>

Write ==
    /\ written' = written + 1
    /\ pending' \in {pending, pending \cup {written'}}
    /\ UNCHANGED log

Lose ==
    /\ pending' \subseteq pending
    /\ UNCHANGED <<written, log>>

LogNext ==
    /\ \E e \in pending :
          /\ \A p \in pending : e <= p
          /\ log' = Append(log, e)
          /\ pending' = pending \ {e}
    /\ UNCHANGED written

Next == Write \/ Lose \/ LogNext

Spec == Init /\ [][Next]_logVars
=============================================================================
