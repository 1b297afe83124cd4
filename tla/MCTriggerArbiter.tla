-------------------------- MODULE MCTriggerArbiter --------------------------
(* Instance of TriggerArbiter for TLC.                                     *)
EXTENDS TriggerArbiter

CONSTANTS v1, v2, a1, a2

\* The second visual event is the best, and ties with the second audio event.
MCConfidence == [e \in {v1, v2, a1, a2} |->
                   CASE e = v1 -> 1 [] e = a1 -> 2 [] e \in {v2, a2} -> 3]
============================================================================
