---------------------------- MODULE TriggerDedup ----------------------------
(***************************************************************************)
(* What TriggerArbiter promises to whoever receives its events: each event *)
(* is emitted at most once, and after an emission nothing is emitted for   *)
(* Window time units, except an event that may preempt the cooldown.  The  *)
(* cooldown counts from the moment the last emission was due, which is     *)
(* when it happened unless a timer thread was late.                        *)
(***************************************************************************)
EXTENDS Naturals

CONSTANTS Event, Window

VARIABLES clock, preempting, lastDue, emitted
vars == <<clock, preempting, lastDue, emitted>>

Init == clock \in Nat /\ preempting \subseteq Event /\ lastDue = 0 /\ emitted = {}

Tick == clock' = clock + 1 /\ UNCHANGED <<preempting, lastDue, emitted>>

Emission(e) ==
  /\ e \notin emitted
  /\ clock >= lastDue + Window \/ e \in preempting
  /\ emitted' = emitted \cup {e}
  /\ lastDue' \in lastDue .. clock
  /\ UNCHANGED <<clock, preempting>>

Next == Tick \/ \E e \in Event : Emission(e)

Spec == Init /\ [][Next]_vars
============================================================================
