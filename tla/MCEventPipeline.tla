-------------------------- MODULE MCEventPipeline --------------------------
(* Small instances of EventPipeline for TLC. *)
EXTENDS EventPipeline, TLC

CONSTANTS e1, e2, t1, t2, i1, i2

AllMatch == [e \in Events |-> Triggers]

NoMatch == [e \in Events |-> {}]

ActionFaults == {"queue", "crash", "step", "effect", "trigger", "tenant"}

EventFaults == {"queue", "crash", "step", "expiry", "tenant"}

Symmetry == Permutations(Triggers) \cup Permutations(Instances)
=============================================================================
