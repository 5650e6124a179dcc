--------------------------- MODULE EventDelivery ---------------------------
(***************************************************************************)
(* What the event registry promises to a plugin that emits an event: the   *)
(* automation triggers are evaluated for it at least once before it counts *)
(* as processed, it never reopens, and it is dropped only after its seven  *)
(* days or with its tenant.  EventPipeline implements this.                *)
(***************************************************************************)
EXTENDS Naturals

CONSTANT Events

VARIABLES phase, fired, lapsed, closed

vars == <<phase, fired, lapsed, closed>>

Phases == {"new", "open", "done", "dropped"}

TypeOK == /\ phase \in [Events -> Phases]
          /\ fired \in [Events -> Nat]
          /\ lapsed \subseteq Events
          /\ closed \in BOOLEAN

Init == /\ phase = [e \in Events |-> "new"]
        /\ fired = [e \in Events |-> 0]
        /\ lapsed = {}
        /\ closed = FALSE

Emit(e) == /\ phase[e] = "new"
           /\ ~closed
           /\ phase' = [phase EXCEPT ![e] = "open"]
           /\ UNCHANGED <<fired, lapsed, closed>>

(* The triggers are evaluated, perhaps again, perhaps after the event is
   gone. *)
Fire(e) == /\ phase[e] # "new"
           /\ fired' = [fired EXCEPT ![e] = @ + 1]
           /\ UNCHANGED <<phase, lapsed, closed>>

Settle(e) == /\ phase[e] = "open"
             /\ fired[e] > 0
             /\ phase' = [phase EXCEPT ![e] = "done"]
             /\ UNCHANGED <<fired, lapsed, closed>>

Lapse(e) == /\ phase[e] # "new"
            /\ lapsed' = lapsed \cup {e}
            /\ UNCHANGED <<phase, fired, closed>>

Drop(S) == /\ S \subseteq lapsed
           /\ phase' = [e \in Events |-> IF e \in S THEN "dropped" ELSE phase[e]]
           /\ UNCHANGED <<fired, lapsed, closed>>

(* The tenant is deleted with everything it has. *)
Close == /\ closed' = TRUE
         /\ phase' = [e \in Events |->
                        IF phase[e] = "new" THEN "new" ELSE "dropped"]
         /\ UNCHANGED <<fired, lapsed>>

Next == \/ \E e \in Events : Emit(e) \/ Fire(e) \/ Settle(e) \/ Lapse(e)
        \/ \E S \in SUBSET Events : Drop(S)
        \/ Close

(* Every open event is settled or dropped. *)
Ends == \A e \in Events : phase[e] = "open" ~> phase[e] \in {"done", "dropped"}

SafeSpec == Init /\ [][Next]_vars

Spec == SafeSpec /\ Ends
=============================================================================
