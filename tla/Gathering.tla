----------------------------- MODULE Gathering ------------------------------
(***************************************************************************)
(* What the planner's tool loop promises the evidence it fills: asks are   *)
(* consulted for one at a time, and each consultation adds a result, adds  *)
(* failures, or adds nothing.  Nothing gathered is lost again, and an ask  *)
(* nobody was consulted for has neither.  This is the step TextTurn takes  *)
(* as ConsultProvider; Planner is shown to implement it.                   *)
(***************************************************************************)
CONSTANT Asks

VARIABLES
  consulted,   \* asks some provider was called for
  results,     \* asks with an answer
  failed       \* asks with a recorded failure

gvars == <<consulted, results, failed>>

GInit == consulted = {} /\ results = {} /\ failed = {}

Consult(a) ==
  /\ consulted' = consulted \cup {a}
  /\ \/ results' = results \cup {a} /\ UNCHANGED failed
     \/ failed' = failed \cup {a} /\ UNCHANGED results
     \/ UNCHANGED <<results, failed>>

GNext == \E a \in Asks : Consult(a)

GSpec == GInit /\ [][GNext]_gvars
=============================================================================
