---------------------------- MODULE MCReconcile ----------------------------
EXTENDS Reconcile

(* Whoever grows clears the names it needs; the others stop at a conflict. *)
MCModes == [d \in Deployments |-> IF d \in Growing THEN {"clean", "adopt"} ELSE {"abort"}]
=============================================================================
