-------------------------- MODULE MCDurableDelivery --------------------------
(* Small instances of DurableDelivery. *)
EXTENDS DurableDelivery, TLC

MCCommand == Incident \X (0..MaxRetry)

Symmetry == Permutations(Proc) \cup Permutations(Incident)
=============================================================================
