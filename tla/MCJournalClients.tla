--------------------------- MODULE MCJournalClients ---------------------------
(* Small instances of JournalClients. *)
EXTENDS JournalClients, TLC

MCDeadline == [c \in Command |-> IF c \in Steerable THEN 2 ELSE 1]

Symmetry == Permutations(Proc)
=============================================================================
