-------------------------- MODULE StreamedHistory --------------------------
(* What a reader of a session's history is promised of streamed output:    *)
(* what the provider and the session produce is recorded in the order it   *)
(* was produced, nothing twice and nothing left out, and all of it in the  *)
(* end.  Recording may lag behind and may take several pieces at once.     *)
EXTENDS Sequences, SequencesExt

CONSTANT Piece

VARIABLES produced, recorded

vars == <<produced, recorded>>

Init == produced = <<>> /\ recorded = <<>>

Produce ==
    /\ \E p \in Piece : produced' = Append(produced, p)
    /\ IsPrefix(recorded, recorded') /\ IsPrefix(recorded', produced')

Record ==
    /\ IsStrictPrefix(recorded, recorded') /\ IsPrefix(recorded', produced)
    /\ UNCHANGED produced

Next == Produce \/ Record

\* A lag is always made good.
Spec == Init /\ [][Next]_vars /\ []<>(recorded = produced)
=============================================================================
