--------------------------- MODULE MCBoxAdmission ---------------------------
(* Small instances of BoxAdmission: two processes, one with two sessions,  *)
(* or three with one session each.                                         *)
EXTENDS BoxAdmission, TLC

CONSTANTS p, q, d, s1, s2, s3, prov

\* s2 and s3 are of one provider, in a process each; s1 is of a provider
\* that nobody else uses, whose root is left out.
Homes == [s \in Session |-> IF s = s3 THEN d ELSE p]
Shared == [s \in Session |-> IF s = s1 THEN <<>> ELSE <<prov>>]
OneSlot == [r \in Quotas |-> 1]
Light == [s \in Session |-> 1]
Heavy == [s \in Session |-> IF s = s2 THEN 2 ELSE 1]
BoxByP == {<<p, Box>>}

\* Three sessions of a provider with two slots.
ThreeHomes == [s \in Session |-> CASE s = s1 -> p [] s = s2 -> q [] s = s3 -> d]
AllNeed == [s \in Session |-> <<prov>>]
TwoSlots == [r \in Quotas |-> 2]
=============================================================================
