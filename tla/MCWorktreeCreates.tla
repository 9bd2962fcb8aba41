------------------------- MODULE MCWorktreeCreates -------------------------
(* Small instances of WorktreeCreates.                                     *)
EXTENDS WorktreeCreates, TLC

AgentsAlike == Permutations(Agent)

\* "Each completed entry of the session is superseded" (invalidateSession):
\* SupersededIsNotOffered without its exemption.  WC_race.cfg finds it
\* violated: the answer of a create and that of a later choice come in one
\* read, and the invalidation precedes the create's continuation.
NeverOfferedAfterChoice ==
    \A i \in Create : entry[i].status = "completed" =>
        \A n \in Stored : ~EndedAfter(n, i)
=============================================================================
