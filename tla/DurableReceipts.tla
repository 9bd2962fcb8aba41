--------------------------- MODULE DurableReceipts ---------------------------
(***************************************************************************)
(* What the control plane and the runner share about a durable command:    *)
(* its identity, the states a receipt can carry, their order, and the      *)
(* clock both sides compare expiresAt with.                                *)
(***************************************************************************)
EXTENDS Naturals

CONSTANTS
    Command,    \* durable command identities
    MaxTime     \* bound of the clock

VARIABLE
    now         \* Date.now(), in ticks of the shortest horizon that matters

(* How a failed receipt may be followed up: "retryable" stands for the two *)
(* codes the outbox will retry (PROVIDER_AUTHENTICATION_REQUIRED and       *)
(* WORKTREE_RECOVERY_REQUIRED), "other" for every other code.              *)
Codes == {"none", "retryable", "other"}

Terminal == {"completed", "failed", "uncertain"}

RunnerStates == {"accepted", "queued", "started"} \cup Terminal

OutboxActive == {"pending", "sent", "accepted", "queued", "started"}

Rank == [ pending |-> 0, sent |-> 1, accepted |-> 2, queued |-> 3,
          started |-> 4, completed |-> 5, failed |-> 5, uncertain |-> 5 ]

\* A receipt as the runner puts it on the wire.  userEvent says whether the
\* frame names the transcript event that opened the turn: an update does when
\* the record has one, a result (the direct answer to one attempt) never does.
Receipt == [ c : Command, state : RunnerStates, revision : Nat,
             code : Codes, userEvent : BOOLEAN ]

Tick == now < MaxTime /\ now' = now + 1
=============================================================================
