---------------------------- MODULE PromptOutbox ----------------------------
(***************************************************************************)
(* The control plane's durable prompt outbox for one session               *)
(* (SessionPromptOutbox over the session_prompt_commands table).  Each     *)
(* operation is one SQLite transaction, so one step.                       *)
(*                                                                         *)
(* A prompt (an incident) and its explicit retries form a chain of         *)
(* commands <<i, 0>>, <<i, 1>>, ...: the base identity and its ".retry-n". *)
(***************************************************************************)
EXTENDS DurableReceipts, FiniteSets

CONSTANTS
    Incident,    \* prompts a user submits
    MaxRetry,    \* bound of the explicit retries of one prompt
    Horizon,     \* RECEIPT_HORIZON_MS, in ticks
    Retention    \* SESSION_PROMPT_TERMINAL_RETENTION_MS, in ticks

VARIABLES
    rows,        \* the table
    deadline,    \* expires_at as staged: what every attempt carries
    stopped      \* the session has been stopped

outboxVars == <<rows, deadline, stopped>>

ASSUME OutboxAssumption ==
    /\ MaxRetry \in Nat /\ Horizon \in Nat \ {0} /\ Retention \in Nat \ {0}
    /\ IsFiniteSet(Incident)
    /\ Command = Incident \X (0..MaxRetry)

\* "absent": never staged.  "pruned": the row was deleted; a prompt's id is
\* random and a retry's id needs its predecessor, so it is not used again.
RowStates == OutboxActive \cup Terminal \cup {"absent", "pruned"}

Row == [ state : RowStates, revision : Nat, code : Codes,
         userEvent : BOOLEAN, dismissed : BOOLEAN, expiresAt : Nat ]

EmptyRow(state) == [ state |-> state, revision |-> 0, code |-> "none",
                     userEvent |-> FALSE, dismissed |-> FALSE,
                     expiresAt |-> 0 ]

OutboxInit ==
    /\ rows = [c \in Command |-> EmptyRow("absent")]
    /\ deadline = [c \in Command |-> 0]
    /\ stopped = FALSE

HasRow(c) == rows[c].state \in OutboxActive \cup Terminal
Active(c) == rows[c].state \in OutboxActive

\* A faulty variant: a state the table does not have.
EndedState_Cancelled(row) ==
    IF row.state = "pending" THEN "cancelled" ELSE "uncertain"

\* What the control plane knows when it ends a command on its own: only a
\* row that was never marked sent is known to be undelivered.
EndedState(row) == IF row.state = "pending" THEN "failed" ELSE "uncertain"

\* A local end (stop, cancel, expiry) of an active row.
Ended(row, code) ==
    [ state |-> EndedState(row), revision |-> row.revision + 1,
      code |-> code, userEvent |-> row.userEvent,
      dismissed |-> row.dismissed, expiresAt |-> now + Retention ]

\* A dismissal leaves the payload to the retention sweep, soon.
Dismissed(row) ==
    [ state |-> row.state, revision |-> row.revision, code |-> row.code,
      userEvent |-> row.userEvent, dismissed |-> TRUE,
      expiresAt |-> IF row.expiresAt < now + Retention
                    THEN row.expiresAt ELSE now + Retention ]

-----------------------------------------------------------------------------
(* Staging.                                                                *)
Staged == [ state |-> "pending", revision |-> 0, code |-> "none",
            userEvent |-> FALSE, dismissed |-> FALSE,
            expiresAt |-> now + Horizon ]

StagePrompt(i) ==
    LET c == <<i, 0>> IN
    /\ ~stopped
    /\ rows[c].state = "absent"
    /\ rows' = [rows EXCEPT ![c] = Staged]
    /\ deadline' = [deadline EXCEPT ![c] = now + Horizon]
    /\ UNCHANGED stopped

\* A faulty variant: any failed attempt may be retried.
Retryable_AnyFailure(c) ==
    rows[c].state = "failed" /\ ~rows[c].userEvent /\ ~rows[c].dismissed

\* retryableKnownUndeliveredPrompt: the row's own evidence that the message
\* was not sent, with its payload still there.
Retryable(c) ==
    /\ rows[c].state = "failed"
    /\ rows[c].code = "retryable"
    /\ ~rows[c].userEvent
    /\ ~rows[c].dismissed

Chain(i) == {n \in 0..MaxRetry : HasRow(<<i, n>>)}

IsLatest(c) == \A n \in Chain(c[1]) : n <= c[2]

\* retryKnownUndeliveredFailure: a fresh attempt and the dismissal of its
\* predecessor, in one transaction.  Because every retry dismisses the one
\* before it, the row being retried is always the latest of its chain.
RetryUndelivered(c) ==
    /\ ~stopped
    /\ Retryable(c)
    /\ IsLatest(c)
    /\ c[2] < MaxRetry
    /\ LET retry == <<c[1], c[2] + 1>> IN
       /\ rows' = [rows EXCEPT ![retry] = Staged, ![c] = Dismissed(@)]
       /\ deadline' = [deadline EXCEPT ![retry] = now + Horizon]
    /\ UNCHANGED stopped

-----------------------------------------------------------------------------
(* Delivery.                                                               *)
\* dueSessionPromptCommands; the backoff only delays a row.
Due(c) == Active(c) /\ rows[c].expiresAt > now /\ ~stopped

\* A faulty variant: the frame is written and the row is marked later.
MarkSent_Late(c) == Due(c) /\ UNCHANGED outboxVars

\* Marked before the frame is written.
MarkSent(c) ==
    /\ Due(c)
    /\ rows' = [rows EXCEPT ![c].state =
                   IF rows[c].state = "pending" THEN "sent" ELSE @]
    /\ UNCHANGED <<deadline, stopped>>

\* recordSessionPromptCommandReceipt.
Refines(row, m) ==
    /\ row.state = "uncertain"
    /\ m.state \in {"completed", "failed"}
    /\ m.revision >= row.revision

\* A faulty variant: only the state's rank orders receipts.
Ignores_RankOnly(row, m) ==
    row.state \in {"absent", "pruned"} \/ Rank[m.state] < Rank[row.state]

Ignores(row, m) ==
    \/ row.state \in {"absent", "pruned"}
    \/ row.state \in Terminal /\ ~Refines(row, m)
    \/ m.revision < row.revision
    \/ m.revision = row.revision /\ m.state = row.state
    \/ /\ m.state \notin Terminal
       /\ m.revision = row.revision \/ Rank[m.state] < Rank[row.state]

RetentionOf(row, m) ==
    IF m.state \notin Terminal THEN row.expiresAt
    ELSE IF Refines(row, m) /\ row.expiresAt < now + Retention
         THEN row.expiresAt ELSE now + Retention

Applied(row, m) ==
    IF Ignores(row, m) THEN row
    ELSE [ state |-> m.state, revision |-> m.revision, code |-> m.code,
           userEvent |-> row.userEvent \/ m.userEvent,
           dismissed |-> row.dismissed, expiresAt |-> RetentionOf(row, m) ]

RecordReceipt(m) ==
    /\ rows' = [rows EXCEPT ![m.c] = Applied(@, m)]
    /\ UNCHANGED <<deadline, stopped>>

\* flush() refuses a due row for a retired driver or a runner that no
\* longer advertises the capability: a receipt the outbox writes to itself.
RefuseDue(c) ==
    /\ Due(c)
    /\ RecordReceipt([ c |-> c, state |-> EndedState(rows[c]),
                       revision |-> rows[c].revision + 1,
                       code |-> "none", userEvent |-> FALSE ])

-----------------------------------------------------------------------------
(* Ends the control plane decides itself.                                  *)
Maintained(row) ==
    IF row.expiresAt > now THEN row
    ELSE IF row.state \in OutboxActive THEN Ended(row, row.code)
    ELSE IF row.state \in Terminal THEN EmptyRow("pruned")
    ELSE row

\* maintain(): the expiry sweep, then the retention sweep.
Maintain ==
    /\ rows' = [c \in Command |-> Maintained(rows[c])]
    /\ UNCHANGED <<deadline, stopped>>

\* A faulty variant: a stop ends uncertain rows once more.
StopRows_Again ==
    /\ rows' = [c \in Command |->
                  IF Active(c) \/ rows[c].state = "uncertain"
                  THEN Ended(rows[c], "other") ELSE rows[c]]
    /\ stopped' = TRUE
    /\ UNCHANGED deadline

\* cancelSessionPromptCommands, under the session's stop.
StopRows ==
    /\ rows' = [c \in Command |->
                  IF Active(c) THEN Ended(rows[c], "other") ELSE rows[c]]
    /\ stopped' = TRUE
    /\ UNCHANGED deadline

CancelPending(c) ==
    /\ rows[c].state = "pending"
    /\ rows' = [rows EXCEPT ![c] = Ended(@, "other")]
    /\ UNCHANGED <<deadline, stopped>>

DismissTerminal(c) ==
    /\ rows[c].state \in {"failed", "uncertain"}
    /\ ~rows[c].dismissed
    /\ rows' = [rows EXCEPT ![c] = Dismissed(@)]
    /\ UNCHANGED <<deadline, stopped>>

OutboxTypeOK ==
    /\ rows \in [Command -> Row]
    /\ deadline \in [Command -> Nat]
    /\ stopped \in BOOLEAN
=============================================================================
