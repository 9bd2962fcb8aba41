--------------------------- MODULE CommandJournal ---------------------------
(***************************************************************************)
(* The runner's journal of durable commands: one record file per command,  *)
(* shared by every runner process that opens the same root, with a lease   *)
(* file per process and an in-memory handle for each command a process     *)
(* owns (DurableCommandStore and DurableCommandHandle).                    *)
(*                                                                         *)
(* Every operation runs under the command's lock file, so an operation is  *)
(* one step here; an operation that finds the lock taken does nothing      *)
(* ("busy"), which is the absence of the step.                             *)
(***************************************************************************)
EXTENDS DurableReceipts, FiniteSets

CONSTANTS
    Proc,          \* process owner ids (a random UUID per process)
    NoProc,        \* no owner
    Steerable,     \* the commands of kind answer_recovered_question
    MaxReceipts,   \* capacity of the journal
    MaxRevision    \* bound of the revisions at which a write may throw

VARIABLES
    records,       \* the record files
    handles,       \* handles[p][c]: revision the handle holds, 0 if none
    proc,          \* the life of each process: a process id is used once
    lapsed         \* processes whose lease file is older than the limit

journalVars == <<records, handles, proc, lapsed>>

ASSUME ProcAssumption == NoProc \notin Proc
ASSUME SteerableAssumption == Steerable \subseteq Command
ASSUME BoundsAssumption ==
    MaxReceipts \in Nat /\ MaxRevision \in Nat /\ MaxTime \in Nat

Record == [ state : RunnerStates \cup {"none"}, revision : Nat,
            owner : Proc \cup {NoProc}, expiresAt : Nat, code : Codes,
            userEvent : BOOLEAN, steering : BOOLEAN ]

NoRecord == [ state |-> "none", revision |-> 0, owner |-> NoProc,
              expiresAt |-> 0, code |-> "none",
              userEvent |-> FALSE, steering |-> FALSE ]

JournalInit ==
    /\ records = [c \in Command |-> NoRecord]
    /\ handles = [p \in Proc |-> [c \in Command |-> 0]]
    /\ proc = [p \in Proc |-> "unborn"]
    /\ lapsed = {}

Stored(c) == records[c].state # "none"

TransitionAllowed(from, to) ==
    \/ from = to
    \/ from \notin Terminal /\ to \in {"failed", "uncertain"}
    \/ from = "accepted" /\ to \in {"queued", "started", "completed"}
    \/ from = "queued" /\ to \in {"started", "completed"}
    \/ from = "started" /\ to = "completed"

-----------------------------------------------------------------------------
(* transitionLocked: the record a transition writes.  The error code is    *)
(* replaced on every write, the user event is kept once it is known.       *)
Next_(p, c, to, code, userEvent, steering) ==
    [ state |-> to, revision |-> records[c].revision + 1, owner |-> p,
      expiresAt |-> records[c].expiresAt, code |-> code,
      userEvent |-> records[c].userEvent \/ userEvent,
      steering |-> steering ]

\* A faulty variant: the handle's own copy is trusted.
Current_Unchecked(p, c) == handles[p][c] > 0 /\ Stored(c)

\* A transition through a handle is compare-and-swap on the revision the
\* handle read, by the process that owns the record.
Current(p, c) ==
    /\ handles[p][c] > 0
    /\ Stored(c)
    /\ records[c].revision = handles[p][c]
    /\ records[c].owner = p

Hold(p, c, revision) == handles' = [handles EXCEPT ![p][c] = revision]

\* nonterminal(): the handle follows the record.
Advance(p, c, to, code, userEvent, steering) ==
    /\ Current(p, c)
    /\ records' = [records EXCEPT
                     ![c] = Next_(p, c, to, code, userEvent, steering)]
    /\ Hold(p, c, records[c].revision + 1)
    /\ UNCHANGED <<proc, lapsed>>

\* A prompt held for a sign-in is queued with the code that says so.
Queued(p, c, code) ==
    /\ TransitionAllowed(records[c].state, "queued")
    /\ Advance(p, c, "queued", code, FALSE, records[c].steering)

Started(p, c, userEvent) ==
    /\ TransitionAllowed(records[c].state, "started")
    /\ Advance(p, c, "started", "none", userEvent, FALSE)

\* A faulty variant: no crash fence is written before the steer.
BeginSteering_Unfenced(p, c) ==
    /\ c \in Steerable
    /\ records[c].state = "queued"
    /\ Advance(p, c, "queued", "none", FALSE, TRUE)

BeginSteering(p, c) ==
    /\ c \in Steerable
    /\ records[c].state = "queued"
    /\ Advance(p, c, "started", "none", FALSE, TRUE)

\* Only a definite refusal returns the answer to the queue, before any
\* event that proves delivery.
SteeringRejected(p, c) ==
    /\ c \in Steerable
    /\ records[c].state = "started"
    /\ records[c].steering
    /\ ~records[c].userEvent
    /\ Advance(p, c, "queued", "none", FALSE, FALSE)

\* terminal(): the handle is released whether or not the write succeeds.
Settle(p, c, to, code) ==
    /\ Current(p, c)
    /\ to \in Terminal
    /\ TransitionAllowed(records[c].state, to)
    /\ records' = [records EXCEPT
                     ![c] = Next_(p, c, to, code, FALSE, records[c].steering)]
    /\ Hold(p, c, 0)
    /\ UNCHANGED <<proc, lapsed>>

(* A handle operation that throws releases the handle.  What is on disk    *)
(* then depends on where it threw: an exception after the rename (the      *)
(* directory flush) has published the record.  A caller that then settles  *)
(* the command as failed succeeds only on the revision the handle holds.   *)
Throw(p, c, to, userEvent, steering) ==
    /\ handles[p][c] > 0
    /\ records[c].revision < MaxRevision
    /\ \/ UNCHANGED records
       \/ /\ Current(p, c)
          /\ TransitionAllowed(records[c].state, to)
          /\ records' = [records EXCEPT
                  ![c] = Next_(p, c, to, "none", userEvent, steering)]
       \/ /\ Current(p, c)
          /\ TransitionAllowed(records[c].state, "failed")
          /\ records' = [records EXCEPT ![c] =
                  Next_(p, c, "failed", "other", FALSE, records[c].steering)]
    /\ Hold(p, c, 0)
    /\ UNCHANGED <<proc, lapsed>>

\* A terminal transition that throws: its caller only logs it.  It throws
\* also when the record moved on under the handle.
SettleThrows(p, c, to, code) ==
    /\ handles[p][c] > 0
    /\ records[c].revision < MaxRevision
    /\ to \in Terminal
    /\ \/ UNCHANGED records
       \/ /\ Current(p, c)
          /\ TransitionAllowed(records[c].state, to)
          /\ records' = [records EXCEPT
                  ![c] = Next_(p, c, to, code, FALSE, records[c].steering)]
    /\ Hold(p, c, 0)
    /\ UNCHANGED <<proc, lapsed>>

\* beginSteering() catches the throw: it may put the record back to queued,
\* from either side of the rename, and then keeps the handle; if that write
\* throws too, before its own rename or after it, the handle is gone.
BeginSteeringThrows(p, c) ==
    /\ c \in Steerable
    /\ Current(p, c)
    /\ records[c].state = "queued"
    /\ records[c].revision < MaxRevision
    /\ ~records[c].userEvent
    /\ \E published, recovered, kept \in BOOLEAN :
         LET base == IF published
                     THEN Next_(p, c, "started", "none", FALSE, TRUE)
                     ELSE records[c]
             back == [base EXCEPT !.state = "queued", !.steering = FALSE,
                                  !.revision = @ + 1, !.code = "none"]
         IN /\ kept => recovered
            /\ records' = [records EXCEPT
                              ![c] = IF recovered THEN back ELSE base]
            /\ Hold(p, c, IF kept THEN back.revision ELSE 0)
    /\ UNCHANGED <<proc, lapsed>>

-----------------------------------------------------------------------------
(* claim: what a process does with a delivered command.  The clock test    *)
(* comes first, before the record is read.                                 *)
\* A faulty variant: the sender is trusted to respect the expiry.
Fresh_Trusting(deadline) == TRUE

Fresh(deadline) == deadline > now

Pruned == [c \in Command |->
             IF Stored(c) /\ records[c].expiresAt < now THEN NoRecord
             ELSE records[c]]

CountOf(recs) == Cardinality({c \in Command : recs[c].state # "none"})

AfterRoom == IF CountOf(records) >= MaxReceipts THEN Pruned ELSE records

OwnerIsLive(q) == q \in Proc /\ q \notin lapsed

\* A faulty variant: a process may always act on its own records.
Orphaned_Unheld(p, c) ==
    records[c].owner = p \/ ~OwnerIsLive(records[c].owner)

\* A faulty variant: a handle this process lost is never taken back.
Orphaned_ByOthers(p, c) ==
    records[c].owner # p /\ ~OwnerIsLive(records[c].owner)

\* Another process may act on the record: it is mine without a handle, or
\* its owner's lease has lapsed.
Orphaned(p, c) ==
    \/ records[c].owner = p /\ handles[p][c] = 0
    \/ records[c].owner # p /\ ~OwnerIsLive(records[c].owner)

\* Every claim renews the claimant's lease.
Heartbeat(p) == lapsed' = lapsed \ {p}

Accepted(p, expiresAt) ==
    [ state |-> "accepted", revision |-> 1, owner |-> p,
      expiresAt |-> expiresAt, code |-> "none",
      userEvent |-> FALSE, steering |-> FALSE ]

(* What claim() writes: a new record, a taken over one, or the end of one  *)
(* whose work had begun, which is never replayed.                          *)
\* A faulty variant: the record lives for two ticks from its arrival.
Accept_FreshExpiry(p, c, deadline) ==
    /\ ~Stored(c)
    /\ CountOf(AfterRoom) < MaxReceipts
    /\ records' = [AfterRoom EXCEPT ![c] = Accepted(p, now + 2)]

Accept(p, c, deadline) ==
    /\ ~Stored(c)
    /\ CountOf(AfterRoom) < MaxReceipts
    /\ records' = [AfterRoom EXCEPT ![c] = Accepted(p, deadline)]

\* A faulty variant: a failed command is taken up again as well.
Reclaim_Failed(p, c) ==
    /\ records[c].state \in {"accepted", "queued", "failed"}
    /\ Orphaned(p, c)
    /\ records' = [records EXCEPT ![c] =
           Next_(p, c, "accepted", "none", FALSE, records[c].steering)]

Reclaim(p, c) ==
    /\ records[c].state \in {"accepted", "queued"}
    /\ Orphaned(p, c)
    /\ records' = [records EXCEPT ![c] =
           Next_(p, c, "accepted", "none", FALSE, records[c].steering)]

Lose(p, c) ==
    /\ records[c].state = "started"
    /\ Orphaned(p, c)
    /\ records' = [records EXCEPT ![c] =
           Next_(p, c, "uncertain", "none", FALSE, records[c].steering)]

ClaimNew(p, c, deadline) ==
    /\ Fresh(deadline)
    /\ Accept(p, c, deadline)
    /\ Hold(p, c, 1)
    /\ Heartbeat(p)
    /\ UNCHANGED proc

\* RECEIPT_STORE_FULL: the prune has happened, nothing was recorded.
ClaimFull(p, c, deadline) ==
    /\ Fresh(deadline)
    /\ ~Stored(c)
    /\ CountOf(AfterRoom) >= MaxReceipts
    /\ records' = AfterRoom
    /\ Heartbeat(p)
    /\ UNCHANGED <<handles, proc>>

ClaimReclaim(p, c, deadline) ==
    /\ Fresh(deadline)
    /\ Reclaim(p, c)
    /\ Hold(p, c, records[c].revision + 1)
    /\ Heartbeat(p)
    /\ UNCHANGED proc

ClaimLost(p, c, deadline) ==
    /\ Fresh(deadline)
    /\ Lose(p, c)
    /\ Heartbeat(p)
    /\ UNCHANGED <<handles, proc>>

\* claim() throws with its record published, or its prune done: no handle
\* is made and the caller stays silent.
ClaimThrows(p, c, deadline) ==
    /\ Fresh(deadline)
    /\ records[c].revision < MaxRevision
    /\ \/ Accept(p, c, deadline)
       \/ Reclaim(p, c)
       \/ Lose(p, c)
       \/ ~Stored(c) /\ records' = AfterRoom
    /\ Heartbeat(p)
    /\ UNCHANGED <<handles, proc>>

ClaimDuplicate(p, c, deadline) ==
    /\ Fresh(deadline)
    /\ Stored(c)
    /\ records[c].state \in Terminal \/ ~Orphaned(p, c)
    /\ Heartbeat(p)
    /\ UNCHANGED <<records, handles, proc>>

-----------------------------------------------------------------------------
(* Processes and leases.                                                   *)
\* A process opens the journal: its lease is written and expired records go.
Open(p) ==
    /\ proc[p] = "unborn"
    /\ proc' = [proc EXCEPT ![p] = "live"]
    /\ records' = Pruned
    /\ Heartbeat(p)
    /\ UNCHANGED handles

\* A faulty variant: a process that is neither live nor dead.
Die_Slowly(p) ==
    /\ proc[p] = "live"
    /\ proc' = [proc EXCEPT ![p] = "dying"]
    /\ UNCHANGED <<handles, records, lapsed>>

Die(p) ==
    /\ proc[p] = "live"
    /\ proc' = [proc EXCEPT ![p] = "dead"]
    /\ handles' = [handles EXCEPT ![p] = [c \in Command |-> 0]]
    /\ UNCHANGED <<records, lapsed>>

\* The lease of an owner lapses: the process is dead, or alive but stalled.
Lapse(p) ==
    /\ p \notin lapsed
    /\ \E c \in Command : records[c].owner = p
    /\ lapsed' = lapsed \cup {p}
    /\ UNCHANGED <<records, handles, proc>>

Beat(p) ==
    /\ proc[p] = "live" /\ p \in lapsed
    /\ Heartbeat(p)
    /\ UNCHANGED <<records, handles, proc>>

\* A faulty variant: the crash fence is published as it is stored.
WireState_Unmasked(rec) == rec.state

\* receipt(): the crash fence of a steering attempt is published as queued.
WireState(rec) ==
    IF rec.state = "started" /\ rec.steering THEN "queued" ELSE rec.state

JournalTypeOK ==
    /\ records \in [Command -> Record]
    /\ handles \in [Proc -> [Command -> Nat]]
    /\ proc \in [Proc -> {"unborn", "live", "dead"}]
    /\ lapsed \subseteq Proc
=============================================================================
