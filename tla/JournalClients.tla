--------------------------- MODULE JournalClients ---------------------------
(***************************************************************************)
(* The command journal under its own contract: several processes share one *)
(* root, each may stall past its lease and wake up with stale handles, die *)
(* with the work half done, or have a write throw on it.  Every delivery   *)
(* of a command carries the expiry the control plane staged.               *)
(*                                                                         *)
(* A client is any sequence of calls on the handles it was given; it hands *)
(* the work to a provider exactly when started() or beginSteering()        *)
(* returned.                                                               *)
(***************************************************************************)
EXTENDS CommandJournal

CONSTANT Deadline    \* expiresAt of each command

VARIABLES
    submitted,    \* history: how often the work was handed to a provider
    working,      \* <<p, c>>: p's handle on c has handed the work over
    known         \* history: the commands that were recorded before

vars == <<now, journalVars, submitted, working, known>>

ASSUME DeadlineAssumption == Deadline \in [Command -> Nat]

Init ==
    /\ now = 0
    /\ JournalInit
    /\ submitted = [c \in Command |-> 0]
    /\ working = {}
    /\ known = {}

\* Bound of the revisions a client may drive a record to.
Room(c) == records[c].revision < MaxRevision

Remember == known' = known \cup {c \in Command : Stored(c)}

Quietly == UNCHANGED <<now, submitted, working>> /\ Remember

-----------------------------------------------------------------------------
(* A delivery of the command to process p; a claim that takes it returns a *)
(* new handle.                                                             *)
Delivered(p, c) == proc[p] = "live" /\ Room(c) /\ Remember
                   /\ UNCHANGED <<now, submitted>>

Claim(p, c) ==
    /\ Delivered(p, c)
    /\ ClaimNew(p, c, Deadline[c]) \/ ClaimReclaim(p, c, Deadline[c])
    /\ working' = working \ {<<p, c>>}

Decline(p, c) ==
    /\ Delivered(p, c)
    /\ \/ ClaimFull(p, c, Deadline[c])
       \/ ClaimLost(p, c, Deadline[c])
       \/ ClaimDuplicate(p, c, Deadline[c])
       \/ ClaimThrows(p, c, Deadline[c])
    /\ UNCHANGED working

HandOver(p, c) ==
    /\ <<p, c>> \notin working
    /\ working' = working \cup {<<p, c>>}
    /\ submitted' = [submitted EXCEPT ![c] = @ + 1]
    /\ Remember /\ UNCHANGED now

CallQueued(p, c) ==
    /\ <<p, c>> \notin working
    /\ Room(c)
    /\ \E code \in {"none", "retryable"} : Queued(p, c, code)
    /\ Quietly

\* started() before the provider call.
CallStarted(p, c) ==
    /\ \E event \in BOOLEAN : Started(p, c, event)
    /\ HandOver(p, c)

\* The transcript event that proves a steered answer was taken.
ConfirmSteering(p, c) ==
    /\ <<p, c>> \in working
    /\ records[c].steering
    /\ Started(p, c, TRUE)
    /\ Quietly

CallBeginSteering(p, c) ==
    /\ Room(c)
    /\ BeginSteering(p, c)
    /\ HandOver(p, c)

\* A definite refusal: the provider does not have the answer.
CallSteeringRejected(p, c) ==
    /\ <<p, c>> \in working
    /\ Room(c)
    /\ SteeringRejected(p, c)
    /\ working' = working \ {<<p, c>>}
    /\ submitted' = [submitted EXCEPT ![c] = @ - 1]
    /\ Remember /\ UNCHANGED now

CallSettle(p, c) ==
    /\ \E to \in Terminal, code \in {"none", "other"} :
          Settle(p, c, to, code) \/ SettleThrows(p, c, to, code)
    /\ Quietly

CallThrows(p, c) ==
    /\ <<p, c>> \notin working
    /\ \/ \E to \in {"queued", "started"} : Throw(p, c, to, FALSE, FALSE)
       \/ BeginSteeringThrows(p, c)
    /\ Quietly

-----------------------------------------------------------------------------
ProcessStep(p) ==
    \/ \E c \in Command :
         \/ Claim(p, c) \/ Decline(p, c)
         \/ CallQueued(p, c) \/ CallStarted(p, c)
         \/ ConfirmSteering(p, c) \/ CallBeginSteering(p, c)
         \/ CallSteeringRejected(p, c) \/ CallSettle(p, c) \/ CallThrows(p, c)
    \/ (Open(p) \/ Die(p) \/ Lapse(p) \/ Beat(p)) /\ Quietly

ClockTick == Tick /\ UNCHANGED <<journalVars, submitted, working, known>>

Next == ClockTick \/ \E p \in Proc : ProcessStep(p)

Spec == Init /\ [][Next]_vars

\* The shape of the journal, the leases and the work in hand.
TypeOK ==
    /\ now \in Nat
    /\ JournalTypeOK
    /\ submitted \in [Command -> Nat]
    /\ working \subseteq Proc \X Command
    /\ known \subseteq Command

-----------------------------------------------------------------------------
(* Properties.                                                             *)

\* The work of a command is in at most one provider's hands, whatever the
\* stalled, restarted and failing processes do with the handles they kept
\* (transitionLocked's compare-and-swap, claim's refusal to reclaim
\* "started", recoverUnsubmittedSteering).
AtMostOneSubmission == \A c \in Command : submitted[c] <= 1

\* Work in a provider's hands is on disk as started or ended, as long as
\* its record is kept.
SubmissionIsRecorded ==
    \A c \in Command : submitted[c] > 0 =>
        ~Stored(c) \/ records[c].state \in {"started"} \cup Terminal

\* A handle is never ahead of its record, and one that is current says where
\* the work is: its record has not ended, and reads started exactly when this
\* handle handed the work over (started, beginSteering and the handle that
\* every failed operation gives up).
HandlesAreHonest ==
    \A p \in Proc, c \in Command :
        /\ Stored(c) => handles[p][c] <= records[c].revision
        /\ handles[p][c] > 0 => Stored(c) \/ c \in known
        /\ Current(p, c) =>
             /\ records[c].state \notin Terminal
             /\ records[c].state = "started" <=> <<p, c>> \in working
             /\ <<p, c>> \in working => submitted[c] = 1

\* A record keeps the expiry its command came with, and goes only after it
\* (claim and prune).
RecordsAreKept ==
    \A c \in Command :
        /\ IF Stored(c) THEN records[c].expiresAt = Deadline[c]
                       ELSE records[c] = NoRecord
        /\ c \in known /\ ~Stored(c) => Deadline[c] < now
        /\ submitted[c] > 0 => Stored(c) \/ c \in known

\* The state of the journal's clients: work is handed over once, what was
\* handed over is on disk, and handles and records say so.
JournalInv ==
    /\ TypeOK /\ AtMostOneSubmission /\ SubmissionIsRecorded
    /\ HandlesAreHonest /\ RecordsAreKept

OutcomeIsKept ==
    \A c \in Command : records[c].state \in Terminal =>
        records'[c] = records[c] \/ records'[c] = NoRecord

\* A record that ended says the same until it is pruned, whatever stale
\* handles and later claims do (transitionAllowed, claim).
OutcomesAreKept == [][OutcomeIsKept]_vars

ForgottenIsRefused ==
    \A c \in Command : c \in known /\ ~Stored(c) => records'[c] = NoRecord

\* A command whose record was pruned is never taken up again: the horizon
\* of prune() and the expiry test of claim() leave no gap, at the boundary
\* tick either.
ForgottenStaysRefused == [][ForgottenIsRefused]_vars

StartedIsNotUnsaid ==
    \A c \in Command : WireState(records[c]) = "started" =>
        WireState(records'[c]) \in {"started", "none"} \cup Terminal

\* Once the wire said "started" it does not take it back, although the
\* record may return from a crash fence to the queue (receipt()'s mask).
StartedStaysSaid == [][StartedIsNotUnsaid]_vars
=============================================================================
