--------------------------- MODULE DurableDelivery ---------------------------
(***************************************************************************)
(* Durable prompt delivery end to end: the control plane's outbox, the     *)
(* WebSocket, the runner's journal and the session manager that hands a    *)
(* prompt to the provider.  Either process may die, the socket may drop    *)
(* with frames in flight, journal writes may throw, and every frame may be *)
(* sent again.                                                             *)
(***************************************************************************)
EXTENDS PromptOutbox, CommandJournal, SequencesExt

CONSTANTS
    MaxDown,   \* bound of the frames on their way to the runner
    MaxUp      \* bound of the receipts on their way to the control plane

VARIABLES
    runner,     \* the running runner process, NoProc when it is down
    online,     \* the runner's socket is registered
    down,       \* frames to the runner, in order
    up,         \* receipts on the socket, in order
    buffered,   \* receipts the runner holds until it is registered again
    republish,  \* commands whose receipts this registration still owes
    turn,       \* where each command is in the session manager
    userLog,    \* commands with a flushed user_message event
    halted,     \* the runner has stopped the session
    delivered   \* history: how often the provider was given the command

channels == <<online, down, up, buffered, republish>>
sessionVars == <<turn, userLog, halted, delivered>>
vars == <<now, outboxVars, journalVars, runner, channels, sessionVars>>

ASSUME ChannelAssumption == MaxDown \in Nat /\ MaxUp \in Nat
ASSUME NoSteering == Steerable = {}

\* claimed: the journal owns it, prompt() has not queued it yet.
\* held: retained until the provider is signed in again.
\* queued: in the session's FIFO.  preparing: taken, snapshot and worktree
\* checks under way.  begun: its user event is flushed.  started: so is the
\* receipt that says so.  submitted: the provider has it.
Phases == {"idle", "claimed", "held", "queued", "preparing", "begun",
           "started", "submitted"}

Busy == \E c \in Command :
            turn[c] \in {"preparing", "begun", "started", "submitted"}

\* From the user event to the provider call there is no await: only a crash
\* or the other side of the socket comes between.
LoopFree(others) == \A d \in others : turn[d] \notin {"begun", "started"}

DownFrame == [type : {"command"}, c : Command, expiresAt : Nat]
             \cup [type : {"stop"}]

Init ==
    /\ now = 0
    /\ OutboxInit
    /\ JournalInit
    /\ runner = NoProc
    /\ online = FALSE
    /\ down = <<>>
    /\ up = <<>>
    /\ buffered = <<>>
    /\ republish = {}
    /\ turn = [c \in Command |-> "idle"]
    /\ userLog = {}
    /\ halted = FALSE
    /\ delivered = [c \in Command |-> 0]

-----------------------------------------------------------------------------
(* The control plane.                                                      *)
CPOnly == UNCHANGED <<now, journalVars, runner, channels, sessionVars>>

Stage(i) == StagePrompt(i) /\ CPOnly
Retry(c) == online /\ RetryUndelivered(c) /\ CPOnly
Refuse(c) == online /\ RefuseDue(c) /\ CPOnly
Sweep == Maintain /\ rows' # rows /\ CPOnly
Cancel(c) == CancelPending(c) /\ CPOnly
Dismiss(c) == DismissTerminal(c) /\ CPOnly

\* One row of flush().
Flush(c) ==
    /\ online
    /\ Len(down) < MaxDown
    /\ MarkSent(c)
    /\ down' = Append(down, [type |-> "command", c |-> c,
                             expiresAt |-> rows[c].expiresAt])
    /\ UNCHANGED <<now, journalVars, runner, online, up, buffered, republish,
                   sessionVars>>

\* The mark is made and the socket then refuses the frame.
FlushFails(c) == online /\ MarkSent(c) /\ rows' # rows /\ CPOnly

Stop ==
    /\ ~stopped
    /\ StopRows
    /\ down' = IF online THEN Append(down, [type |-> "stop"]) ELSE down
    /\ UNCHANGED <<now, journalVars, runner, online, up, buffered, republish,
                   sessionVars>>

ReceiveReceipt ==
    /\ online
    /\ up # <<>>
    /\ RecordReceipt(Head(up))
    /\ up' = Tail(up)
    /\ UNCHANGED <<now, journalVars, runner, online, down, buffered,
                   republish, sessionVars>>

-----------------------------------------------------------------------------
(* The socket.                                                             *)
\* Frames in flight are lost in both directions; sendUp buffers from here.
Disconnect ==
    /\ online
    /\ online' = FALSE
    /\ down' = <<>>
    /\ up' = <<>>
    /\ republish' = {}
    /\ UNCHANGED <<now, outboxVars, journalVars, runner, buffered,
                   sessionVars>>

\* Registration: the buffer is flushed in order, then the journal is read
\* out one acknowledged receipt at a time.  A persisted stop intent is sent
\* again.
Register ==
    /\ runner # NoProc
    /\ LoopFree(Command)
    /\ ~online
    /\ online' = TRUE
    /\ up' = buffered
    /\ buffered' = <<>>
    /\ down' = IF stopped THEN <<[type |-> "stop"]>> ELSE <<>>
    /\ republish' = {c \in Command :
                        Stored(c) /\ records[c].expiresAt >= now}
    /\ UNCHANGED <<now, outboxVars, journalVars, runner, sessionVars>>

\* What the runner puts on the wire for command c as the journal has it.
Update(c, rec) == [ c |-> c, state |-> WireState(rec),
                    revision |-> rec.revision, code |-> rec.code,
                    userEvent |-> rec.userEvent ]
\* The answer to one attempt has no field for the user event.
Result(c, rec) == [ c |-> c, state |-> WireState(rec),
                    revision |-> rec.revision, code |-> rec.code,
                    userEvent |-> FALSE ]
\* A refusal before any record exists carries revision 0.
Refused(c) == [ c |-> c, state |-> "failed", revision |-> 0,
                code |-> "other", userEvent |-> FALSE ]

SendUp(m) ==
    /\ Len(up) + Len(buffered) < MaxUp
    /\ up' = IF online THEN Append(up, m) ELSE up
    /\ buffered' = IF online THEN buffered ELSE Append(buffered, m)

RunnerOnly == UNCHANGED <<now, outboxVars, runner>>

Republish(c) ==
    /\ online
    /\ LoopFree(Command)
    /\ c \in republish
    /\ republish' = republish \ {c}
    /\ IF Stored(c) /\ records[c].expiresAt >= now
       THEN SendUp(Update(c, records[c])) ELSE UNCHANGED <<up, buffered>>
    /\ UNCHANGED <<journalVars, online, down, sessionVars>>
    /\ RunnerOnly

-----------------------------------------------------------------------------
(* The runner takes a durable_session_command frame off the socket.        *)
IsFrame(type) ==
    runner # NoProc /\ online /\ LoopFree(Command)
    /\ down # <<>> /\ Head(down).type = type

Taken == down' = Tail(down) /\ UNCHANGED <<online, republish>>

\* claim() and the result frame; a handle goes on to prompt().
Claimed(c) ==
    /\ \/ ClaimNew(runner, c, Head(down).expiresAt)
       \/ ClaimReclaim(runner, c, Head(down).expiresAt)
    /\ SendUp(Result(c, records'[c]))
    /\ turn' = [turn EXCEPT ![c] = "claimed"]
    /\ UNCHANGED <<userLog, halted, delivered>>

AnsweredFromJournal(c) ==
    /\ \/ ClaimLost(runner, c, Head(down).expiresAt)
       \/ ClaimDuplicate(runner, c, Head(down).expiresAt)
    /\ SendUp(Result(c, records'[c]))
    /\ UNCHANGED sessionVars

JournalFull(c) ==
    /\ ClaimFull(runner, c, Head(down).expiresAt)
    /\ SendUp(Refused(c))
    /\ UNCHANGED sessionVars

\* COMMAND_EXPIRED, whatever the journal holds for it.
ExpiredInFlight(c) ==
    /\ ~Fresh(Head(down).expiresAt)
    /\ SendUp(Refused(c))
    /\ UNCHANGED <<journalVars, sessionVars>>

AnswerCommand ==
    /\ IsFrame("command")
    /\ LET c == Head(down).c IN
         \/ Claimed(c)
         \/ AnsweredFromJournal(c)
         \/ JournalFull(c)
         \/ ExpiredInFlight(c)
    /\ Taken
    /\ RunnerOnly

\* The command's lock is taken (a crashed process left it) or the journal
\* threw before it wrote: no answer, the sender tries again.
CommandBusy ==
    /\ IsFrame("command")
    /\ Taken
    /\ UNCHANGED <<journalVars, up, buffered, sessionVars>>
    /\ RunnerOnly

\* The journal threw after it wrote.
CommandThrows ==
    /\ IsFrame("command")
    /\ ClaimThrows(runner, Head(down).c, Head(down).expiresAt)
    /\ Taken
    /\ UNCHANGED <<up, buffered, sessionVars>>
    /\ RunnerOnly

-----------------------------------------------------------------------------
(* The session manager.                                                    *)
Turn(c, from, to) ==
    /\ turn[c] \in from
    /\ LoopFree(Command \ {c})
    /\ turn' = [turn EXCEPT ![c] = to]

Still == UNCHANGED <<online, down, republish>>

\* A terminal receipt ends the turn; when its write throws the turn ends
\* just the same, without a frame.
Finish(c, from, to, code) ==
    /\ Turn(c, from, "idle")
    /\ \/ Settle(runner, c, to, code) /\ SendUp(Update(c, records'[c]))
       \/ SettleThrows(runner, c, to, code) /\ UNCHANGED <<up, buffered>>
    /\ UNCHANGED <<userLog, halted, delivered>>
    /\ Still /\ RunnerOnly

\* prompt(): the transcript already names this command, so its turn began
\* once; it is not replayed.
AdmitReplay(c) ==
    /\ c \in userLog
    /\ Finish(c, {"claimed", "held"}, "uncertain", "none")

\* prompt() and resumeAndPrompt() refuse: queue full, role change, sign-out,
\* dismissed authentication recovery, resume failure...
RefuseAdmission(c) ==
    /\ c \notin userLog
    /\ \E code \in {"retryable", "other"} :
          Finish(c, {"claimed", "held"}, "failed", code)

\* queued() is persisted before the prompt enters the FIFO.
Admit(c) ==
    /\ c \notin userLog
    /\ ~halted
    /\ Turn(c, {"claimed", "held"}, "queued")
    /\ Queued(runner, c, "none")
    /\ SendUp(Update(c, records'[c]))
    /\ UNCHANGED <<userLog, halted, delivered>>
    /\ Still /\ RunnerOnly

\* The provider needs a sign-in: the prompt is retained on disk and comes
\* back to prompt() when that is resolved, or is abandoned.
RetainForSignIn(c) ==
    /\ c \notin userLog
    /\ records[c].revision < MaxRevision
    /\ Turn(c, {"claimed", "held"}, "held")
    /\ Queued(runner, c, "retryable")
    /\ SendUp(Update(c, records'[c]))
    /\ UNCHANGED <<userLog, halted, delivered>>
    /\ Still /\ RunnerOnly

\* A throw out of queued() or started(): the caller then fails the command
\* through the same handle, which may throw too.
Thrown(c, from, to, userEvent) ==
    /\ Turn(c, from, "idle")
    /\ Throw(runner, c, to, userEvent, FALSE)
    /\ IF records'[c].state = "failed" /\ records[c].state # "failed"
       THEN SendUp(Update(c, records'[c])) ELSE UNCHANGED <<up, buffered>>
    /\ UNCHANGED <<userLog, halted, delivered>>
    /\ Still /\ RunnerOnly

AdmitThrows(c) ==
    c \notin userLog /\ Thrown(c, {"claimed", "held"}, "queued", FALSE)

\* drain(): one prompt at a time leaves the FIFO.
BeginTurn(c) ==
    /\ ~Busy
    /\ ~halted
    /\ Turn(c, {"queued"}, "preparing")
    /\ UNCHANGED <<journalVars, up, buffered, userLog, halted, delivered>>
    /\ Still /\ RunnerOnly

\* Taken off the FIFO by its user, a failed relaunch or a containment.
RejectQueued(c) == Finish(c, {"queued"}, "failed", "other")

\* Checks before the user event: nothing has been sent.
FailPreparing(c) ==
    \E code \in {"retryable", "other"} :
        Finish(c, {"preparing"}, "failed", code)

\* A faulty variant: the event is not durable when the turn goes on.
PublishUserEvent_Buffered(c) ==
    /\ ~halted
    /\ Turn(c, {"preparing"}, "begun")
    /\ UNCHANGED <<journalVars, up, buffered, userLog, halted, delivered>>
    /\ Still /\ RunnerOnly

\* publishUserEvent and the flush that makes it durable.
PublishUserEvent(c) ==
    /\ ~halted
    /\ Turn(c, {"preparing"}, "begun")
    /\ userLog' = userLog \cup {c}
    /\ UNCHANGED <<journalVars, up, buffered, halted, delivered>>
    /\ Still /\ RunnerOnly

MarkStarted(c) ==
    /\ Turn(c, {"begun"}, "started")
    /\ Started(runner, c, TRUE)
    /\ SendUp(Update(c, records'[c]))
    /\ UNCHANGED <<userLog, halted, delivered>>
    /\ Still /\ RunnerOnly

MarkStartedThrows(c) == Thrown(c, {"begun"}, "started", TRUE)

\* A cancel or an interrupt that landed before the provider call.
CancelStarted(c) == Finish(c, {"started"}, "failed", "other")

\* A faulty variant: the provider call is repeated.
Submit_Again(c) ==
    /\ Turn(c, {"started", "submitted"}, "submitted")
    /\ delivered' = [delivered EXCEPT ![c] = @ + 1]
    /\ UNCHANGED <<journalVars, up, buffered, userLog, halted>>
    /\ Still /\ RunnerOnly

\* The provider call; the provider may prove it never took the prompt.
Submit(c) ==
    /\ Turn(c, {"started"}, "submitted")
    /\ \E took \in {0, 1} :
          delivered' = [delivered EXCEPT ![c] = @ + took]
    /\ UNCHANGED <<journalVars, up, buffered, userLog, halted>>
    /\ Still /\ RunnerOnly

\* A faulty variant: a prompt the provider never took is called completed.
EndTurn_Optimistic(c) ==
    \/ ~halted /\ Finish(c, {"submitted"}, "completed", "none")
    \/ Finish(c, {"submitted"}, "uncertain", "none")

\* The end of runPrompt.  An authentication failure is a plain failure only
\* when the provider proved non-delivery.
EndTurn(c) ==
    \/ ~halted /\ delivered[c] > 0
       /\ Finish(c, {"submitted"}, "completed", "none")
    \/ ~halted /\ Finish(c, {"submitted"}, "failed", "other")
    \/ ~halted /\ delivered[c] = 0
       /\ Finish(c, {"submitted"}, "failed", "retryable")
    \/ Finish(c, {"submitted"}, "uncertain", "none")

\* A history-integrity failure returns without settling the receipt.
AbandonTurn(c) ==
    /\ Turn(c, {"started", "submitted"}, "idle")
    /\ UNCHANGED <<journalVars, up, buffered, userLog, halted, delivered>>
    /\ Still /\ RunnerOnly

\* stop(): the session leaves the active set; what it held for a sign-in is
\* abandoned, still retryable, and its FIFO is rejected.  Each is a terminal
\* receipt whose write may throw: nothing is announced
\* then, although the receipt may be on disk.
ReceiveStop ==
    /\ IsFrame("stop")
    /\ halted' = TRUE
    /\ LET queue == {c \in Command : turn[c] \in {"held", "queued"}} IN
       \E settled \in SUBSET {c \in queue : Current(runner, c)} :
       \E told \in SUBSET settled :
         /\ records' = [c \in Command |->
               IF c \in settled
               THEN Next_(runner, c, "failed",
                          IF turn[c] = "held" THEN "retryable" ELSE "other",
                          FALSE, FALSE)
               ELSE records[c]]
         /\ handles' = [handles EXCEPT ![runner] =
               [c \in Command |-> IF c \in queue THEN 0 ELSE @[c]]]
         /\ turn' = [c \in Command |->
                       IF c \in queue THEN "idle" ELSE turn[c]]
         /\ \E order \in SetToSeqs(told) :
               up' = up \o [n \in DOMAIN order |->
                               Update(order[n], records'[order[n]])]
         /\ Len(up') <= MaxUp
    /\ Taken
    /\ UNCHANGED <<proc, lapsed, buffered, userLog, delivered>>
    /\ RunnerOnly

-----------------------------------------------------------------------------
(* The runner process.                                                     *)
Start(p) ==
    /\ runner = NoProc
    /\ p \in Proc
    /\ Open(p)
    /\ runner' = p
    /\ UNCHANGED <<now, outboxVars, channels, sessionVars>>

\* Everything in memory is lost: handles, FIFO, buffered receipts.
Crash ==
    /\ runner # NoProc
    /\ Die(runner)
    /\ runner' = NoProc
    /\ online' = FALSE
    /\ down' = <<>> /\ up' = <<>> /\ buffered' = <<>> /\ republish' = {}
    /\ turn' = [c \in Command |-> "idle"]
    /\ UNCHANGED <<now, outboxVars, userLog, halted, delivered>>

LeaseLapses(p) ==
    /\ p # runner
    /\ Lapse(p)
    /\ UNCHANGED <<now, outboxVars, runner, channels, sessionVars>>

ClockTick ==
    /\ Tick
    /\ UNCHANGED <<outboxVars, journalVars, runner, channels, sessionVars>>

-----------------------------------------------------------------------------
ControlPlane ==
    \/ \E i \in Incident : Stage(i)
    \/ \E c \in Command : Retry(c) \/ Refuse(c) \/ Cancel(c) \/ Dismiss(c)
                          \/ Flush(c) \/ FlushFails(c)
    \/ Sweep \/ Stop \/ ReceiveReceipt

SessionStep(c) ==
    \/ AdmitReplay(c) \/ RefuseAdmission(c) \/ Admit(c) \/ AdmitThrows(c)
    \/ RetainForSignIn(c) \/ RejectQueued(c)
    \/ BeginTurn(c) \/ FailPreparing(c) \/ PublishUserEvent(c)
    \/ MarkStarted(c) \/ MarkStartedThrows(c) \/ CancelStarted(c)
    \/ Submit(c) \/ EndTurn(c) \/ AbandonTurn(c)

Runner ==
    \/ AnswerCommand \/ CommandBusy \/ CommandThrows \/ ReceiveStop
    \/ \E c \in Command : SessionStep(c) \/ Republish(c)

Environment ==
    \/ Disconnect \/ Register \/ Crash \/ ClockTick
    \/ \E p \in Proc : Start(p) \/ LeaseLapses(p)

Next == ControlPlane \/ Runner \/ Environment

Spec == Init /\ [][Next]_vars

(* Fairness.  The flush and maintenance timers, the socket handlers and    *)
(* the session's drain loop keep running; a provider turn ends; a dead     *)
(* owner's lease grows old.  A frame may find the lock taken any number of *)
(* times but not for ever: a lock left behind with its owner's token in it *)
(* is broken after its time (CommandLock).  A session step is only ever    *)
(* disabled for a while by MaxUp, which the code does not have: hence the  *)
(* strong form.  Nothing forces the socket to stay up, a dead runner to    *)
(* come back, or a receipt to be republished.                              *)
Fairness ==
    /\ \A c \in Command :
          WF_vars(Flush(c)) /\ SF_vars(SessionStep(c))
    /\ WF_vars(Sweep) /\ WF_vars(ReceiveReceipt) /\ WF_vars(ReceiveStop)
    /\ SF_vars(AnswerCommand)
    /\ \A p \in Proc : WF_vars(LeaseLapses(p))

FairSpec == Spec /\ Fairness

\* The shape of the tables, journal, channels and turns.
TypeOK ==
    /\ now \in Nat
    /\ OutboxTypeOK
    /\ JournalTypeOK
    /\ runner \in Proc \cup {NoProc}
    /\ online \in BOOLEAN
    /\ down \in Seq(DownFrame)
    /\ up \in Seq(Receipt)
    /\ buffered \in Seq(Receipt)
    /\ republish \subseteq Command
    /\ turn \in [Command -> Phases]
    /\ userLog \subseteq Command
    /\ halted \in BOOLEAN
    /\ delivered \in [Command -> Nat]

-----------------------------------------------------------------------------
(* Properties.                                                             *)

\* The provider is given a command at most once, over resends, crashes,
\* reclaims and journal writes that throw (claim, prompt(), started()).
AtMostOnce == \A c \in Command : delivered[c] <= 1

\* What a further delivery of the command would be given to start a turn.
Claimable(c) ==
    /\ Fresh(deadline[c])
    /\ \/ ~Stored(c)
       \/ records[c].state \in {"accepted", "queued"} /\ Orphaned(runner, c)

\* While the session manager has a prompt in hand, no delivery of the same
\* command is given a second turn: the runner keeps a handle on the record,
\* and a record that expired under it is not fresh any more (claim).
OneTurnPerPrompt ==
    \A c \in Command : turn[c] # "idle" => ~Claimable(c)

\* A row that was never marked sent has left no trace anywhere: no frame, no
\* record, no turn.  This is what lets cancelPending and stop call such a
\* prompt definitely cancelled (markSessionPromptCommandSent comes first).
PendingIsUntouched ==
    \A c \in Command : rows[c].state \in {"absent", "pending"} =>
        /\ ~Stored(c) /\ turn[c] = "idle" /\ c \notin userLog
        /\ delivered[c] = 0
        /\ \A n \in DOMAIN down :
              down[n].type = "command" => down[n].c # c

\* The control plane never holds a revision above the journal's final one,
\* so the runner's terminal receipt always gets through to a row that is
\* open or uncertain, whatever the control plane ended meanwhile.
FinalReceiptGetsThrough ==
    \A c \in Command :
        records[c].state \in Terminal
          /\ rows[c].state \in OutboxActive \cup {"uncertain"}
        => records[c].revision >= rows[c].revision

\* What the provider was given is fenced in the transcript and, while a
\* delivery of it could still be claimed, in the journal: a crash at any
\* point leaves evidence that stops a replay (publishUserEvent, started()).
DeliveryLeavesEvidence ==
    \A c \in Command : delivered[c] > 0 =>
        /\ c \in userLog
        /\ IF Stored(c) THEN records[c].state \in {"started"} \cup Terminal
                        ELSE deadline[c] < now

\* The provider was not given the command and will not be: no turn is under
\* way and no delivery of it can start one.
Unsent(c) ==
    /\ delivered[c] = 0
    /\ turn[c] = "idle"
    /\ IF Stored(c) THEN records[c].state \in Terminal ELSE deadline[c] < now

\* The revision a terminal account of the command can have by now; an account
\* that is not terminal stays below it.
Limit(c) == IF ~Stored(c) THEN 1
            ELSE IF records[c].state \in Terminal THEN records[c].revision
            ELSE records[c].revision + 1

\* What an account of the command (a record, a receipt, a row) says of it is
\* true: "completed" was delivered, what may be retried was not, and it is
\* not ahead of the journal while that can still speak.
Backed(c, account) ==
    /\ account.state = "completed" => delivered[c] > 0
    /\ account.state = "failed" /\ account.code = "retryable" => Unsent(c)
    /\ Stored(c) \/ now <= deadline[c] =>
          /\ account.revision <= Limit(c)
          /\ account.state \notin Terminal => account.revision < Limit(c)

RecordsBacked == \A c \in Command : Stored(c) => Backed(c, records[c])

\* Only a command that was sent has receipts.
Told(m) == rows[m.c].state \notin {"absent", "pending"} /\ Backed(m.c, m)

ReceiptsBacked ==
    /\ \A n \in DOMAIN up : Told(up[n])
    /\ \A n \in DOMAIN buffered : Told(buffered[n])

RowsBacked ==
    \A c \in Command :
        /\ HasRow(c) => Backed(c, rows[c])
        /\ rows[c].state = "pending" => rows[c].code = "none"

\* A turn and its record go together.
TurnEvidence ==
    \A c \in Command :
        /\ records[c].state \in Terminal => turn[c] = "idle"
        /\ turn[c] = "held" => c \notin userLog
        /\ turn[c] \in {"started", "submitted"} =>
              records[c].state \in {"none", "started"}

\* Whatever has a later attempt was never given to the provider.
RetriesAreSafe ==
    \A c, d \in Command :
        c[1] = d[1] /\ c[2] < d[2] /\ rows[d].state # "absent" =>
            rows[c].state # "absent" /\ Unsent(c)

\* Evidence of work is written before the work can start, and what it comes
\* to gets back to the row; nobody says more of a command than that evidence.
EvidenceInv ==
    /\ DeliveryLeavesEvidence /\ FinalReceiptGetsThrough
    /\ TurnEvidence
    /\ RecordsBacked /\ ReceiptsBacked /\ RowsBacked
    /\ RetriesAreSafe

RowMovesForward ==
    \A c \in Command :
        HasRow(c) /\ rows'[c].state # "pruned" =>
            /\ Rank[rows'[c].state] >= Rank[rows[c].state]
            /\ rows'[c].revision >= rows[c].revision
            /\ rows[c].state \in Terminal /\ rows'[c].state # rows[c].state
                 => /\ rows[c].state = "uncertain"
                    /\ rows'[c].state \in {"completed", "failed"}

\* A row never goes back: its rank and revision do not fall, and a terminal
\* row only resolves uncertainty or disappears (recordSessionPromptCommand-
\* Receipt against reordered, repeated and stale receipts).
RowsMoveForward == [][RowMovesForward]_vars

\* What the user reads of a command.
Verdict(c) ==
    IF rows[c].state \in Terminal THEN rows[c].state
    ELSE IF rows[c].state = "pruned" THEN "closed" ELSE "open"

Abstract == INSTANCE AtMostOnceDelivery
              WITH Attempt <- Command, given <- delivered,
                   verdict <- [c \in Command |-> Verdict(c)]

\* The detailed protocol keeps the promise of AtMostOnceDelivery: no prompt
\* is given to the provider twice, "completed" is only said of a prompt it
\* was given, and verdicts are final (the whole path from stagePrompt to
\* recordSessionPromptCommandReceipt).
KeepsPromise == Abstract!PromiseSpec

\* A turn that ended without settling its receipt: the live handle keeps
\* the journal answering "started" until the runner restarts or the prompt
\* expires.
Stranded(c) == records[c].state = "started" /\ turn[c] = "idle"
               /\ handles[runner][c] > 0

\* If the socket stays up from some time on, a prompt that was sent gets a
\* verdict without waiting for its expiry, whatever was lost, thrown or
\* crashed before (the resend timer, republishing and claim's answers
\* together), except for a stranded turn.
SentGetsVerdict ==
    <>[]online =>
      \A c \in Command :
          rows[c].state = "sent" ~> (~Active(c) \/ (online /\ Stranded(c)))

\* The comment on stageRetriableSessionPromptCommand: an attempt with a
\* correlated user event is fenced, so no attempt that has one is retried.
RetryIsFenced ==
    \A c \in Command :
        c[2] > 0 /\ HasRow(c) => <<c[1], c[2] - 1>> \notin userLog

-----------------------------------------------------------------------------
(* The inductive invariant behind AtMostOnce.                              *)

\* Exactly one process runs, or none.
RunnerInv ==
    \A p \in Proc : proc[p] = "live" <=> p = runner

\* A prompt in hand has a handle on its record; the record is current or
\* has been pruned, which only happens past the command's deadline.
Held(c) ==
    /\ runner \in Proc
    /\ handles[runner][c] > 0
    /\ IF Stored(c)
       THEN records[c].owner = runner
            /\ records[c].revision = handles[runner][c]
       ELSE deadline[c] < now

HeldInv == \A c \in Command : turn[c] # "idle" => Held(c)

\* Every copy of a command's expiry is the one it was staged with.
RowDeadlines ==
    \A c \in Command : Active(c) => rows[c].expiresAt = deadline[c]

RecordDeadlines ==
    \A c \in Command : Stored(c) => records[c].expiresAt = deadline[c]

FrameDeadlines ==
    \A n \in DOMAIN down : down[n].type = "command" =>
        down[n].expiresAt = deadline[down[n].c]

\* A retry exists only once its predecessor was dismissed.
ChainInv ==
    /\ \A c \in Command : rows[c].state = "absent" => ~rows[c].dismissed
    /\ \A c, d \in Command :
          d = <<c[1], c[2] + 1>> /\ rows[d].state # "absent" =>
              rows[c].dismissed \/ rows[c].state = "pruned"

\* The transcript as a fence: a turn that has not begun is not in it, and
\* what the provider has is.
FenceInv ==
    \A c \in Command :
        /\ turn[c] \in {"queued", "preparing"} => c \notin userLog
        /\ turn[c] \in {"begun", "started"} =>
              c \in userLog /\ delivered[c] = 0
        /\ c \notin userLog => delivered[c] = 0

\* What every reachable state satisfies, inductive under every step: the
\* handles, deadlines and fences that claim(), prompt() and runPrompt rely on.
IInv ==
    /\ TypeOK
    /\ RunnerInv
    /\ HeldInv
    /\ RowDeadlines /\ RecordDeadlines /\ FrameDeadlines
    /\ ChainInv
    /\ PendingIsUntouched
    /\ FenceInv
    /\ AtMostOnce
=============================================================================
