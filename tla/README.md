# Wollipog: verification of command delivery and the components around it

Wollipog runs coding agents on a user's own machines. A control plane (Fastify,
SQLite) serves the dashboard and keeps sessions; a runner on each machine holds
an outbound WebSocket to it, launches agent processes through drivers and owns
their transcripts. A message a user sends travels

    dashboard -> control plane API -> outbox row -> WebSocket -> runner journal
              -> session manager FIFO -> provider call -> receipt -> outbox row

and every hop can fail: either process can die, the socket can drop with frames
in flight, a disk write can throw half-way. A prompt handed to an agent twice
runs its tool calls twice, and a prompt reported "not sent" that was sent will
be retried by hand. The path above is therefore the core of this project;
around it stand the components it leans on: the lock file under the journal,
the permits a session needs to run on a box, the creation of its worktree, the
JSON-RPC peer and the text coalescer between an agent process and the
transcript, and the webhooks that tell third parties what happened.

## 1. Inventory

| Part | State | Operations | Hard behaviour | Correct when |
|---|---|---|---|---|
| Session prompt outbox (`control-plane/src/session-prompt-outbox.ts`, `session_prompt_commands` in `db.ts`) | one row per attempt: state, revision, error code, user event, dismissal, expiry | stage, retry, flush, receipt, maintain, stop, cancel, dismiss | receipts late, repeated, out of order; local ends racing the runner's | rows only move forward; "pending" means untouched; a verdict is final but for uncertainty |
| Durable command journal (`runner/src/durable-command-store.ts`) | a record file per command, a lease file per process, handles in memory | claim, queue, steer, start, settle, prune, heartbeat | crashes, stalled owners, writes that throw after their rename, capacity and expiry | work is handed over once; an outcome is kept; a forgotten command stays refused |
| Prompt path of the session manager (`runner/src/session-manager.ts`) | FIFO, turn in progress, transcript, sign-in holds | prompt, drain, runPrompt, stop | crash between transcript, receipt and provider call | no replay once the transcript names the command |
| Runner connection (`runner/src/index.ts`, `reconnect-republish.ts`) | socket, buffered receipts | sendUp, register, republish, handle a command | lost and reordered receipts around a reconnect | a verdict is eventually learnt |
| Session service (`control-plane/src/sessions.ts`) | session rows, intents | retry, stop, receipt fan-out and some 300 others | | |
| Hub and runner frame queue (`hub.ts`, `runner-frame-queue.ts`) | sockets, bounded FIFO per runner | enqueue, drain, pause, close | overflow, close with work prepared | order kept, nothing run after close |
| Session command receipt store (`session-command-receipt-store.ts`) | receipts of slash commands | begin, settle, replay | as the journal | as the journal |
| Automations (`automations.ts`, `automation-command-outbox.ts`) | schedules, executions, command rows | schedule, claim, deliver, expire | lease loss, missed ticks | one execution per due tick |
| Command lock (`withCommandLock` in `durable-command-store.ts`) | a lock file per command with the owner's token | create, stat, read, break, write, release | a lock broken by age and lease between another's check and write | the section is one process's; a dead owner's lock comes back |
| Box admission (`box-admission.ts`) | slot directories with owner files, shared by the processes of a box | acquire, release, releaseAll, setLimit, observe | death and failed writes between file operations, judgements that are stale when acted on | quotas and ceiling hold, nothing leaks, capacity returns |
| Provider home lease (`provider-home-lease.ts`) | lock files | acquire, renew, release, break | stale owners across processes | mutual exclusion |
| Worktree coordinator (`worktree-create-coordinator.ts`, its route, the runner's chain, the tool and the card) | an entry per create, a pending hub request, the runner's operation chain | start or join, progress, poll, release, invalidate | answers later than the timeout, polls after a newer choice, several clients | one create outstanding, a newer choice stands, everyone is answered |
| Outbound events (`outbound-events.ts`, its tables in `db.ts`) | subscriptions, events, delivery rows, attempts in flight | stage, tick, settle, rotate, revoke, resume, close, compact | leases lost under a running attempt, failed settlements, shutdown | a bound on open rows, old keys are dead, receipts of the latest attempt, every delivery ends |
| JSON-RPC transport (`jsonrpc.ts`, `bounded-ndjson.ts`) | request table, line buffer | request, answer, time out, fail, dispose | answers after the deadline, oversized and split records, a broken pipe | each request settles once and rightly, order of the wire kept |
| Text delta coalescer (`text-delta-coalescer.ts`) | pending run, timer, time of the last event | push, flush, close | timers against arrivals, stops and relaunches, clock set back or forward | order kept, nothing lost, at most one event a window |
| WAL checkpointer, waits and watches | timers, cursors | tick, retry, stop | shutdown during work, retries | at-least-once, clean stop |
| Campaign budget | reservations | reserve, settle, refund | settlement of a lost turn | the budget is never exceeded |
| Release staging | staged release journal | stage, commit, recover | crash between steps | a version is whole or absent |
| Drivers, dashboard, desktop shell, mock agent, scripts | | | third-party processes, user interface, packaging | not modelled |

Interactions: the outbox calls the hub, which writes to the runner's socket;
receipts come back through the hub to the session service and the outbox. On
the runner the message handler claims in the journal, answers, and calls the
session manager with a lifecycle object whose calls are journal transitions,
each followed by an update frame. The session manager shares the transcript
store with everything else on the runner; a record and a transcript event are
two files, never written together.

`PROJECT.json` lists the hazards, each at its line, with the properties for it.

## 2. Modules

| Module | Models |
|---|---|
| `DurableReceipts` | states, their order, receipts on the wire, the clock |
| `PromptOutbox` | the outbox rows of one session; one transaction is one step |
| `CommandJournal` | records, handles, leases; one operation under a command's lock is one step |
| `DurableDelivery` | both, with the socket, the session manager and process life; properties and the inductive invariant |
| `AtMostOnceDelivery` | the promise: what a user may rely on, over two facts per attempt |
| `JournalClients` | the journal under its own contract: any number of processes, any client, steering included |
| `CommandLock` | the lock file that makes a journal operation a step, one file operation at a time |
| `RunnerFrameQueue` | the control plane's queue of one runner connection, its drain loop and its socket |
| `BoxAdmission` | the slots of a box: quotas, mutation lock and ceiling, one file operation at a time |
| `WorktreeCreates` | a worktree creation from its clients through coordinator and hub to the runner and back |
| `JsonRpcPeer` | requests and records between the runner and an agent process, down to the chunks |
| `TextDeltas` | the coalescer of each provider launch and what the session records around it |
| `StreamedHistory` | what `TextDeltas` implements: recorded in order, once, in the end all of it |
| `OutboundEvents` | webhook deliveries: rows, leases, attempts, administration and crash |
| `MC...` | instances for TLC |
| `DurableDelivery_proofs`, `JournalClients_proofs`, `CommandLock_proofs`, `RunnerFrameQueue_proofs`, `WorktreeCreates_proofs`, `JsonRpcPeer_proofs`, `OutboundEvents_proofs`, `TextDeltas_proofs` | theorems about the module of that name |

`DurableDelivery` composes `PromptOutbox` and `CommandJournal`; `JournalClients`
uses the same `CommandJournal`. `CommandLock` is the level below: it justifies
the atomicity `CommandJournal` assumes where no live process stands still and no
third one interferes, and shows where it ends (see Findings).

### Correspondence

* `rows[c]` is the row of attempt `c = <<prompt, n>>`; `<<i, 0>>` is the base
  identity, `<<i, n>>` its `.retry-n`. `pruned` is a deleted row: base ids are
  random and a retry id needs its predecessor, so neither returns.
* `deadline[c]` is `expires_at` as staged. The row overwrites its own copy with
  the retention date when it ends; frames and records keep the staged one.
* `records[c]`, `handles[p][c]` and `lapsed` are the record file, the revision
  the handle of process `p` holds (0: none) and the processes whose lease file
  is older than 60 s. A process id is a random UUID, so it lives once.
* `turn[c]` is the place of a prompt in the session manager, `userLog` the
  commands named by a flushed `user_message` event, `delivered` a history
  variable counting provider calls that took the prompt.
* `down` and `up` are the socket, `buffered` is the list `sendUp` keeps while
  unregistered, `republish` the receipts a registration still owes.
* Error codes are three classes: none, retryable (the two the outbox retries)
  and other.
* An operation that throws is an action of its own (`Throw`, `SettleThrows`,
  `BeginSteeringThrows`, `ClaimThrows`): the write may be on disk or not, since
  `writeAtomic` flushes the directory after the rename.
* From the user event to the provider call `runPrompt` does not await, so no
  other step of the runner's event loop comes between (`LoopFree`); a crash does,
  and so does the control plane.
* `stop` and the runner's reaction are one action each: `ReceiveStop` settles
  the whole FIFO and the sign-in holds, in any order, each write possibly lost.
* `RunnerFrameQueue`: `q` holds the fields of the class, `q.paused` what
  `setRunnerReceivePressure` did to the socket, and `q.asked` is a
  history of the calls of `prepare`. A step is the code between two awaits; it
  pipes `q` through the private methods in the order the code calls them, binding
  each result with `\E x \in {...}`. `drain` names the await the loop is
  suspended in: the handler, `setImmediate` ("yielding"), `afterDrain`
  ("flushing"). Kinds carry what the queue asks of a frame: runner-wide,
  batchable, staged, size. A frame that throws on classification is a
  runner-wide one; one whose preparation throws or returns nothing is one that
  is not staged. Frames may arrive while reads are paused, since data is
  already buffered, and after `terminate`, until the close event.
* `CommandLock`: `lock` is the file at the lock's path: who created it, whether
  its token is written, whether it is older than 30 s. `pc` names the file
  operation that is next; a process is synchronous in between, so only other
  processes interleave. A token goes through the descriptor, to the file its
  process created even when the path has another one.
* `BoxAdmission`: `dir[slot]` is a slot's directory: free, without an owner file
  (for less or more than five seconds), or its owner's. `at[p]` is the operation
  of a process, with the loop variables it is in. What the code does when a file
  operation fails depends on where: `claimSlots` goes on to the next slot
  (`MakeSlotFails`, `WriteOwnerFails`), the `mkdirSync` of a root and the `rmSync`
  of an abandoned slot throw out of `acquire` with what it has claimed
  (`AcquireThrows`), `usedSlots` returns 0 (`ScanFails`), `releaseSlot` forgets the
  slot (`ReleaseFails`), and an owner file that cannot be read, or is not there
  after five seconds, makes a live process's slot an abandoned one (`Misread`,
  `Stall`). `met`, `stranded` and `robbed` remember which failures occurred, what
  they left behind, and whether a slot in use was removed.
* `WorktreeCreates`: all clients use the same coordinates. `entry` is the
  coordinator's entry per create, `call` the hub's pending request, `up` and
  `down` the socket, `chain` the operations the runner runs one after the other.
  Of the other operations, "choice" stands for `attach`, `select`, `discard`,
  `retry_setup` and `generate_setup`, which supersede a create that settled, and
  "another" for a create of other coordinates or one without progress, which
  selects its worktree and supersedes nothing (`index.ts:6145`). Frames that come
  in one read are dispatched before the continuations of the first, so a choice's
  reply can arrive while a create is answered and not settled. `ended` (what the
  runner did, in order), `taken`, `lost` and `raced` are history.
* `JsonRpcPeer`: `pending` is the table of waiting requests, `micro` the
  microtask queue, `buffer` the line buffer. Sizes are in pieces of a record; a
  chunk may end after any piece.
* `TextDeltas`: a piece is a delta of a stream or, with the stream "", anything
  else the session records. `age` is `Date.now() - lastTextEmitAt`, which the
  clock can take back or forward; the timer runs on the event loop's own clock.
* `OutboundEvents`: `row[<<s, e>>]` is a delivery row; `due` are the rows whose
  `next_attempt_at` has come and `before` the order of those times. Aborting a request settles it in
  the microtasks that follow, before any timer, so a rotation, a revocation and
  a shutdown are one step each.

## 3. Runs

Invariants that belong together are conjunctions of named parts, each part with
its own comment in the module (`PeerInv`, for one, is `TypeOK`, `NothingParked`,
`AnswersMatch` and `NotSentIsTrue`).

| Run | Instance | Checks | Shows |
|---|---|---|---|
| `dd_safe` | 1 prompt, 2 processes, throwing writes up to revision 3, crashes, expiry | `IInv AtMostOnce PendingIsUntouched OneTurnPerPrompt EvidenceInv RowsMoveForward KeepsPromise` | nothing that is lost, thrown, late or expired delivers twice or takes a verdict back; the promise is implemented |
| `dd_retry` | 1 prompt with a retry, throws | `KeepsPromise` | the chain of retries is delivered once |
| `dd_live` | 1 prompt, 2 processes, throws, fairness | `SentGetsVerdict` | the resends reach a verdict |
| `jc_all` | 2 commands, one steerable, 3 processes, room for one record, clock | `JournalInv OutcomesAreKept ForgottenStaysRefused StartedStaysSaid` | stale handles, steering fences, expiry and capacity |
| `cl_all` | 2 processes at one lock, one may die or find the disk full, one may stand still | `LockInv OwnershipInv NewNeverReplaces WrittenLockIsReclaimed` | what the lock gives, and that a dead owner's lock comes back |
| `cl_twice` | 3 processes, one may die | `AtMostOneSubmission` | violated: see Findings |
| `fq_all` | 6 frames of 4 kinds, a queue of 4, fairness | `QueueInv PreparationInv RoomWhileReading FramesAreHandled CloseHandshakeEnds` | order, release of prepared values, a pause that comes in time and goes away; no stranded frame or close |
| `ba_all` | 3 sessions of 2 processes, one of them may die or fail to make or write slots, one failure of any other kind, ceiling moved between 1 and 2 | `SlotInv CeilingHolds CapacityReturns` | which failures remove a slot in use; without one, leases, quotas and ceiling hold; nothing else leaks, a dead process's slots come back |
| `wc_all` | a tool call, a card, another operation of either kind, an incident, restarts of the control plane, 2 creates | `EntryInv OutcomeInv PollsAskOnce ClientsGetAnswers` | no second create beside a first; a poll starts a second one in three named cases only; what is said of a create agrees with what the runner did; everyone answered |
| `jr_all` | 2 requests, 3 records, each of the limit, one piece over it or twice as long | `PeerInv FitsIffDispatched WireOrder RequestsSettle` | requests settle once and rightly, records are framed and take effect in order |
| `oe_all` | 3 events, 1 subscription with room for 2, 1 fault, 1 rotation | `TableInv KeyInv ReceiptInv Settles` | limits, keys, receipts, and an end to every delivery |
| `td_all` | 4 pieces of 2 streams, 2 launches, window of 2, clock set back by 1 and forward | `CoalescerInv PaceInv HistoryAsPromised` | `StreamedHistory` is implemented, at the promised pace |

Bounds, durable delivery. `MaxDown` and `MaxUp` bound the frames in flight: two
receipts of a command are enough to reorder, repeat and overtake, since every
further one is compared with the row alone. Two processes give a crash, a
takeover and a return; the journal's own run has three, so that a stale owner
and its stale successor can both wake. `MaxTime` reaches one tick past the last
deadline in `jc_all` and to it in `dd_safe`. `MaxRevision` bounds only where
writes throw, sign-in holds repeat and, in `JournalClients`, how far clients
drive a record. `Horizon` and `Retention` are one tick (30 and 7 days in the
code): only the order of deadlines matters. Both sides read one clock; a skew
between machines is not modelled. Symmetry is over processes and prompts, in
runs without liveness. The frame queue has a limit of 4 frames (4096), a pause
cap of 2 (1024), runs of 2 (32) and a byte limit of twice its largest frame as
in the code; 6 arrivals fill it and overflow it by either measure.

Bounds, the other components. `cl_all` follows a record to revision 4: a claim,
a start, a second owner's claim of what a dead one left, and one transition
more, which is where a resumed command would be started again; processes stand
still while the record is at revision 0 or 1. In `ba_all` two sessions fill the
box, and two want the one slot of a quota; the ceiling is lowered below
what is in use. A failed write whose directory stays leaves an abandoned slot,
on which both live processes can meet, so the race between judging and removing
occurs there with two processes. `BA_weight.cfg` (a session of two units, a
ceiling of 1 or 3) and `BA_three.cfg` (three processes, one of which dies, so that
the race is about its slots) check `SlotInv` and `CeilingHolds` on instances that
are too large for the liveness property, or add nothing to it; both pass. `wc_all` has two creates,
because every property relates a create to the one after it, and one other
operation, of either kind; `WC_two.cfg` (two tool calls, two other operations)
checks the safety properties on an instance too large for liveness, and passes. `jr_all` has records of
exactly the limit, of one piece more and of twice the limit, cut after any piece,
the one before the newline included. `oe_all` fills the subscription; one fault is a crash, a
shutdown or a failed settlement, one failure pauses the subscription, and no
event is too large in the run, which pauses like a full subscription. `td_all` has a
limit of 4 characters, met exactly, passed and not reached.

Deadlock is not checked: with every prompt settled and every process dead, the
socket closed, or the bounded number of calls made, the bounded system stops.

Fairness (`dd_live`). Weak for the flush and maintenance timers, the socket
handlers and the age of a dead owner's lease: timers and the event loop keep
running. Strong for answering a command: a frame may find the lock taken any
number of times, but a lock left behind with its owner's token in it is broken
after 30 s (`WrittenLockIsReclaimed`; an empty one is not, see below). Strong for
session steps only because the bound on `up`, which the code does not have, can
disable them for a while. This assumes that a provider turn ends and a sign-in
hold is resolved or abandoned. The premise is that the socket eventually stays
up; nothing assumes a dead runner returns or a receipt is republished. The one
exemption, `Stranded`, is real: a history-integrity failure returns from
`runPrompt` without settling the receipt, and its live handle answers every
resend with "started" until a restart or the expiry.

Fairness (`fq_all`). Weak for the awaits of the loop: handlers and the flush
settle one way or the other, `setImmediate` fires, a destroyed socket emits its
close event. A peer whose answer can be read answers a close; the transport's
close timer, which would end the handshake anyway, is left out so that the
property is about the code's own resume.

Fairness (the others). `cl_all`: live processes go on, leases age, and the
command is claimed again as the control plane resends it. `ba_all`: live
processes go on, directories age, and a session that waits asks again (strong:
it may find the mutation lock taken). `wc_all`: continuations run, the tool
polls, the card reads, and a hub request times out; strong, because the socket
may come and go. `jr_all`: the event loop serves chunks and microtasks, the agent
reads its input and answers what it read, a deadline passes. `oe_all`: the tick's
timer, retry delays and leases run, and an attempt ends by its own timeout.
`td_all`: time passes and the timer fires.

Each property has a mutant, and each part of a conjunction one: a definition with a
plausible bug (its `_Suffix` variant, next to it) under which TLC finds the
property violated.

### Findings

`cl_twice`: `withCommandLock` reads a stale lock's token and lease and then
removes whatever is at the path. Two survivors that judged the same dead owner
can both pass; the second removes the first one's fresh lock, and both are in the
section. `transitionLocked` compares the revision before it renames, so a claim
decided before the other's `started()` is renamed over the started record, and
the command is started again. `docs/automations.md:70` and `:85` say that it is not
executed twice and that ownership is serialized. It takes three processes on a
box, one of them dead; with two, and with no live process standing still past
its lease, `cl_all` shows both.

### Observations

What the models show besides, where code and comments part or a reader may
expect more. Some have a configuration of their own that is not part of the
runs.

* `DD_fence.cfg` (`RetryIsFenced` of `MCDurableDelivery`): the direct answer to a
  resend names no user event. After a reconnect it can carry the terminal
  revision before the republished update does; the update then has the row's own
  revision and state and is ignored (`db.ts:28000`), so the row never learns the
  event and `retryKnownUndeliveredFailure` accepts it, although the comment on
  `stageRetriableSessionPromptCommand` promises a fence. `KeepsPromise` still
  holds, because the retryable codes are only sent when the provider proved it
  did not take the prompt.
* The comment on `BoxAdmission` (`box-admission.ts:42`) says that atomic creation
  of slot directories enforces the box ceiling. `CeilingEnforced` says the same
  and is violated by two configurations that are not runs. In `BA_ceiling.cfg`, with three
  processes, two survivors that judge the slots of a dead one abandoned remove
  them by path (`box-admission.ts:370`), the second after the first has taken
  them. In `BA_scan.cfg` nobody dies: a scan that fails counts nothing
  (`box-admission.ts:316`), and a session is admitted while another holds the
  slot above a lowered ceiling. `CeilingHolds` is what remains: no admission past the
  ceiling as long as no slot in use was removed, and after a failed scan none past
  the largest ceiling, which the slots themselves bound.
* An owner file of a live process that cannot be read, or that takes more than
  five seconds to be written, costs it the slot (`box-admission.ts:361`): two
  sessions can then run on one lease. `RobbedOnlyBy` lists the ways this can happen.
* A throw out of `acquire` leaves what it had claimed on disk, owned by a process
  that lives and does not remember it (`box-admission.ts:79` to 112, and 370). A
  mutation lock left this way, or kept by a failed `releaseSlot`, refuses every
  admission on the box until that process ends; `Fits` therefore asks that there
  is none.
* A process that dies between creating a lock file and writing its token leaves
  an empty one, which does not parse and is never broken
  (`durable-command-store.ts:461`): `WrittenLockIsReclaimed` says "written".
* A source key is remembered as long as one delivery of its event is on record;
  after the thirty days of the compaction the same occurrence is staged again
  (`db.ts:33704`), as `StagedOnce` says.
* A clock that is set forward lets a text event follow the last one within a
  window (`text-delta-coalescer.ts:115`); `OnePerWindow` excuses this one.
* Text waits longer than a window by as much as the machine's clock is set back
  (`text-delta-coalescer.ts:115`): `WaitsAtMostAWindow` has `MaxSetBack` in it.
* A poll of the tool, which asked for one create, can start a second, and that
  one can replace a worktree selected in between. `PollsAskOnce` names the three
  cases in which it does, and shows that there is no fourth: another client's
  request has collected the answer (`control-plane/src/index.ts:6105`), a new
  incident has made the retained result stale
  (`worktree-create-coordinator.ts:83`), or the control plane was restarted and has
  forgotten the create.
* `invalidateSession` runs for every worktree operation that is not a create,
  `generate_setup` included, which selects nothing (`index.ts:6145`): a create
  that settled before it is told superseded. It does not run for a create of other
  coordinates or one without progress, which does select, so an earlier create is
  then still offered as completed. `OutcomeInv` speaks of the operations for which
  it runs.
* A create whose answer came in the same read as that of a later choice has been
  answered, but its continuation has not run when the entries are invalidated, and
  it is then offered as completed (`worktree-create-coordinator.ts:158`).
  `SupersededIsNotOffered` excepts just these (`raced`); without the exception it is
  violated in `WC_race.cfg`, which is no registered run.

## 4. Proofs

`DurableDelivery_proofs` proves for every set of prompts (finite) and
processes and every bound:

* `Invariance`: `Spec => []IInv`
* `TypeCorrect`, `DeliveredAtMostOnce`, `PendingUntouched`, `OneTurn`.

Assumptions: the named `ASSUME`s of the modules, that is a finite set of
prompts, positive horizons, `NoProc` outside `Proc`, natural bounds, and
prompts only (`NoSteering`).

The argument. `AtMostOnce` alone is not inductive: a second provider call is
excluded because a turn that has not begun is not in the transcript
(`FenceInv`), and `prompt()` refuses a command that is. A turn stays unique
because whoever has a prompt in hand has a handle on its current record
(`HeldInv`), so a resend is a duplicate. The one way a record leaves under its
handle is the prune, which needs its expiry to have passed; that a further
delivery is then refused needs every copy of the expiry, in row, record and
frame, to be the staged one (`RowDeadlines`, `RecordDeadlines`,
`FrameDeadlines`), and that a retry's identity was never used before
(`ChainInv`), so that staging it changes no deadline in use. Type correctness
needs `HeldInv` as well: a turn in hand implies a running process. The proof
has one lemma per group of actions for types and one for the invariant, over a
few step shapes (`OutboxStep`, `TurnStep`, `FrameStep`).

The second half of the module proves, under the same assumptions:

* `EvidenceHolds`: `Spec => []EvidenceInv`
* `RowsForward`: `Spec => RowsMoveForward`
* `PromiseKept`: `Spec => KeepsPromise`, the refinement of `AtMostOnceDelivery`.

The argument. A row may be retried, cancelled or called failed only on the
strength of what some receipt said, and receipts are lost, repeated, overtaken
and buffered. So one predicate, `Backed`, says when an account of a command is
true: "completed" was delivered, a retryable failure was not and cannot be any
more (`Unsent`), and no account is ahead of the journal while the journal can
still speak (`Limit`). `RecordsBacked`, `ReceiptsBacked` and `RowsBacked` apply
it to the three places an account can be. Each holds because the next one does:
a receipt is made from a record, a row takes what a receipt says. `Unsent` is
stable because a turn needs a fresh delivery (`TurnEvidence` and the expiry), so
an account once true stays true, which is what the lemmas `Onward` and
`BackedStays` say of a step. `RetriesAreSafe` carries `Unsent` from attempt to
attempt; it gives the refinement, where a second attempt may only deliver what
none before it did. A terminal receipt gets through because the row never holds a
revision above `Limit`.

`CommandLock_proofs` proves, for any number of processes that may die or stand
still between any two file operations and for every bound:

* `TokensAreInUse`: `Spec => []LockInv`
* `FirstIsLinked`: `Spec => NewNeverReplaces`
* `TwoShareTheLock`: `AtMostTwo /\ Spec => []OwnershipInv`
* `LiveOnesShareTheLock`: `Spec => [](AllLive => OwnershipInv)`.

Assumptions: `ProcAssumption` and `RevisionAssumption` (`NoProc` outside
`Proc`, natural bounds). `LockInv` is inductive: besides the types it says that
a token found at the path is that of a dead process or of one between writing
and removing it (`Using`), and that a process about to rename has read a record
(`RevisionsCount`). The hard case is `WriteToken`, which follows the file and
not the path: a process whose lock was broken in the meantime changes nothing,
so the token of whoever retook the path stands. `FirstIsLinked` needs the
second part alone: whoever renames writes a revision above 1, and a link never
replaces.

That two live processes hold one lock is possible: in `cl_twice` a third one dies
and leaves a stale lock, which both survivors take, because the check of the token
and `rmSync` are two steps. So `OwnershipInv` is no theorem of `Spec`. The last two
theorems say how far it goes: it holds for two processes, wherever one dies,
and for any number of them until the first death (`Paired` is the disjunction;
`OwnershipInv` itself speaks only of behaviours in which no live process stood
still past its lease). Its inductive form is `OwnedInv`. `Leased`: a lock is broken
only after a death, and until there is one the lock is that of the process in
the section; so two in the section are one (`Exclusive`), because with two
processes both being there means that none died. `Knows`: from its check on a
call knows the current record, since nobody else writes one meanwhile, so
`rename` makes an allowed step from the record that was read. `Accounts`: the work
of a started record is with the one process whose handle is at its revision,
either about to return from `started()` or working, so `submitted` leaves 0 once
(`Counted`). Each action moves one process; `OthersAccount` settles all the others,
and a lemma per action its own.

`TextDeltas_proofs` proves for any window, set-back, size limit, streams and
launches:

* `TextIsPaced`: `Spec => []PaceInv`
* `RunsAreMerged`: `Spec => []CoalescerInv`
* `HistoryIsPromised`: `Spec => Promised!Init /\ [][Promised!Next]_Promised!vars`,
  the safety part of the refinement of `StreamedHistory`.

Assumption: `WindowAssumption` (a positive window, launches counted from 1).
The argument: the time pending text has waited and the time its timer still
runs add up to at most a window and the set-back, while the time since the last
text event and the timer's rest add up to at least a window; and `Date.now`
never says more than really passed, so the leading branch is sound too
(`TimerIsPaced`). `PacedInv` adds types of the histories. `HistoryInv` adds that
what is recorded, flattened, and what is pending are together what arrived, and
that pending text is of one stream; every step is one of three shapes
(`StepShape`): it records all that waits, a piece arrives, or neither. The lemma
under it is `FlattenAppend`: flattening one more event appends its pieces. It is
an induction on the length, done as a least counterexample, with the existence
and uniqueness of the recursive function (`FlattensExists`, `FlattensOnce`). The
characters of a run are counted as a set, which grows by at most a delta's length
(`CharsOfAppend`).

`JournalClients_proofs` proves for any clients that use the journal's
operations, any number of processes that crash, stall and return, and every
bound:

* `JournalHolds`: `Spec => []JournalInv`
* `OutcomesLast`: `Spec => OutcomesAreKept`
* `ForgottenForGood`: `Spec => ForgottenStaysRefused`
* `StartedIsFinal`: `Spec => StartedStaysSaid`.

Assumptions: `DeadlineAssumption`, `ProcAssumption`, `SteerableAssumption` and
`BoundsAssumption` (a deadline for each command, `NoProc` outside `Proc`,
natural bounds); nothing says that a lapsed owner is dead. `JournalInv` is
inductive. The two parts it needs beyond the properties are `HandlesAreHonest`
(the compare-and-swap on the revision is worth something only if a current
handle also says where the work is) and `RecordsAreKept` (a forgotten command
is refused only if the expiry in the record was the command's own).

`WorktreeCreates_proofs` proves for any clients, creates, operations, incidents
and clicks:

* `EntriesHold`: `Spec => []EntryInv`
* `PollsAskOnceHolds`: `Spec => PollsAskOnce`.

Assumption: `BoundAssumption`. The inductive invariant says
that an entry is in progress exactly while its request is outstanding, and that
its incident has been (`Coordinated`), that the runner has one create at a time
(`OneInFlight`) and that what a tool polls for is still there, or a request took
it, or a restart lost it (`PollsAreServed`). The last one leaves a poll that starts
a create only the case of an entry that is there and does not answer it, which is
one of an earlier incident. It rests on entries that expire only when nobody polls
them, which the tool's polling interval against the retention of five minutes
justifies.

`JsonRpcPeer_proofs` proves for any finite set of requests, any deadlines, line
limit and sizes of records, and any cut of the output into chunks:

* `PeerHolds`: `Spec => []PeerInv`
* `FramingHolds`: `Spec => []FitsIffDispatched`
* `WireOrderHolds`: `Spec => []WireOrder`.

Assumptions: `ReqAssumption` (finitely many requests), `SizeAssumption`. Every
request that waits has one entry in the table, and every message of an id, on
its way to the agent, in its hands or on its way back, is about the request that
has or had that id (`MessagesMatch`); ids are not reused because the counter
only grows. Framing needs the position of the agent's pieces: `Framed` says that
some function gives each record from the one being read on the end of its pieces
in `stdout`, and that the bytes in the buffer and the pieces to come make up the
record, unless it is being discarded. Records take effect in the order of the
wire because `seen`, then `micro`, then the record being read ascend (`Ordered`).

`OutboundEvents_proofs` proves for any finite sets of subscriptions and sources,
any limits and any number of faults and rotations:

* `TablesHold`: `Spec => []TableInv`
* `KeysHold`: `Spec => []KeyInv`
* `ReceiptsHold`: `Spec => []ReceiptInv`.

Assumption: `BoundsAssumption`. An open row belongs to a subscription that
stands, has its event on record and was tried as often as it says (`RowTrue`); a
row waits in one place of the queue and a leased one in none (`Waiting`); what
is under way stays within the concurrency limit and bears the current key
(`Attempts`). The limit on open rows is proved over the cardinality of the set
of a subscription's open rows, which a step enlarges only by the rows it stages.

`RunnerFrameQueue_proofs` proves for any kinds and sizes of frames, any limits,
inventories and number of frames:

* `QueueHolds`: `Spec => []QueueInv`
* `PreparationHolds`: `Spec => []PreparationInv`
* `RoomHolds`: `Spec => []RoomWhileReading`.

Assumptions: `KindAssumption` (a registration is about the whole runner) and
`LimitAssumption` (positive limits, and two frames of any kind fit the byte
limit, which is how the route computes it from the largest legal frame). The
class pipes its fields through private methods, and the proof does the same:
`Sound` says of a queue, whatever method it has just been through, that what
waits are the frames that follow, with their bytes counted (`Waiting`), that a
prefix of them is prepared and none past a frame about the runner (`Prefix`),
and that `prepare` was called for just the frames up to the end of that prefix
(`Asked`). Each method has a lemma that it keeps `Sound` and what it does to
`Out`, the values that have left the queue: only taking frames and dropping them
move any. `IInv` adds what the loop has in hand. A value is released once because
`Out` only grows and what is in hand is part of it (`InHandling`, `Released`). A
socket that is read has room because the pause follows the pressure on an open
socket (`Heard`) and a queue without pressure is below both limits (`Relieved`);
`reserveInventory`, which does not look at the pressure, only raises them. The
bytes of a queue are counted as the elements of a set, one per byte, so that
taking a prefix is a union of disjoint sets (`BytesOfParts`); the bounds of
`PreparedTo` and `RunLength`, maxima over sets of positions, come from a lemma on
bounded sets of numbers (`MaxExists`), proved by least counterexample.

Only model-checked:

* `SlotInv` and `CeilingHolds` of `BoxAdmission`. `CeilingHolds` compares a sum over sessions
  (`FoldSet`) with the count a scan keeps, which needs induction over data;
  `SlotInv` has no proof.
* `OutcomeInv` of `WorktreeCreates`, which needs the order of the replies on the
  wire related to that of `ended`.
* Liveness under fairness, which is beyond the prover, with the lag that is made
  good in the end in `HistoryAsPromised`.

## 5. Left out

* Malformed frames and rows, payload digests and `COMMAND_ID_CONFLICT`: an
  identity is bound to one payload here.
* `recordReceipt`'s check of the request id against remembered attempts, the
  campaign holds that defer a row, and backoff: they delay, they do not decide.
  `dd_live` assumes no row is held for ever.
* `start_session` commands, which share the journal's contract
  (`JournalClients`) but not the prompt path.
* `BoxAdmission`: processes that share a pid (a restart that takes the number of
  a dead one), and `blocker()`, which only explains. A cached observation is a
  scan that does not happen.
* `WorktreeCreates`: what git does; `delete_refs`; the entries of other
  coordinates, whose operations appear as "another"; polling by post against an
  old control plane; a tool call that is cancelled or whose HTTP request fails
  (`session-management-mcp.ts:3759`), and a card whose reads keep failing.
* `DurableDelivery`: a turn that ends because governance was tripped completes
  even if `prompt()` rejected (`session-manager.ts:16063`), without proof of a
  delivery; here "completed" is only said of a delivered prompt. The retry loop
  on the provider's capacity (`session-manager.ts:15837`) is one choice of whether
  the provider took the prompt.
* `JsonRpcPeer`: the content of messages, methods without a handler (answered at
  once), and `notify`, which only writes.
* `TextDeltas`: an append that fails under a flush, which is logged and loses
  the text of that event.
* `OutboundEvents`: address checks, signatures, the sweep that observes check
  runs; several subscriptions at once, which share only the concurrency limit
  (the module has them, the run has one).

### Not modelled

Session command receipt store, automation command outbox, provider home lease,
WAL checkpointer, campaign budget, session waits and watches, merge closure,
release staging, hub, the session manager's admission queue: modelable, and
planned below. Most of the code's lines are in parts with little state of
their own or whose state is elsewhere's: the API routes and the tables of
`db.ts`, adapters to third-party agents, the React dashboard, the desktop shell,
tests and scripts. Their status in `PROJECT.json` gives the reason one by one.

## 6. Plan

Order: most important first.

1. (done) Durable delivery end to end, its promise and its proof; the frame
   queue; the journal's clients and the lock under them.
2. (done) Box admission, worktree creation, JSON-RPC peer, text coalescer,
   outbound events.
3. `SessionCommandReceipts` and `AutomationOutbox`: the journal's siblings.
4. `ProviderHomeLease`: cross-process exclusion with renewal; the admission
   queue of the session manager, composed with `BoxAdmission` (the helper that
   names sessions starts a process past the queue, `session-manager.ts:5970`).
5. `WalCheckpointer`, `CampaignBudget`, `ReleaseStaging`, waits and watches.
6. (done) Theorems for every module but `BoxAdmission`, `OwnershipInv` for two
   processes among them. Next: `SlotInv`.
