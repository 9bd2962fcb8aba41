---------------------------- MODULE CommandLock ----------------------------
(***************************************************************************)
(* The lock file of one durable command, one file operation at a time      *)
(* (withCommandLock, and the operations of DurableCommandStore that run    *)
(* under it).  CommandJournal takes such an operation as one step; this    *)
(* module asks what the lock really gives the processes of a box.          *)
(*                                                                         *)
(* A process is synchronous inside an operation: only other processes      *)
(* interleave with it, between any two of its file operations.  The lock   *)
(* is the file at the lock's path; it was created by one process, holds    *)
(* that process's token once written, and is old 30 s after that.  A       *)
(* process writes through its descriptor, so its token goes to the file it *)
(* created even when the path has another one by then.                     *)
(***************************************************************************)
EXTENDS Naturals, FiniteSets

CONSTANTS
    Proc,          \* process owner ids (a random UUID per process)
    NoProc,        \* no owner
    Crashing,      \* processes that may die or find the disk full
    Stalling,      \* processes that may stop for longer than their lease
    MaxRevision,   \* bound: no handle is used from this revision on
    MaxStall       \* bound: no one stalls from this revision on

VARIABLES
    lock,          \* the file at the lock's path
    record,        \* the command's record file
    pc,            \* where each process is in its operation
    call,          \* the operation: claim, start or finish
    seen,          \* the record the operation last read
    gone,          \* owners whose lease had lapsed when the claim began
    holder,        \* owner named by the token the operation read
    handle,        \* revision of the process's handle, 0 if none
    working,       \* processes whose handle handed the work over
    lapsed,        \* processes whose lease file is older than the limit
    submitted,     \* history: how often the work was handed over
    stood          \* history: processes that stood still past their lease

vars == <<lock, record, pc, call, seen, gone, holder, handle, working,
          lapsed, submitted, stood>>

local == <<call, seen, gone, holder>>

ASSUME ProcAssumption ==
    NoProc \notin Proc /\ Crashing \subseteq Proc /\ Stalling \subseteq Proc
ASSUME RevisionAssumption == MaxRevision \in Nat /\ MaxStall \in Nat

States == {"none", "accepted", "started", "completed", "uncertain"}

Record == [state : States, revision : Nat, owner : Proc \cup {NoProc}]

NoRecord == [state |-> "none", revision |-> 0, owner |-> NoProc]

LockFile == [by : Proc \cup {NoProc}, written : BOOLEAN, old : BOOLEAN]

NoLock == [by |-> NoProc, written |-> FALSE, old |-> FALSE]

Calls == {"claim", "start", "finish"}

Places == {"idle", "stat", "token", "lease", "break", "reopen", "write",
           "read", "recheck", "link", "rename", "readback", "remove",
           "dead"}

Init ==
    /\ lock = NoLock
    /\ record = NoRecord
    /\ pc = [p \in Proc |-> "idle"]
    /\ call = [p \in Proc |-> "claim"]
    /\ seen = [p \in Proc |-> NoRecord]
    /\ gone = [p \in Proc |-> {}]
    /\ holder = [p \in Proc |-> NoProc]
    /\ handle = [p \in Proc |-> 0]
    /\ working = {}
    /\ lapsed = {}
    /\ submitted = 0 /\ stood = {}

Terminal == {"completed", "uncertain"}

TransitionAllowed(from, to) ==
    \/ from = to
    \/ from \notin Terminal /\ to = "uncertain"
    \/ from = "accepted" /\ to \in {"started", "completed"}
    \/ from = "started" /\ to = "completed"

Go(p, place) == pc' = [pc EXCEPT ![p] = place]

Locked == lock # NoLock

\* The files an operation leaves alone while it is about the lock.
LockOnly == UNCHANGED <<record, seen, handle, working, lapsed, submitted, stood>>

-----------------------------------------------------------------------------
(* withCommandLock: taking the lock.                                       *)

CanCall(p, op) ==
    CASE op = "claim"  -> TRUE
      [] op = "start"  -> handle[p] > 0 /\ p \notin working
      [] op = "finish" -> handle[p] > 0

\* openSync(file, "wx"): the file that is created has no token yet.
CreateLock(p) ==
    /\ ~Locked
    /\ lock' = [by |-> p, written |-> FALSE, old |-> FALSE]
    /\ Go(p, "write")

\* A lease that is renewed is seen as live by every claim under way.
Renewed(p) ==
    /\ lapsed' = lapsed \ {p}
    /\ gone' = [q \in Proc |-> gone[q] \ {p}]

\* A call begins; a claim reads the clock and renews its lease first.
Begin(p, op) ==
    /\ pc[p] = "idle"
    /\ CanCall(p, op)
    /\ op = "claim" \/ record.revision < MaxRevision
    /\ call' = [call EXCEPT ![p] = op]
    /\ CreateLock(p) \/ (Locked /\ Go(p, "stat") /\ UNCHANGED lock)
    /\ IF op = "claim"
         THEN /\ lapsed' = lapsed \ {p}
              /\ gone' = [q \in Proc |-> IF q = p THEN lapsed \ {p}
                                                  ELSE gone[q] \ {p}]
         ELSE UNCHANGED <<lapsed, gone>>
    /\ UNCHANGED <<record, seen, holder, handle, working, submitted, stood>>

\* A call that cannot have the lock: claim answers busy and leaves all as
\* it was; a call through the handle throws, which releases the handle.
Busy(p) ==
    /\ Go(p, "idle")
    /\ handle' = [handle EXCEPT ![p] = IF call[p] = "claim" THEN @ ELSE 0]
    /\ working' = IF call[p] = "claim" THEN working ELSE working \ {p}
    /\ UNCHANGED <<lock, record, seen, holder, lapsed, submitted, stood, call,
                   gone>>

\* statSync: a lock that is gone, or written in the last 30 s.
StatLock(p) ==
    /\ pc[p] = "stat"
    /\ \/ ~(Locked /\ lock.old) /\ Busy(p)
       \/ /\ Locked /\ lock.old
          /\ Go(p, "token")
          /\ UNCHANGED <<lock, call, gone, holder>> /\ LockOnly

\* readFileSync and JSON.parse: an empty file does not parse.
ReadToken(p) ==
    /\ pc[p] = "token"
    /\ \/ ~(Locked /\ lock.written) /\ Busy(p)
       \/ /\ Locked /\ lock.written
          /\ holder' = [holder EXCEPT ![p] = lock.by]
          /\ Go(p, "lease")
          /\ UNCHANGED <<lock, call, gone>> /\ LockOnly

\* Fault: the age of a lock is enough to break it.
ReadLease_ByAge(p) ==
    /\ pc[p] = "lease"
    /\ Go(p, "break")
    /\ UNCHANGED <<lock, call, gone, holder>> /\ LockOnly

\* Fault: the lock of an owner without a live lease is respected too.
ReadLease_Never(p) == pc[p] = "lease" /\ Busy(p)

\* ownerIsLive of the token's owner, at this moment.
ReadLease(p) ==
    /\ pc[p] = "lease"
    /\ \/ holder[p] \notin lapsed /\ Busy(p)
       \/ /\ holder[p] \in lapsed
          /\ Go(p, "break")
          /\ UNCHANGED <<lock, call, gone, holder>> /\ LockOnly

\* rmSync(file): whatever file is at the path now.
BreakLock(p) ==
    /\ pc[p] = "break"
    /\ \/ ~Locked /\ Busy(p)
       \/ /\ Locked
          /\ lock' = NoLock
          /\ Go(p, "reopen")
          /\ UNCHANGED local /\ LockOnly

Reopen(p) ==
    /\ pc[p] = "reopen"
    /\ \/ Locked /\ Busy(p)
       \/ CreateLock(p) /\ UNCHANGED local /\ LockOnly

\* Fault: the token is written to whatever file is at the path.
WriteToken_ByPath(p) ==
    /\ pc[p] = "write"
    /\ lock' = [lock EXCEPT !.written = TRUE, !.old = FALSE]
    /\ Go(p, IF call[p] = "claim" THEN "read" ELSE "recheck")
    /\ seen' = [seen EXCEPT ![p] = [NoRecord EXCEPT !.revision = handle[p]]]
    /\ UNCHANGED <<record, call, gone, holder, handle, working, lapsed,
                   submitted, stood>>

\* The token goes through the descriptor to the file this process created.
WriteToken(p) ==
    /\ pc[p] = "write"
    /\ lock' = IF lock.by = p
                 THEN [lock EXCEPT !.written = TRUE, !.old = FALSE]
                 ELSE lock
    /\ Go(p, IF call[p] = "claim" THEN "read" ELSE "recheck")
    /\ seen' = [seen EXCEPT ![p] = [NoRecord EXCEPT !.revision = handle[p]]]
    /\ UNCHANGED <<record, call, gone, holder, handle, working, lapsed,
                   submitted, stood>>

\* The token cannot be written (a full disk): the call throws and leaves
\* an empty lock behind, as its token is not what it reads back.
WriteTokenFails(p) ==
    /\ pc[p] = "write"
    /\ p \in Crashing
    /\ Busy(p)

-----------------------------------------------------------------------------
(* The section: claim, and transitionLocked under a claim or a handle.     *)

SectionOnly == UNCHANGED <<lock, call, gone, holder, lapsed, submitted, stood>>

\* The call throws in the section; a handle that was used is released.
Fail(p) ==
    /\ Go(p, "readback")
    /\ handle' = [handle EXCEPT ![p] = IF call[p] = "claim" THEN @ ELSE 0]
    /\ working' = IF call[p] = "claim" THEN working ELSE working \ {p}

\* claim answers with the record as it is.
Duplicate(p) ==
    \/ record.state \in Terminal
    \/ record.owner = p /\ handle[p] > 0
    \/ record.owner # p /\ record.owner \notin gone[p]

\* claim reads the record and decides.
ReadRecord(p) ==
    /\ pc[p] = "read"
    /\ seen' = [seen EXCEPT ![p] = record]
    /\ Go(p, CASE record = NoRecord -> "link"
               [] record # NoRecord /\ Duplicate(p) -> "readback"
               [] OTHER -> "recheck")
    /\ UNCHANGED <<record, handle, working>> /\ SectionOnly

\* Fault: an orphaned command is taken up in the state it was left in.
Target_Resume(p) ==
    CASE call[p] = "start"  -> "started"
      [] call[p] = "finish" -> "completed"
      [] call[p] = "claim"  -> seen[p].state

\* The state a call moves the record to.
Target(p) ==
    CASE call[p] = "start"  -> "started"
      [] call[p] = "finish" -> "completed"
      [] call[p] = "claim"  ->
            IF seen[p].state = "started" THEN "uncertain" ELSE "accepted"

\* transitionLocked: the record is still the one the call knows.
Unchanged(p) ==
    /\ record.revision = seen[p].revision
    /\ call[p] = "claim" \/ record.owner = p

Recheck(p) ==
    /\ pc[p] = "recheck"
    /\ \/ /\ Unchanged(p) /\ record # NoRecord
          /\ TransitionAllowed(record.state, Target(p))
          /\ Go(p, "rename")
          /\ UNCHANGED <<handle, working>>
       \/ /\ ~(Unchanged(p) /\ record # NoRecord
                /\ TransitionAllowed(record.state, Target(p)))
          /\ Fail(p)
    /\ UNCHANGED <<record, seen>> /\ SectionOnly

\* Fault: a new record replaces what another process published.
LinkRecord_Replace(p) ==
    /\ pc[p] = "link"
    /\ record' = [state |-> "accepted", revision |-> 1, owner |-> p]
    /\ handle' = [handle EXCEPT ![p] = 1]
    /\ working' = working \ {p}
    /\ Go(p, "readback")
    /\ UNCHANGED seen /\ SectionOnly

\* linkSync publishes a new record and fails if there is one by now.
LinkRecord(p) ==
    /\ pc[p] = "link"
    /\ \/ /\ record = NoRecord
          /\ record' = [state |-> "accepted", revision |-> 1, owner |-> p]
          /\ handle' = [handle EXCEPT ![p] = 1]
          /\ working' = working \ {p}
          /\ Go(p, "readback")
       \/ record # NoRecord /\ Fail(p) /\ UNCHANGED record
    /\ UNCHANGED seen /\ SectionOnly

\* writeAtomic: the rename replaces whatever record is there.
RenameRecord(p) ==
    /\ pc[p] = "rename"
    /\ \E revision \in {seen[p].revision + 1} :
          /\ record' = [state |-> Target(p), revision |-> revision,
                        owner |-> p]
          /\ handle' = [handle EXCEPT
                ![p] = IF Target(p) \in Terminal THEN 0 ELSE revision]
    /\ working' = IF call[p] = "claim" \/ Target(p) \in Terminal
                    THEN working \ {p} ELSE working
    /\ Go(p, "readback")
    /\ UNCHANGED seen /\ SectionOnly

-----------------------------------------------------------------------------
(* withCommandLock: giving the lock back, whatever the section did.        *)

\* started() returned if its handle is still there; only then does the
\* caller hand the work to the provider.
Return(p) ==
    /\ Go(p, "idle")
    /\ IF call[p] = "start" /\ handle[p] > 0
         THEN submitted' = submitted + 1 /\ working' = working \cup {p}
         ELSE UNCHANGED <<submitted, working>>
    /\ UNCHANGED <<record, seen, handle, lapsed, call, gone, holder, stood>>

OwnToken(p) == lock.by = p /\ lock.written

\* Fault: a call that threw keeps its lock.
ReadBack_KeepOnThrow(p) ==
    /\ pc[p] = "readback"
    /\ \/ ~(OwnToken(p) /\ handle[p] > 0) /\ Return(p) /\ UNCHANGED lock
       \/ /\ OwnToken(p) /\ handle[p] > 0 /\ Go(p, "remove")
          /\ UNCHANGED <<lock, call, gone, holder>> /\ LockOnly

ReadBack(p) ==
    /\ pc[p] = "readback"
    /\ \/ ~OwnToken(p) /\ Return(p) /\ UNCHANGED lock
       \/ /\ OwnToken(p) /\ Go(p, "remove")
          /\ UNCHANGED <<lock, call, gone, holder>> /\ LockOnly

\* rmSync(file, force): whatever file is at the path now.
RemoveLock(p) ==
    /\ pc[p] = "remove"
    /\ lock' = NoLock
    /\ Return(p)

-----------------------------------------------------------------------------
(* Time, leases and death.                                                 *)

\* 30 s have passed since the lock was created or written.
Age ==
    /\ Locked /\ ~lock.old
    /\ lock' = [lock EXCEPT !.old = TRUE]
    /\ UNCHANGED <<record, pc, local, handle, working, lapsed, submitted, stood>>

Die(p) ==
    /\ p \in Crashing /\ pc[p] # "dead"
    /\ Go(p, "dead")
    /\ handle' = [handle EXCEPT ![p] = 0]
    /\ working' = working \ {p}
    /\ UNCHANGED <<lock, record, local, lapsed, submitted, stood>>

\* 60 s have passed since the process renewed its lease: it is dead, or it
\* stands still (its heartbeat timer does not run inside an operation).
Lapse(p) ==
    /\ p \notin lapsed
    /\ pc[p] = "dead" \/ (p \in Stalling /\ record.revision < MaxStall)
    /\ lapsed' = lapsed \cup {p}
    /\ stood' = IF pc[p] = "dead" THEN stood ELSE stood \cup {p}
    /\ UNCHANGED <<lock, record, pc, local, handle, working, submitted>>

\* The heartbeat timer, on an idle event loop.
Beat(p) ==
    /\ pc[p] = "idle" /\ p \in lapsed
    /\ Renewed(p)
    /\ UNCHANGED <<lock, record, pc, call, seen, holder, handle, working,
                   submitted, stood>>

Operate(p) ==
    \/ StatLock(p) \/ ReadToken(p) \/ ReadLease(p) \/ BreakLock(p)
    \/ Reopen(p) \/ WriteToken(p)
    \/ ReadRecord(p) \/ Recheck(p) \/ LinkRecord(p) \/ RenameRecord(p)
    \/ ReadBack(p) \/ RemoveLock(p)

Next ==
    \/ Age
    \/ \E p \in Proc :
         \/ \E op \in Calls : Begin(p, op)
         \/ Operate(p) \/ WriteTokenFails(p)
         \/ Die(p) \/ Lapse(p) \/ Beat(p)

Spec == Init /\ [][Next]_vars

\* Live processes go on, the control plane delivers the command again as
\* long as it is not answered, and time passes.
Fairness ==
    /\ WF_vars(Age)
    /\ \A p \in Proc :
         /\ WF_vars(Operate(p)) /\ WF_vars(Lapse(p)) /\ WF_vars(Begin(p, "claim"))

FairSpec == Spec /\ Fairness

-----------------------------------------------------------------------------
(* Properties.                                                             *)

\* The shape of the files and of the operations under way.
TypeOK ==
    /\ lock \in LockFile /\ (lock.by = NoProc => lock = NoLock)
    /\ record \in Record
    /\ pc \in [Proc -> Places] /\ call \in [Proc -> Calls]
    /\ seen \in [Proc -> Record] /\ gone \in [Proc -> SUBSET Proc]
    /\ holder \in [Proc -> Proc \cup {NoProc}]
    /\ handle \in [Proc -> Nat] /\ working \subseteq Proc
    /\ lapsed \subseteq Proc /\ submitted \in Nat

InSection(p) == pc[p] \in {"read", "recheck", "link", "rename"}

\* At most one process is between its token and its release: "the box-wide
\* journal serializes ownership with a per-command lock and a live process
\* lease".  A process that stood still past its lease loses its lock, and
\* two survivors of a third one can take each other's (see the next one).
SerializedOwnership ==
    stood = {} => \A p, q \in Proc : InSection(p) /\ InSection(q) => p = q

\* The work is handed over at most once, wherever a process died and its
\* lock was broken by age and lease, as long as no live one stood still.
HandedOverOnce == stood = {} => submitted <= 1

\* What the lock is for, as long as no live process stands still past its
\* lease: one process in the section, one hand-over of the work.
OwnershipInv == SerializedOwnership /\ HandedOverOnce

\* "The same ID and payload reports the existing state rather than executing
\* twice": the work is handed over at most once, whatever lock was broken.
AtMostOneSubmission == submitted <= 1

\* Where a process has a use for its token.
Using == {"read", "recheck", "link", "rename", "readback", "remove", "dead"}

\* A token at the lock's path is that of a process between writing and
\* removing it, or of a dead one: a live process that has returned leaves
\* none behind, also when its lock was broken and taken over (the finally
\* of withCommandLock), so no live lease ever guards a lock nobody uses.
NoTokenLeftBehind ==
    \A p \in Proc : lock.by = p /\ lock.written => pc[p] \in Using

\* A record on disk has a revision, and whoever is about to replace one has
\* read it.
RevisionsCount ==
    /\ record # NoRecord => record.revision > 0
    /\ \A p \in Proc : pc[p] = "rename" => seen[p].revision > 0

\* The lock file says who uses it, and records are counted from one.
LockInv == TypeOK /\ NoTokenLeftBehind /\ RevisionsCount

FirstRecordStands ==
    record # NoRecord /\ record' # record => record'.revision > 1

\* Two processes that both saw no record, one of them behind a broken lock,
\* publish one: the first revision is linked and never replaces a record.
NewNeverReplaces == [][FirstRecordStands]_vars

Abandoned(p) == lock.by = p /\ pc[p] = "dead"

\* A lock with the token of a dead process does not stay: its age and the
\* lapsed lease let the next delivery break it.
WrittenLockIsReclaimed ==
    \A p \in Proc : Abandoned(p) /\ lock.written ~> lock.by # p
=============================================================================
