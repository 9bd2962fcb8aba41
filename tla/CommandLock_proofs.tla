------------------------- MODULE CommandLock_proofs -------------------------
(***************************************************************************)
(* Proofs about CommandLock, for any set of processes, any of which may    *)
(* die or stand still, and any bounds: no live process leaves its token    *)
(* behind, and a new record never replaces one.  And for at most two       *)
(* processes, or as long as none died: one at a time uses the lock, and    *)
(* the work is handed over once.                                           *)
(***************************************************************************)
EXTENDS CommandLock, TLAPS

-----------------------------------------------------------------------------
(* The files.                                                              *)

LEMMA NoLockType == NoLock \in LockFile
BY DEF NoLock, LockFile

LEMMA NoRecordType == NoRecord \in Record /\ NoRecord.revision = 0
BY DEF NoRecord, Record, States

LEMMA NewLockType ==
    ASSUME NEW p \in Proc
    PROVE  [by |-> p, written |-> FALSE, old |-> FALSE] \in LockFile
BY DEF LockFile

\* A token is written to one's own lock and leaves any other alone.
LEMMA WrittenLock ==
    ASSUME TypeOK, NEW p \in Proc, WriteToken(p)
    PROVE  /\ lock' \in LockFile /\ (lock'.by = NoProc => lock' = NoLock)
           /\ \A q \in Proc : lock'.by = q /\ lock'.written
                => q = p \/ (lock.by = q /\ lock.written)
<1>1. CASE lock.by = p
  <2>1. lock' = [lock EXCEPT !.written = TRUE, !.old = FALSE]
    BY <1>1 DEF WriteToken
  <2>2. lock'.by = p /\ lock' \in LockFile
    BY <1>1, <2>1 DEF TypeOK, LockFile
  <2> QED
    BY <2>2, ProcAssumption
<1>2. CASE lock.by # p
  <2>1. lock' = lock
    BY <1>2 DEF WriteToken
  <2> QED
    BY <2>1 DEF TypeOK
<1> QED
  BY <1>1, <1>2

-----------------------------------------------------------------------------
(* Steps that take the lock or give it up.                                 *)

\* What a step may do to the lock of a process that moves from one place to
\* another, when the record is not touched.
LockStep(p, to) ==
    /\ pc' = [pc EXCEPT ![p] = to] /\ to \in Places
    /\ lock' \in LockFile /\ (lock'.by = NoProc => lock' = NoLock)
    /\ \A q \in Proc : lock'.by = q /\ lock'.written
         => (lock.by = q /\ lock.written) \/ (q = p /\ to \in Using)
    /\ lock'.by = p /\ lock'.written => to \in Using
    /\ to # "rename" /\ record' = record
    /\ call' \in [Proc -> Calls] /\ gone' \in [Proc -> SUBSET Proc]
    /\ holder' \in [Proc -> Proc \cup {NoProc}]
    /\ handle' \in [Proc -> Nat] /\ working' \subseteq Proc
    /\ lapsed' \subseteq Proc /\ submitted' \in Nat
    /\ seen' \in [Proc -> Record]
    /\ \A q \in Proc : q # p => seen'[q] = seen[q]

LEMMA LockStepKeeps ==
    ASSUME LockInv, NEW p \in Proc, NEW to, LockStep(p, to)
    PROVE  LockInv'
<1>1. TypeOK'
  BY DEF LockInv, TypeOK, LockStep
<1>2. NoTokenLeftBehind'
  BY DEF LockInv, TypeOK, NoTokenLeftBehind, LockStep
<1>3. RevisionsCount'
  BY DEF LockInv, TypeOK, RevisionsCount, LockStep
<1> QED
  BY <1>1, <1>2, <1>3 DEF LockInv

LEMMA CreateStep ==
    ASSUME TypeOK, NEW p \in Proc, CreateLock(p)
    PROVE  /\ lock' \in LockFile /\ (lock'.by = NoProc => lock' = NoLock)
           /\ \A q \in Proc : ~(lock'.by = q /\ lock'.written)
           /\ pc' = [pc EXCEPT ![p] = "write"]
BY NewLockType, ProcAssumption DEF CreateLock, Go

LEMMA BeginStep ==
    ASSUME LockInv, NEW p \in Proc, NEW op \in Calls, Begin(p, op)
    PROVE  \E to \in {"write", "stat"} : LockStep(p, to)
<1> USE DEF LockInv
<1>1. /\ call' \in [Proc -> Calls] /\ gone' \in [Proc -> SUBSET Proc]
      /\ lapsed' \subseteq Proc
  BY DEF Begin, TypeOK
<1>2. /\ UNCHANGED <<record, seen, holder, handle, working, submitted>>
      /\ pc[p] = "idle"
  BY DEF Begin
<1>3. CASE CreateLock(p)
  <2>1. LockStep(p, "write")
    BY <1>1, <1>2, <1>3, CreateStep DEF LockStep, TypeOK, Places, Using
  <2> QED
    BY <2>1
<1>4. CASE Locked /\ Go(p, "stat") /\ UNCHANGED lock
  <2>1. ~(lock.by = p /\ lock.written)
    BY <1>2 DEF NoTokenLeftBehind, Using
  <2>2. LockStep(p, "stat")
    BY <1>1, <1>2, <1>4, <2>1 DEF LockStep, TypeOK, Places, Using, Go
  <2> QED
    BY <2>2
<1> QED
  BY <1>3, <1>4 DEF Begin

\* A process without a token gives up.
LEMMA BusyStep ==
    ASSUME LockInv, NEW p \in Proc, Busy(p), pc[p] \notin Using
    PROVE  LockStep(p, "idle")
<1>1. ~(lock.by = p /\ lock.written)
  BY DEF LockInv, NoTokenLeftBehind
<1>2. handle' \in [Proc -> Nat] /\ working' \subseteq Proc
  BY DEF LockInv, TypeOK, Busy
<1> QED
  BY <1>1, <1>2 DEF LockInv, TypeOK, Busy, Go, LockStep, Places, Using

\* Steps towards breaking the lock: they look, and leave it alone.
LEMMA LookStep ==
    ASSUME LockInv, NEW p \in Proc,
           StatLock(p) \/ ReadToken(p) \/ ReadLease(p)
    PROVE  \E to \in {"idle", "token", "lease", "break"} : LockStep(p, to)
<1>1. pc[p] \notin Using /\ ~(lock.by = p /\ lock.written)
  BY DEF LockInv, NoTokenLeftBehind, Using, StatLock, ReadToken, ReadLease
<1>2. CASE Busy(p)
  BY <1>1, <1>2, BusyStep
<1>3. CASE ~Busy(p)
  <2>1. PICK to \in {"token", "lease", "break"} :
          Go(p, to) /\ UNCHANGED <<lock, call, gone>> /\ LockOnly
    BY <1>3 DEF StatLock, ReadToken, ReadLease
  <2>2. holder' \in [Proc -> Proc \cup {NoProc}]
    BY <1>3 DEF LockInv, TypeOK, LockFile, StatLock, ReadToken, ReadLease
  <2>3. LockStep(p, to)
    BY <1>1, <2>1, <2>2
       DEF LockInv, TypeOK, LockOnly, LockStep, Places, Using, Go
  <2> QED
    BY <2>3
<1> QED
  BY <1>2, <1>3

\* Breaking the lock, and creating one in its place.
LEMMA BreakStep ==
    ASSUME LockInv, NEW p \in Proc, BreakLock(p) \/ Reopen(p)
    PROVE  \E to \in {"idle", "reopen", "write"} : LockStep(p, to)
<1>1. pc[p] \notin Using
  BY DEF Using, BreakLock, Reopen
<1>2. CASE Busy(p)
  BY <1>1, <1>2, BusyStep
<1>3. CASE lock' = NoLock /\ Go(p, "reopen") /\ UNCHANGED local /\ LockOnly
  <2>1. \A q \in Proc : ~(lock'.by = q /\ lock'.written)
    BY <1>3 DEF NoLock
  <2>2. LockStep(p, "reopen")
    BY <1>3, <2>1, NoLockType
       DEF LockInv, TypeOK, LockOnly, LockStep, Places, Using, Go, local
  <2> QED
    BY <2>2
<1>4. CASE CreateLock(p) /\ UNCHANGED local /\ LockOnly
  <2>1. LockStep(p, "write")
    BY <1>4, CreateStep
       DEF LockInv, TypeOK, LockOnly, LockStep, Places, Using, local
  <2> QED
    BY <2>1
<1> QED
  BY <1>2, <1>3, <1>4 DEF BreakLock, Reopen

LEMMA WriteStep ==
    ASSUME LockInv, NEW p \in Proc, WriteToken(p)
    PROVE  \E to \in {"read", "recheck"} : LockStep(p, to)
<1> DEFINE to == IF call[p] = "claim" THEN "read" ELSE "recheck"
<1>1. [NoRecord EXCEPT !.revision = handle[p]] \in Record
  BY DEF LockInv, TypeOK, NoRecord, Record, States
<1>2. /\ seen' \in [Proc -> Record]
      /\ \A q \in Proc : q # p => seen'[q] = seen[q]
  BY <1>1 DEF LockInv, TypeOK, WriteToken
<1>3. /\ pc' = [pc EXCEPT ![p] = to] /\ to \in Places /\ to \in Using
      /\ to # "rename"
  BY DEF WriteToken, Go, Places, Using
<1>4. /\ lock' \in LockFile /\ (lock'.by = NoProc => lock' = NoLock)
      /\ \A q \in Proc : lock'.by = q /\ lock'.written
           => q = p \/ (lock.by = q /\ lock.written)
  BY WrittenLock DEF LockInv
<1>5. /\ record' = record /\ call' \in [Proc -> Calls]
      /\ gone' \in [Proc -> SUBSET Proc]
      /\ holder' \in [Proc -> Proc \cup {NoProc}]
      /\ handle' \in [Proc -> Nat] /\ working' \subseteq Proc
      /\ lapsed' \subseteq Proc /\ submitted' \in Nat
  BY DEF WriteToken, LockInv, TypeOK
<1> HIDE DEF to
<1>6. LockStep(p, to)
  BY <1>2, <1>3, <1>4, <1>5 DEF LockStep
<1> QED
  BY <1>3, <1>6 DEF Using, to

LEMMA WriteFailsStep ==
    ASSUME LockInv, NEW p \in Proc, WriteTokenFails(p)
    PROVE  LockStep(p, "idle")
BY BusyStep DEF WriteTokenFails, Using

\* Giving the lock back: the token is removed, or was not there any more.
LEMMA ReleaseStep ==
    ASSUME LockInv, NEW p \in Proc, ReadBack(p) \/ RemoveLock(p)
    PROVE  \E to \in {"idle", "remove"} : LockStep(p, to)
<1>1. Return(p) => submitted' \in Nat /\ working' \subseteq Proc
  BY DEF LockInv, TypeOK, Return
<1>2. CASE ReadBack(p) /\ ~OwnToken(p) /\ Return(p) /\ UNCHANGED lock
  <2>1. LockStep(p, "idle")
    BY <1>1, <1>2
       DEF LockInv, TypeOK, Return, OwnToken, LockStep, Places, Using, Go
  <2> QED
    BY <2>1
<1>3. CASE ReadBack(p) /\ OwnToken(p)
  <2>1. LockStep(p, "remove")
    BY <1>3
       DEF LockInv, TypeOK, ReadBack, LockOnly, LockStep, Places, Using, Go
  <2> QED
    BY <2>1
<1>4. CASE RemoveLock(p)
  <2>1. \A q \in Proc : ~(lock'.by = q /\ lock'.written)
    BY <1>4 DEF RemoveLock, NoLock
  <2>2. LockStep(p, "idle")
    BY <1>1, <1>4, <2>1, NoLockType
       DEF LockInv, TypeOK, RemoveLock, Return, LockStep, Places, Using, Go
  <2> QED
    BY <2>2
<1> QED
  BY <1>2, <1>3, <1>4 DEF ReadBack

-----------------------------------------------------------------------------
(* Steps in the section.                                                   *)

\* The lock stays while p goes from one place of the section to another.
LEMMA SectionKeepsTokens ==
    ASSUME LockInv, NEW p \in Proc, NEW to \in Using, Go(p, to),
           UNCHANGED lock
    PROVE  NoTokenLeftBehind'
BY DEF LockInv, TypeOK, NoTokenLeftBehind, Go

LEMMA FailType ==
    ASSUME TypeOK, NEW p \in Proc, Fail(p)
    PROVE  /\ handle' \in [Proc -> Nat] /\ working' \subseteq Proc
           /\ Go(p, "readback")
BY DEF TypeOK, Fail

LEMMA ReadRecordStep ==
    ASSUME LockInv, NEW p \in Proc, ReadRecord(p)
    PROVE  LockInv'
<1>1. PICK to \in {"link", "readback", "recheck"} : Go(p, to)
  BY DEF ReadRecord
<1>2. TypeOK'
  BY <1>1 DEF LockInv, TypeOK, ReadRecord, SectionOnly, Go, Places
<1>3. NoTokenLeftBehind'
  BY <1>1, SectionKeepsTokens DEF ReadRecord, SectionOnly, Using
<1>4. RevisionsCount'
  BY <1>1 DEF LockInv, TypeOK, RevisionsCount, ReadRecord, SectionOnly, Go
<1> QED
  BY <1>2, <1>3, <1>4 DEF LockInv

\* A record is replaced only by one that has read it.
LEMMA RecheckStep ==
    ASSUME LockInv, NEW p \in Proc, Recheck(p)
    PROVE  LockInv'
<1>1. /\ UNCHANGED <<record, seen>> /\ SectionOnly
      /\ handle' \in [Proc -> Nat] /\ working' \subseteq Proc
  BY FailType DEF LockInv, TypeOK, Recheck
<1>2. PICK to \in {"rename", "readback"} :
        /\ Go(p, to)
        /\ to = "rename" => record # NoRecord
                             /\ record.revision = seen[p].revision
  BY DEF Recheck, Fail, Unchanged
<1>3. TypeOK'
  BY <1>1, <1>2 DEF LockInv, TypeOK, SectionOnly, Go, Places
<1>4. NoTokenLeftBehind'
  BY <1>1, <1>2, SectionKeepsTokens DEF SectionOnly, Using
<1>5. RevisionsCount'
  BY <1>1, <1>2 DEF LockInv, TypeOK, RevisionsCount, SectionOnly, Go
<1> QED
  BY <1>3, <1>4, <1>5 DEF LockInv

LEMMA LinkStep ==
    ASSUME LockInv, NEW p \in Proc, LinkRecord(p)
    PROVE  LockInv'
<1>1. UNCHANGED seen /\ SectionOnly /\ Go(p, "readback")
  BY DEF LinkRecord, Fail
<1>2. /\ handle' \in [Proc -> Nat] /\ working' \subseteq Proc
      /\ record' \in Record
      /\ record' # NoRecord => record'.revision > 0
  BY FailType DEF LockInv, TypeOK, RevisionsCount, LinkRecord, Record, States
<1>3. TypeOK'
  BY <1>1, <1>2 DEF LockInv, TypeOK, SectionOnly, Go, Places
<1>4. NoTokenLeftBehind'
  BY <1>1, SectionKeepsTokens DEF SectionOnly, Using
<1>5. RevisionsCount'
  BY <1>1, <1>2 DEF LockInv, TypeOK, RevisionsCount, SectionOnly, Go
<1> QED
  BY <1>3, <1>4, <1>5 DEF LockInv

LEMMA RenameStep ==
    ASSUME LockInv, NEW p \in Proc, RenameRecord(p)
    PROVE  LockInv' /\ record'.revision > 1
<1>1. UNCHANGED seen /\ SectionOnly /\ Go(p, "readback")
  BY DEF RenameRecord
<1>2. /\ record' = [state |-> Target(p), revision |-> seen[p].revision + 1,
                    owner |-> p]
      /\ handle' = [handle EXCEPT ![p] = IF Target(p) \in Terminal THEN 0
                                         ELSE seen[p].revision + 1]
  BY DEF RenameRecord
<1>3. seen[p].revision \in Nat /\ seen[p].revision > 0
  BY DEF LockInv, TypeOK, Record, RevisionsCount, RenameRecord
<1>4. Target(p) \in States
  BY DEF LockInv, TypeOK, Calls, Target, States
<1>5. /\ handle' \in [Proc -> Nat] /\ working' \subseteq Proc
      /\ record' \in Record
      /\ record'.revision > 1 /\ record'.revision > 0
  BY <1>2, <1>3, <1>4 DEF LockInv, TypeOK, RenameRecord, Record
<1>6. TypeOK'
  BY <1>1, <1>5 DEF LockInv, TypeOK, SectionOnly, Go, Places
<1>7. NoTokenLeftBehind'
  BY <1>1, SectionKeepsTokens DEF SectionOnly, Using
<1>8. RevisionsCount'
  BY <1>1, <1>5 DEF LockInv, TypeOK, RevisionsCount, SectionOnly, Go
<1> QED
  BY <1>5, <1>6, <1>7, <1>8 DEF LockInv

-----------------------------------------------------------------------------
(* Time, leases and death.                                                 *)

LEMMA AgeStep == ASSUME LockInv, Age PROVE LockInv'
<1>1. lock' = [lock EXCEPT !.old = TRUE] /\ Locked
  BY DEF Age
<1>2. /\ lock' \in LockFile /\ lock'.by = lock.by
      /\ lock'.written = lock.written /\ lock.by # NoProc
  BY <1>1 DEF LockInv, TypeOK, LockFile, Locked
<1>3. UNCHANGED <<record, pc, local, handle, working, lapsed, submitted>>
  BY DEF Age
<1> QED
  BY <1>2, <1>3
     DEF LockInv, TypeOK, NoTokenLeftBehind, RevisionsCount, local

LEMMA DieStep == ASSUME LockInv, NEW p \in Proc, Die(p) PROVE LockInv'
<1>1. TypeOK'
  BY DEF LockInv, TypeOK, Die, Go, Places, local
<1>2. NoTokenLeftBehind'
  BY SectionKeepsTokens DEF Die, Using
<1>3. RevisionsCount'
  BY DEF LockInv, TypeOK, RevisionsCount, Die, Go, local
<1> QED
  BY <1>1, <1>2, <1>3 DEF LockInv

LEMMA LeaseStep ==
    ASSUME LockInv, NEW p \in Proc, Lapse(p) \/ Beat(p)
    PROVE  LockInv'
<1>1. UNCHANGED <<lock, record, pc, call, seen, holder, handle, working,
                  submitted>>
  BY DEF Lapse, Beat, local
<1>2. lapsed' \subseteq Proc /\ gone' \in [Proc -> SUBSET Proc]
  BY DEF LockInv, TypeOK, Lapse, Beat, Renewed, local
<1> QED
  BY <1>1, <1>2 DEF LockInv, TypeOK, NoTokenLeftBehind, RevisionsCount

-----------------------------------------------------------------------------
(* The theorems.                                                           *)

LEMMA InitInv == Init => LockInv
BY NoLockType, NoRecordType
   DEF Init, LockInv, TypeOK, NoTokenLeftBehind, RevisionsCount, Places,
       Calls, NoLock

LEMMA NextInv == LockInv /\ [Next]_vars => LockInv'
<1> SUFFICES ASSUME LockInv, [Next]_vars PROVE LockInv'
  OBVIOUS
<1>1. CASE Age
  BY <1>1, AgeStep
<1>2. ASSUME NEW p \in Proc, NEW op \in Calls, Begin(p, op) PROVE LockInv'
  BY <1>2, BeginStep, LockStepKeeps
<1>3. ASSUME NEW p \in Proc, Operate(p) PROVE LockInv'
  <2>1. CASE StatLock(p) \/ ReadToken(p) \/ ReadLease(p)
    BY <2>1, LookStep, LockStepKeeps
  <2>2. CASE BreakLock(p) \/ Reopen(p)
    BY <2>2, BreakStep, LockStepKeeps
  <2>3. CASE WriteToken(p)
    BY <2>3, WriteStep, LockStepKeeps
  <2>4. CASE ReadRecord(p)
    BY <2>4, ReadRecordStep
  <2>5. CASE Recheck(p)
    BY <2>5, RecheckStep
  <2>6. CASE LinkRecord(p)
    BY <2>6, LinkStep
  <2>7. CASE RenameRecord(p)
    BY <2>7, RenameStep
  <2>8. CASE ReadBack(p) \/ RemoveLock(p)
    BY <2>8, ReleaseStep, LockStepKeeps
  <2> QED
    BY <1>3, <2>1, <2>2, <2>3, <2>4, <2>5, <2>6, <2>7, <2>8 DEF Operate
<1>4. ASSUME NEW p \in Proc, WriteTokenFails(p) PROVE LockInv'
  BY <1>4, WriteFailsStep, LockStepKeeps
<1>5. ASSUME NEW p \in Proc, Die(p) PROVE LockInv'
  BY <1>5, DieStep
<1>6. ASSUME NEW p \in Proc, Lapse(p) \/ Beat(p) PROVE LockInv'
  BY <1>6, LeaseStep
<1>7. CASE UNCHANGED vars
  BY <1>7
     DEF LockInv, TypeOK, NoTokenLeftBehind, RevisionsCount, vars
<1> QED
  BY <1>1, <1>2, <1>3, <1>4, <1>5, <1>6, <1>7 DEF Next

\* The lock's token is always that of a process that uses it or of a dead
\* one, whatever was broken, removed by path or left half-written
\* (withCommandLock).
THEOREM TokensAreInUse == Spec => []LockInv
<1> QED
  BY InitInv, NextInv, PTL DEF Spec

LEMMA NextKeepsFirst == LockInv /\ [Next]_vars => [FirstRecordStands]_vars
<1> SUFFICES ASSUME LockInv, Next PROVE FirstRecordStands
  BY DEF vars
<1>1. CASE record' = record
  BY <1>1 DEF FirstRecordStands
<1>2. CASE record' # record
  <2>1. PICK p \in Proc : LinkRecord(p) \/ RenameRecord(p)
    BY <1>2
       DEF Next, Age, Begin, Operate, StatLock, ReadToken, ReadLease,
           BreakLock, Reopen, WriteToken, WriteTokenFails, ReadRecord,
           Recheck, ReadBack, RemoveLock, Return, Busy, LockOnly, Die, Lapse,
           Beat
  <2>2. CASE LinkRecord(p)
    BY <1>2, <2>2 DEF LinkRecord, FirstRecordStands
  <2>3. CASE RenameRecord(p)
    BY <2>3, RenameStep DEF FirstRecordStands
  <2> QED
    BY <2>1, <2>2, <2>3
<1> QED
  BY <1>1, <1>2

\* However many processes are in the section behind broken locks, the first
\* record of a command is linked and never replaces one (linkSync).
THEOREM FirstIsLinked == Spec => NewNeverReplaces
<1>1. Spec => []LockInv
  BY TokensAreInUse
<1>2. Spec => [][Next]_vars
  BY DEF Spec
<1> QED
  BY <1>1, <1>2, NextKeepsFirst, PTL DEF NewNeverReplaces

-----------------------------------------------------------------------------
(* One process under the lock.                                             *)

\* At most two processes share the box: the lock of a third one that died
\* is what two survivors can take from each other.
AtMostTwo == \A p, q, r \in Proc : p = q \/ q = r \/ p = r

AllLive == \A p \in Proc : pc[p] # "dead"

\* No two processes can take each other's lock.
Paired == AtMostTwo \/ AllLive

\* The places between creating the lock and giving it back.
Held == {"write", "read", "recheck", "link", "rename", "readback", "remove"}

\* The lock while no live process stood still: a lease that lapsed is that
\* of a dead process, a lock is broken only after a death, and until there
\* is one the lock is that of whoever is under it.
Leased ==
    /\ \A p \in Proc : p \in lapsed => pc[p] = "dead"
    /\ \A p \in Proc : pc[p] \in {"break", "reopen"} => ~AllLive
    /\ \A p \in Proc : AllLive /\ pc[p] \in Held => lock.by = p

\* A start has written its record and has still to return.
Handing(p) ==
    pc[p] \in {"readback", "remove"} /\ call[p] = "start" /\ handle[p] > 0

\* What a call knows of the record from its check on.
Knows(p) ==
    /\ pc[p] \in {"recheck", "rename"} =>
          IF call[p] = "claim" THEN seen[p] = record
                               ELSE seen[p].revision = handle[p]
    /\ pc[p] = "rename" =>
          /\ Unchanged(p) /\ record # NoRecord
          /\ TransitionAllowed(record.state, Target(p))

\* Whose handle is at the revision of a started record.
Started(p) ==
    /\ record.state = "started" /\ record.owner = p
    /\ record.revision = handle[p]

\* The work of a started record is handed over by the process that started
\* it, now or before, and once.
Accounts(p) ==
    /\ call[p] = "start" /\ pc[p] \notin {"idle", "dead"} => p \notin working
    /\ pc[p] \in {"read", "link"} => call[p] = "claim"
    /\ Knows(p)
    /\ Handing(p) => submitted = 0 /\ record.state = "started"
    /\ Started(p) /\ ~Handing(p) => p \in working

Counted ==
    /\ submitted <= 1
    /\ submitted > 0 => record.state \in {"started"} \cup Terminal

Orderly == Leased /\ Counted /\ \A p \in Proc : Accounts(p)

\* Inductive.
OwnedInv == LockInv /\ (stood = {} /\ Paired => Orderly)

\* Nobody but p moves.
Others(p) ==
    \A q \in Proc : q # p =>
        /\ pc'[q] = pc[q] /\ call'[q] = call[q] /\ seen'[q] = seen[q]
        /\ handle'[q] = handle[q] /\ (q \in working' <=> q \in working)

LEMMA StaysLeased ==
    ASSUME Leased, NEW p \in Proc, pc[p] # "dead", Others(p),
           lapsed' \subseteq lapsed,
           pc'[p] \in {"break", "reopen"} => ~AllLive,
           AllLive => \A q \in Proc : pc'[q] \in Held => lock'.by = q
    PROVE  Leased'
<1>1. AllLive' => AllLive
  BY DEF AllLive, Others
<1>2. \A q \in Proc : q \in lapsed' => pc'[q] = "dead"
  BY DEF Leased, Others
<1>3. \A q \in Proc : pc'[q] \in {"break", "reopen"} => ~AllLive
  BY DEF Leased, Others
<1> QED
  BY <1>1, <1>2, <1>3 DEF Leased

\* The lock keeps its creator and p stays under it or leaves it.
LEMMA SameCreator ==
    ASSUME Leased, NEW p \in Proc, pc[p] # "dead", Others(p),
           lapsed' \subseteq lapsed, lock'.by = lock.by,
           pc'[p] \in {"break", "reopen"} => ~AllLive,
           pc'[p] \in Held => pc[p] \in Held
    PROVE  Leased'
<1>1. AllLive => \A q \in Proc : pc'[q] \in Held => lock'.by = q
  BY DEF Leased, Others
<1> QED
  BY <1>1, StaysLeased

\* One process under the lock: two of at most two are all live.
LEMMA Exclusive ==
    ASSUME Paired, Leased, NEW p \in Proc, NEW q \in Proc,
           pc[p] \in Held, pc[q] \in Held
    PROVE  p = q
<1> SUFFICES ASSUME p # q PROVE FALSE
  OBVIOUS
<1>1. AllLive
  BY DEF Paired, AtMostTwo, AllLive, Held
<1> QED
  BY <1>1 DEF Leased

\* The accounts of a process that does not move.
LEMMA OthersAccount ==
    ASSUME NEW p \in Proc, NEW q \in Proc, q # p, Accounts(q), Others(p),
           \/ UNCHANGED <<record, submitted>>
           \/ pc[q] \notin Held /\ (record' = record \/ record'.owner # q)
    PROVE  Accounts(q)'
<1>1. /\ pc'[q] = pc[q] /\ call'[q] = call[q] /\ seen'[q] = seen[q]
      /\ handle'[q] = handle[q] /\ (q \in working' <=> q \in working)
  BY DEF Others
<1>2. Handing(q)' <=> Handing(q)
  BY <1>1 DEF Handing
<1>3. Target(q)' = Target(q)
  BY <1>1 DEF Target
<1>4. CASE UNCHANGED <<record, submitted>>
  <2>1. Knows(q)'
    BY <1>1, <1>3, <1>4 DEF Accounts, Knows, Unchanged
  <2>2. Started(q)' <=> Started(q)
    BY <1>1, <1>4 DEF Started
  <2> QED
    BY <1>1, <1>2, <1>4, <2>1, <2>2 DEF Accounts
<1>5. CASE pc[q] \notin Held /\ (record' = record \/ record'.owner # q)
  <2>1. Knows(q)' /\ ~Handing(q)
    BY <1>1, <1>5 DEF Knows, Held, Handing
  <2>2. Started(q)' => Started(q)
    BY <1>1, <1>5 DEF Started
  <2> QED
    BY <1>1, <1>2, <2>1, <2>2 DEF Accounts
<1> QED
  BY <1>4, <1>5

\* A started record has a revision, so a handle that is gone is not at it.
LEMMA NoHandle ==
    ASSUME LockInv, NEW p \in Proc, record' = record, handle'[p] = 0
    PROVE  ~Started(p)'
<1>1. Started(p)' => record # NoRecord
  BY DEF Started, NoRecord
<1> QED
  BY <1>1 DEF Started, LockInv, RevisionsCount

\* The accounts of p when it goes on, returns or dies and the record stays.
LEMMA OwnAccount ==
    ASSUME LockInv, NEW p \in Proc, Accounts(p), record' = record,
           pc'[p] \notin {"recheck", "rename"}, ~Handing(p)',
           pc'[p] \in {"read", "link"} => call'[p] = "claim",
           call'[p] = "start" /\ pc'[p] \notin {"idle", "dead"}
             => p \notin working',
           \/ handle'[p] = 0
           \/ /\ handle'[p] = handle[p] /\ (p \in working => p \in working')
              /\ Handing(p) => p \in working'
    PROVE  Accounts(p)'
<1>1. Knows(p)'
  BY DEF Knows
<1>2. Started(p)' => p \in working'
  <2>1. CASE handle'[p] = 0
    BY <2>1, NoHandle
  <2>2. CASE /\ handle'[p] = handle[p] /\ (p \in working => p \in working')
             /\ Handing(p) => p \in working'
    <3>1. Started(p)' => Started(p)
      BY <2>2 DEF Started
    <3> QED
      BY <2>2, <3>1 DEF Accounts
  <2> QED
    BY <2>1, <2>2
<1> QED
  BY <1>1, <1>2 DEF Accounts

\* p moves, the record and the count stay.
LEMMA QuietStep ==
    ASSUME Orderly, NEW p \in Proc, Others(p), Leased', Accounts(p)',
           UNCHANGED <<record, submitted>>
    PROVE  Orderly'
<1>1. \A q \in Proc : Accounts(q)'
  <2>1. SUFFICES ASSUME NEW q \in Proc, q # p PROVE Accounts(q)'
    OBVIOUS
  <2> QED
    BY <2>1, OthersAccount DEF Orderly
<1>2. Counted'
  BY DEF Orderly, Counted
<1> QED
  BY <1>1, <1>2 DEF Orderly

\* A call that gives up: nothing was handed over by it.
LEMMA BusyOrderly ==
    ASSUME LockInv, Orderly, NEW p \in Proc, Busy(p),
           pc[p] \notin {"dead", "readback", "remove"}
    PROVE  Orderly'
<1>1. /\ pc' = [pc EXCEPT ![p] = "idle"] /\ UNCHANGED <<lock, record, seen>>
      /\ UNCHANGED <<lapsed, submitted, call>>
      /\ handle' = [handle EXCEPT ![p] = IF call[p] = "claim" THEN @ ELSE 0]
      /\ working' = IF call[p] = "claim" THEN working ELSE working \ {p}
  BY DEF Busy, Go
<1>2. Others(p) /\ pc'[p] = "idle"
  BY <1>1 DEF Others, LockInv, TypeOK
<1>3. Leased'
  BY <1>1, <1>2, SameCreator DEF Orderly, Held
<1>4. ~Handing(p) /\ ~Handing(p)'
  BY <1>2 DEF Handing
<1>5. \/ handle'[p] = 0
      \/ handle'[p] = handle[p] /\ (p \in working => p \in working')
  BY <1>1 DEF LockInv, TypeOK
<1>6. Accounts(p)'
  BY <1>1, <1>2, <1>4, <1>5, OwnAccount DEF Orderly
<1> QED
  BY <1>1, <1>2, <1>3, <1>6, QuietStep

\* p goes on towards the lock and keeps what it has.
LEMMA AheadOrderly ==
    ASSUME LockInv, Orderly, NEW p \in Proc, NEW to,
           pc[p] \notin {"idle", "dead", "readback", "remove"},
           to \in {"token", "lease", "break", "reopen", "write"},
           pc' = [pc EXCEPT ![p] = to],
           UNCHANGED <<record, seen, handle, working, lapsed, submitted,
                       call>>,
           Leased'
    PROVE  Orderly'
<1>1. Others(p) /\ pc'[p] = to
  BY DEF Others, LockInv, TypeOK
<1>2. ~Handing(p) /\ ~Handing(p)'
  BY <1>1 DEF Handing
<1>3. /\ call'[p] = "start" /\ pc'[p] \notin {"idle", "dead"}
           => p \notin working'
  BY DEF Orderly, Accounts
<1>4. pc'[p] \notin {"recheck", "rename", "read", "link"}
  BY <1>1
<1>5. Accounts(p)'
  BY <1>2, <1>3, <1>4, OwnAccount DEF Orderly
<1> QED
  BY <1>1, <1>5, QuietStep

LEMMA BeginOrderly ==
    ASSUME LockInv, Orderly, NEW p \in Proc, NEW op \in Calls, Begin(p, op)
    PROVE  Orderly'
<1>1. /\ pc[p] = "idle" /\ call' = [call EXCEPT ![p] = op]
      /\ CanCall(p, op) /\ lapsed' \subseteq lapsed
      /\ UNCHANGED <<record, seen, handle, working, submitted>>
  BY DEF Begin
<1>2. PICK to \in {"write", "stat"} : pc' = [pc EXCEPT ![p] = to]
  BY DEF Begin, CreateLock, Go
<1>3. Others(p) /\ pc'[p] = to /\ call'[p] = op
  BY <1>1, <1>2 DEF Others, LockInv, TypeOK
<1>4. Leased'
  <2>1. CASE CreateLock(p)
    <3>1. lock'.by = p /\ lock = NoLock /\ NoLock.by \notin Proc
      BY <2>1, ProcAssumption DEF CreateLock, Locked, NoLock
    <3>2. AllLive => \A q \in Proc : pc[q] \notin Held
      BY <3>1 DEF Orderly, Leased
    <3>3. AllLive => \A q \in Proc : pc'[q] \in Held => lock'.by = q
      BY <1>3, <3>1, <3>2 DEF Others
    <3> QED
      BY <1>1, <1>3, <3>3, StaysLeased DEF Orderly
  <2>2. CASE Locked /\ Go(p, "stat") /\ UNCHANGED lock
    <3>1. pc'[p] = "stat"
      BY <2>2 DEF Go, LockInv, TypeOK
    <3> QED
      BY <1>1, <1>3, <2>2, <3>1, SameCreator DEF Orderly, Held
  <2> QED
    BY <2>1, <2>2 DEF Begin
<1>5. op = "start" => p \notin working
  BY <1>1 DEF CanCall
<1>6. ~Handing(p) /\ ~Handing(p)'
  BY <1>1, <1>3 DEF Handing
<1>7. Accounts(p)'
  BY <1>1, <1>3, <1>5, <1>6, OwnAccount DEF Orderly
<1> QED
  BY <1>1, <1>3, <1>4, <1>7, QuietStep

LEMMA LookOrderly ==
    ASSUME LockInv, Orderly, NEW p \in Proc,
           StatLock(p) \/ ReadToken(p) \/ ReadLease(p)
    PROVE  Orderly'
<1>1. pc[p] \in {"stat", "token", "lease"}
  BY DEF StatLock, ReadToken, ReadLease
<1>2. CASE Busy(p)
  BY <1>1, <1>2, BusyOrderly
<1>3. CASE ~Busy(p)
  <2>1. PICK to \in {"token", "lease", "break"} :
             /\ pc' = [pc EXCEPT ![p] = to]
             /\ to = "break" => holder[p] \in lapsed
    BY <1>3 DEF StatLock, ReadToken, ReadLease, Go
  <2>2. /\ UNCHANGED <<lock, record, seen, handle, working, lapsed, call>>
        /\ submitted' = submitted
    BY <1>3 DEF StatLock, ReadToken, ReadLease, LockOnly
  <2>3. to = "break" => ~AllLive
    <3>1. lapsed \subseteq Proc
      BY DEF LockInv, TypeOK
    <3> QED
      BY <2>1, <3>1 DEF Orderly, Leased, AllLive
  <2>4. Others(p) /\ pc'[p] = to
    BY <2>1, <2>2 DEF Others, LockInv, TypeOK
  <2>5. Leased'
    BY <1>1, <2>2, <2>3, <2>4, SameCreator DEF Orderly, Held
  <2> QED
    BY <1>1, <2>1, <2>2, <2>5, AheadOrderly
<1> QED
  BY <1>2, <1>3

LEMMA BreakOrderly ==
    ASSUME LockInv, Orderly, NEW p \in Proc, BreakLock(p) \/ Reopen(p)
    PROVE  Orderly'
<1>1. pc[p] \in {"break", "reopen"} /\ ~AllLive
  BY DEF BreakLock, Reopen, Orderly, Leased
<1>2. CASE Busy(p)
  BY <1>1, <1>2, BusyOrderly
<1>3. CASE ~Busy(p)
  <2>1. PICK to \in {"reopen", "write"} : pc' = [pc EXCEPT ![p] = to]
    BY <1>3 DEF BreakLock, Reopen, CreateLock, Go
  <2>2. UNCHANGED <<record, seen, handle, working, lapsed, submitted, call>>
    BY <1>3 DEF BreakLock, Reopen, LockOnly, local
  <2>3. Others(p) /\ pc'[p] = to
    BY <2>1, <2>2 DEF Others, LockInv, TypeOK
  <2>4. Leased'
    BY <1>1, <2>2, <2>3, StaysLeased DEF Orderly
  <2> QED
    BY <1>1, <2>1, <2>2, <2>4, AheadOrderly
<1> QED
  BY <1>2, <1>3

LEMMA WriteOrderly ==
    ASSUME LockInv, Orderly, NEW p \in Proc, WriteToken(p)
    PROVE  Orderly'
<1> DEFINE to == IF call[p] = "claim" THEN "read" ELSE "recheck"
<1>1. /\ pc[p] = "write" /\ pc' = [pc EXCEPT ![p] = to]
      /\ seen' = [seen EXCEPT ![p] = [NoRecord EXCEPT !.revision = handle[p]]]
      /\ UNCHANGED <<record, call, handle, working, lapsed, submitted>>
  BY DEF WriteToken, Go
<1>2. Others(p) /\ pc'[p] = to
  BY <1>1 DEF Others, LockInv, TypeOK
<1>3. lock'.by = lock.by
  <2>1. lock' = lock \/ lock' = [lock EXCEPT !.written = TRUE, !.old = FALSE]
    BY DEF WriteToken
  <2> QED
    BY <2>1 DEF LockInv, TypeOK, LockFile
<1>4. Leased'
  BY <1>1, <1>2, <1>3, SameCreator DEF Orderly, Held
<1>5. ~Handing(p) /\ ~Handing(p)'
  BY <1>1, <1>2 DEF Handing
<1>6. call[p] = "start" => p \notin working
  BY <1>1 DEF Orderly, Accounts
<1>7. CASE call[p] = "claim"
  <2>1. Accounts(p)'
    BY <1>1, <1>2, <1>5, <1>6, <1>7, OwnAccount DEF Orderly
  <2> QED
    BY <1>1, <1>2, <1>4, <2>1, QuietStep
<1>8. CASE call[p] # "claim"
  <2>1. seen'[p].revision = handle[p]
    BY <1>1 DEF LockInv, TypeOK, NoRecord
  <2>2. Knows(p)'
    BY <1>1, <1>2, <1>8, <2>1 DEF Knows
  <2>3. Started(p)' <=> Started(p)
    BY <1>1 DEF Started
  <2>4. Accounts(p)'
    BY <1>1, <1>2, <1>5, <1>6, <1>8, <2>2, <2>3 DEF Orderly, Accounts
  <2> QED
    BY <1>1, <1>2, <1>4, <2>4, QuietStep
<1> QED
  BY <1>7, <1>8

\* A step of the section that leaves the record alone.
LEMMA SectionLeased ==
    ASSUME LockInv, Orderly, NEW p \in Proc, pc[p] \in Held, Others(p),
           pc'[p] \in Held, UNCHANGED <<lock, lapsed>>
    PROVE  Leased'
BY SameCreator DEF Orderly, Held

LEMMA ReadOrderly ==
    ASSUME LockInv, Orderly, NEW p \in Proc, ReadRecord(p)
    PROVE  Orderly'
<1>1. /\ pc[p] = "read" /\ seen' = [seen EXCEPT ![p] = record]
      /\ UNCHANGED <<record, handle, working, lock, call, lapsed, submitted>>
  BY DEF ReadRecord, SectionOnly
<1>2. PICK to \in {"link", "readback", "recheck"} :
           pc' = [pc EXCEPT ![p] = to]
  BY DEF ReadRecord, Go
<1>3. Others(p) /\ pc'[p] = to
  BY <1>1, <1>2 DEF Others, LockInv, TypeOK
<1>4. Leased'
  BY <1>1, <1>3, SectionLeased DEF Held
<1>5. call[p] = "claim"
  BY <1>1 DEF Orderly, Accounts
<1>6. ~Handing(p) /\ ~Handing(p)'
  BY <1>1, <1>5 DEF Handing
<1>7. Accounts(p)'
  <2>1. Knows(p)'
    <3>1. seen'[p] = record'
      BY <1>1 DEF LockInv, TypeOK
    <3> QED
      BY <1>1, <1>3, <1>5, <3>1 DEF Knows
  <2>2. Started(p)' <=> Started(p)
    BY <1>1 DEF Started
  <2> QED
    BY <1>1, <1>5, <1>6, <2>1, <2>2 DEF Orderly, Accounts
<1> QED
  BY <1>1, <1>3, <1>4, <1>7, QuietStep

\* A call that throws in the section: nothing was handed over by it.
LEMMA FailOrderly ==
    ASSUME LockInv, Orderly, NEW p \in Proc, Fail(p),
           pc[p] \in {"recheck", "link"},
           UNCHANGED <<record, seen, lock, call, lapsed, submitted>>
    PROVE  Orderly'
<1>1. /\ pc' = [pc EXCEPT ![p] = "readback"]
      /\ handle' = [handle EXCEPT ![p] = IF call[p] = "claim" THEN @ ELSE 0]
      /\ working' = IF call[p] = "claim" THEN working ELSE working \ {p}
  BY DEF Fail, Go
<1>2. Others(p) /\ pc'[p] = "readback"
  BY <1>1 DEF Others, LockInv, TypeOK
<1>3. Leased'
  BY <1>2, SectionLeased DEF Held
<1>4. \/ handle'[p] = 0 /\ call[p] # "claim"
      \/ /\ handle'[p] = handle[p] /\ call[p] = "claim"
         /\ working' = working
  BY <1>1 DEF LockInv, TypeOK
<1>5. ~Handing(p) /\ ~Handing(p)'
  BY <1>4 DEF Handing
<1>6. call'[p] = "start" => p \notin working'
  BY <1>1
<1>7. Accounts(p)'
  BY <1>2, <1>4, <1>5, <1>6, OwnAccount DEF Orderly
<1> QED
  BY <1>2, <1>3, <1>7, QuietStep

LEMMA RecheckOrderly ==
    ASSUME LockInv, Orderly, NEW p \in Proc, Recheck(p)
    PROVE  Orderly'
<1>1. /\ pc[p] = "recheck"
      /\ UNCHANGED <<record, seen, lock, call, lapsed, submitted>>
  BY DEF Recheck, SectionOnly
<1>2. CASE Fail(p)
  BY <1>1, <1>2, FailOrderly
<1>3. CASE ~Fail(p)
  <2>1. /\ Unchanged(p) /\ record # NoRecord
        /\ TransitionAllowed(record.state, Target(p))
        /\ pc' = [pc EXCEPT ![p] = "rename"]
        /\ UNCHANGED <<handle, working>>
    BY <1>3 DEF Recheck, Go
  <2>2. Others(p) /\ pc'[p] = "rename"
    BY <1>1, <2>1 DEF Others, LockInv, TypeOK
  <2>3. Leased'
    BY <1>1, <2>2, SectionLeased DEF Held
  <2>4. Target(p)' = Target(p) /\ (Unchanged(p)' <=> Unchanged(p))
    BY <1>1 DEF Target, Unchanged
  <2>5. Knows(p)
    BY DEF Orderly, Accounts
  <2>6. Knows(p)'
    BY <1>1, <2>1, <2>2, <2>4, <2>5 DEF Knows
  <2>7. Started(p)' <=> Started(p)
    BY <1>1, <2>1 DEF Started
  <2>8. ~Handing(p) /\ ~Handing(p)'
    BY <1>1, <2>2 DEF Handing
  <2>9. Accounts(p)'
    BY <1>1, <2>1, <2>2, <2>6, <2>7, <2>8 DEF Orderly, Accounts
  <2> QED
    BY <1>1, <2>2, <2>3, <2>9, QuietStep
<1> QED
  BY <1>2, <1>3

\* p, under the lock, writes the record: no other is under it.
LEMMA RecordStep ==
    ASSUME Paired, LockInv, Orderly, NEW p \in Proc, pc[p] \in Held,
           Others(p), Leased', Counted', Accounts(p)',
           record' = record \/ record'.owner = p
    PROVE  Orderly'
<1>1. ASSUME NEW q \in Proc, q # p PROVE Accounts(q)'
  <2>1. pc[q] \notin Held
    BY <1>1, Exclusive DEF Orderly
  <2> QED
    BY <1>1, <2>1, OthersAccount DEF Orderly
<1> QED
  BY <1>1 DEF Orderly

LEMMA LinkOrderly ==
    ASSUME Paired, LockInv, Orderly, NEW p \in Proc, LinkRecord(p)
    PROVE  Orderly'
<1>1. /\ pc[p] = "link"
      /\ UNCHANGED <<seen, lock, call, lapsed, submitted>>
  BY DEF LinkRecord, SectionOnly
<1>2. CASE Fail(p) /\ UNCHANGED record
  BY <1>1, <1>2, FailOrderly
<1>3. CASE ~(Fail(p) /\ UNCHANGED record)
  <2>1. /\ record = NoRecord
        /\ record' = [state |-> "accepted", revision |-> 1, owner |-> p]
        /\ handle' = [handle EXCEPT ![p] = 1]
        /\ working' = working \ {p}
        /\ pc' = [pc EXCEPT ![p] = "readback"]
    BY <1>3 DEF LinkRecord, Go
  <2>2. Others(p) /\ pc'[p] = "readback"
    BY <1>1, <2>1 DEF Others, LockInv, TypeOK
  <2>3. Leased'
    BY <1>1, <2>2, SectionLeased DEF Held
  <2>4. record.state = "none" /\ record'.state = "accepted" /\ record'.owner = p
    BY <2>1 DEF NoRecord
  <2>5. Counted'
    BY <1>1, <2>4 DEF Orderly, Counted, Terminal, LockInv, TypeOK
  <2>6. call[p] = "claim"
    BY <1>1 DEF Orderly, Accounts
  <2>7. Accounts(p)'
    BY <1>1, <2>2, <2>4, <2>6 DEF Accounts, Knows, Handing, Started
  <2> QED
    BY <1>1, <2>2, <2>3, <2>4, <2>5, <2>7, RecordStep DEF Held
<1> QED
  BY <1>2, <1>3

LEMMA RenameOrderly ==
    ASSUME Paired, LockInv, Orderly, NEW p \in Proc, RenameRecord(p)
    PROVE  Orderly'
<1>1. /\ pc[p] = "rename" /\ pc' = [pc EXCEPT ![p] = "readback"]
      /\ UNCHANGED <<seen, lock, call, lapsed, submitted>>
  BY DEF RenameRecord, SectionOnly, Go
<1>2. /\ record' = [state |-> Target(p), revision |-> seen[p].revision + 1,
                    owner |-> p]
      /\ handle' = [handle EXCEPT ![p] = IF Target(p) \in Terminal THEN 0
                                         ELSE seen[p].revision + 1]
      /\ working' = IF call[p] = "claim" \/ Target(p) \in Terminal
                      THEN working \ {p} ELSE working
  BY DEF RenameRecord
<1>3. Others(p) /\ pc'[p] = "readback"
  BY <1>1, <1>2 DEF Others, LockInv, TypeOK
<1>4. Leased'
  BY <1>1, <1>3, SectionLeased DEF Held
<1>5. /\ Unchanged(p) /\ TransitionAllowed(record.state, Target(p))
      /\ call[p] = "claim" => seen[p] = record
      /\ call[p] # "claim" => seen[p].revision = handle[p]
      /\ call[p] = "start" => p \notin working
      /\ Started(p) => p \in working
  BY <1>1 DEF Orderly, Accounts, Knows, Handing
<1>6. record'.state = Target(p) /\ record'.owner = p
  BY <1>2
<1>7. call[p] \in Calls /\ submitted \in Nat
  BY DEF LockInv, TypeOK
<1>8. CASE call[p] = "claim"
  <2>1. record'.state = IF record.state = "started" THEN "uncertain"
                        ELSE "accepted"
    BY <1>5, <1>6, <1>8 DEF Target
  <2>2. record.state \in Terminal => Target(p) = record.state
    BY <1>5 DEF TransitionAllowed, Terminal
  <2>3. Counted'
    BY <1>1, <1>6, <2>1, <2>2 DEF Orderly, Counted, Terminal
  <2>4. Accounts(p)'
    BY <1>1, <1>3, <1>8, <2>1 DEF Accounts, Knows, Handing, Started
  <2> QED
    BY <1>1, <1>3, <1>4, <1>6, <2>3, <2>4, RecordStep DEF Held
<1>9. CASE call[p] = "start"
  <2>1. Target(p) = "started" /\ working' = working
    BY <1>2, <1>9 DEF Target, Terminal
  <2>2. record.owner = p /\ record.revision = handle[p]
    BY <1>5, <1>9 DEF Unchanged
  <2>3. submitted = 0
    <3>1. record.state # "started"
      BY <1>5, <1>9, <2>2 DEF Started
    <3>2. record.state = "accepted"
      BY <1>5, <2>1, <3>1 DEF TransitionAllowed
    <3>3. ~(submitted > 0)
      BY <3>2 DEF Orderly, Counted, Terminal
    <3> QED
      BY <1>7, <3>3
  <2>4. Counted'
    BY <1>1, <1>6, <2>1, <2>3 DEF Counted
  <2>5. Handing(p)'
    <3>1. handle'[p] = seen[p].revision + 1 /\ seen[p].revision \in Nat
      BY <1>2, <2>1 DEF Terminal, LockInv, TypeOK, Record
    <3> QED
      BY <1>1, <1>3, <1>9, <3>1 DEF Handing
  <2>6. Accounts(p)'
    BY <1>1, <1>3, <1>5, <1>6, <1>9, <2>1, <2>3, <2>5 DEF Accounts, Knows
  <2> QED
    BY <1>1, <1>3, <1>4, <1>6, <2>4, <2>6, RecordStep DEF Held
<1>10. CASE call[p] = "finish"
  <2>1. record'.state = "completed"
    BY <1>6, <1>10 DEF Target
  <2>2. Counted'
    BY <1>1, <2>1 DEF Orderly, Counted, Terminal
  <2>3. Accounts(p)'
    BY <1>1, <1>3, <1>10, <2>1 DEF Accounts, Knows, Handing, Started
  <2> QED
    BY <1>1, <1>3, <1>4, <1>6, <2>2, <2>3, RecordStep DEF Held
<1> QED
  BY <1>7, <1>8, <1>9, <1>10 DEF Calls

\* The call returns, after the lock was given back or found to be another's.
LEMMA ReturnOrderly ==
    ASSUME Paired, LockInv, Orderly, NEW p \in Proc, Return(p),
           pc[p] \in {"readback", "remove"}, Leased'
    PROVE  Orderly'
<1>1. /\ pc' = [pc EXCEPT ![p] = "idle"]
      /\ UNCHANGED <<record, seen, handle, lapsed, call>>
  BY DEF Return, Go
<1>2. IF Handing(p)
      THEN submitted' = submitted + 1 /\ working' = working \cup {p}
      ELSE UNCHANGED <<submitted, working>>
  BY DEF Return, Handing
<1>3. Others(p) /\ pc'[p] = "idle"
  BY <1>1, <1>2 DEF Others, LockInv, TypeOK
<1>4. Counted'
  <2>1. CASE Handing(p)
    <3>1. submitted = 0 /\ record.state = "started"
      BY <2>1 DEF Orderly, Accounts
    <3> QED
      BY <1>1, <1>2, <2>1, <3>1 DEF Counted
  <2>2. CASE ~Handing(p)
    BY <1>1, <1>2, <2>2 DEF Orderly, Counted
  <2> QED
    BY <2>1, <2>2
<1>5. ~Handing(p)' /\ handle'[p] = handle[p]
  BY <1>1, <1>3 DEF Handing
<1>6. Accounts(p)'
  BY <1>1, <1>2, <1>3, <1>5, OwnAccount DEF Orderly
<1> QED
  BY <1>1, <1>3, <1>4, <1>6, RecordStep DEF Held

LEMMA ReleaseOrderly ==
    ASSUME Paired, LockInv, Orderly, NEW p \in Proc,
           ReadBack(p) \/ RemoveLock(p)
    PROVE  Orderly'
<1>1. CASE ReadBack(p) /\ Return(p) /\ UNCHANGED lock
  <2>1. pc' = [pc EXCEPT ![p] = "idle"] /\ pc[p] = "readback"
        /\ UNCHANGED <<seen, handle, lapsed, call>>
        /\ (working' = working \/ working' = working \cup {p})
    BY <1>1 DEF ReadBack, Return, Go
  <2>2. Others(p) /\ pc'[p] = "idle"
    BY <2>1 DEF Others, LockInv, TypeOK
  <2>3. Leased'
    BY <1>1, <2>1, <2>2, SameCreator DEF Orderly, Held
  <2> QED
    BY <1>1, <2>1, <2>3, ReturnOrderly
<1>2. CASE ReadBack(p) /\ ~(Return(p) /\ UNCHANGED lock)
  <2>1. /\ pc[p] = "readback" /\ pc' = [pc EXCEPT ![p] = "remove"]
        /\ UNCHANGED <<lock, call, record, seen, handle, working, lapsed,
                       submitted>>
    BY <1>2 DEF ReadBack, Go, LockOnly
  <2>2. Others(p) /\ pc'[p] = "remove"
    BY <2>1 DEF Others, LockInv, TypeOK
  <2>3. Leased'
    BY <2>1, <2>2, SectionLeased DEF Held
  <2>4. (Handing(p)' <=> Handing(p)) /\ (Started(p)' <=> Started(p))
    BY <2>1, <2>2 DEF Handing, Started
  <2>5. Knows(p)'
    BY <2>2 DEF Knows
  <2>6. Accounts(p)'
    BY <2>1, <2>2, <2>4, <2>5 DEF Orderly, Accounts
  <2> QED
    BY <2>1, <2>2, <2>3, <2>6, QuietStep
<1>3. CASE RemoveLock(p)
  <2>1. pc' = [pc EXCEPT ![p] = "idle"] /\ pc[p] = "remove"
        /\ UNCHANGED <<seen, handle, lapsed, call>> /\ Return(p)
        /\ (working' = working \/ working' = working \cup {p})
    BY <1>3 DEF RemoveLock, Return, Go
  <2>2. Others(p) /\ pc'[p] = "idle"
    BY <2>1 DEF Others, LockInv, TypeOK
  <2>3. AllLive => \A q \in Proc : pc'[q] \notin Held
    <3>1. SUFFICES ASSUME AllLive, NEW q \in Proc, q # p, pc[q] \in Held
                   PROVE  FALSE
      BY <2>2 DEF Others, Held
    <3>2. lock.by = p /\ lock.by = q
      BY <2>1, <3>1 DEF Orderly, Leased, Held
    <3> QED
      BY <3>1, <3>2
  <2>4. Leased'
    BY <2>1, <2>2, <2>3, StaysLeased DEF Orderly
  <2> QED
    BY <2>1, <2>4, ReturnOrderly
<1> QED
  BY <1>1, <1>2, <1>3

LEMMA DieOrderly ==
    ASSUME LockInv, Orderly, NEW p \in Proc, Die(p)
    PROVE  Orderly'
<1>1. /\ pc[p] # "dead" /\ pc' = [pc EXCEPT ![p] = "dead"]
      /\ handle' = [handle EXCEPT ![p] = 0] /\ working' = working \ {p}
      /\ UNCHANGED <<lock, record, call, seen, lapsed, submitted>>
  BY DEF Die, Go, local
<1>2. Others(p) /\ pc'[p] = "dead" /\ handle'[p] = 0
  BY <1>1 DEF Others, LockInv, TypeOK
<1>3. Leased'
  BY <1>1, <1>2, SameCreator DEF Orderly, Held
<1>4. ~Handing(p)'
  BY <1>2 DEF Handing
<1>5. Accounts(p)'
  BY <1>1, <1>2, <1>4, OwnAccount DEF Orderly
<1> QED
  BY <1>1, <1>2, <1>3, <1>5, QuietStep

\* Nobody moves: the lock ages, a dead process's lease lapses, another's is
\* renewed.
LEMMA IdleOrderly ==
    ASSUME Orderly, lock'.by = lock.by,
           UNCHANGED <<record, pc, call, seen, handle, working, submitted>>,
           \A q \in Proc : q \in lapsed' => q \in lapsed \/ pc[q] = "dead"
    PROVE  Orderly'
<1>1. Leased'
  BY DEF Orderly, Leased, AllLive
<1>2. Counted'
  BY DEF Orderly, Counted
<1>3. ASSUME NEW q \in Proc PROVE Accounts(q)'
  <2>1. Target(q)' = Target(q) /\ (Unchanged(q)' <=> Unchanged(q))
    BY DEF Target, Unchanged
  <2>2. Knows(q)' <=> Knows(q)
    BY <2>1 DEF Knows
  <2>3. (Handing(q)' <=> Handing(q)) /\ (Started(q)' <=> Started(q))
    BY DEF Handing, Started
  <2> QED
    BY <2>2, <2>3 DEF Orderly, Accounts
<1> QED
  BY <1>1, <1>2, <1>3 DEF Orderly

LEMMA TimeOrderly ==
    ASSUME LockInv, Orderly, stood' = {},
           Age \/ \E p \in Proc : Lapse(p) \/ Beat(p)
    PROVE  Orderly'
<1>1. CASE Age
  <2>1. /\ lock' = [lock EXCEPT !.old = TRUE]
        /\ UNCHANGED <<record, pc, local, handle, working, lapsed, submitted>>
    BY <1>1 DEF Age
  <2>2. lock'.by = lock.by
    BY <2>1 DEF LockInv, TypeOK, LockFile
  <2> QED
    BY <2>1, <2>2, IdleOrderly DEF local
<1>2. ASSUME NEW p \in Proc, Lapse(p) PROVE Orderly'
  <2>1. /\ lapsed' = lapsed \cup {p} /\ pc[p] = "dead"
        /\ UNCHANGED <<lock, record, pc, local, handle, working, submitted>>
    BY <1>2 DEF Lapse
  <2> QED
    BY <2>1, IdleOrderly DEF local
<1>3. ASSUME NEW p \in Proc, Beat(p) PROVE Orderly'
  <2>1. /\ lapsed' = lapsed \ {p}
        /\ UNCHANGED <<lock, record, pc, call, seen, handle, working,
                       submitted>>
    BY <1>3 DEF Beat, Renewed
  <2> QED
    BY <2>1, IdleOrderly
<1> QED
  BY <1>1, <1>2, <1>3

LEMMA DeadStays ==
    ASSUME LockInv, Next, NEW q \in Proc, pc[q] = "dead"
    PROVE  pc'[q] = "dead"
<1>1. CASE pc' = pc
  BY <1>1
<1>2. CASE pc' # pc
  <2>1. PICK p \in Proc : \/ \E op \in Calls : Begin(p, op)
                         \/ Operate(p) \/ WriteTokenFails(p) \/ Die(p)
    BY <1>2 DEF Next, Age, Lapse, Beat
  <2>2. pc[p] # "dead"
    BY <2>1
       DEF Begin, Operate, StatLock, ReadToken, ReadLease, BreakLock,
           Reopen, WriteToken, WriteTokenFails, ReadRecord, Recheck,
           LinkRecord, RenameRecord, ReadBack, RemoveLock, Die
  <2>3. \E to : pc' = [pc EXCEPT ![p] = to]
    <3>1. CASE \/ \E op \in Calls : Begin(p, op)
               \/ WriteTokenFails(p) \/ Die(p)
      BY <3>1 DEF Begin, CreateLock, WriteTokenFails, Busy, Die, Go
    <3>2. CASE \/ StatLock(p) \/ ReadToken(p) \/ ReadLease(p)
               \/ BreakLock(p) \/ Reopen(p)
      BY <3>2 DEF StatLock, ReadToken, ReadLease, BreakLock, Reopen,
                  CreateLock, Busy, Go
    <3>3. CASE WriteToken(p) \/ ReadRecord(p) \/ RenameRecord(p)
      BY <3>3 DEF WriteToken, ReadRecord, RenameRecord, Go
    <3>4. CASE Recheck(p) \/ LinkRecord(p)
      BY <3>4 DEF Recheck, LinkRecord, Fail, Go
    <3>5. CASE ReadBack(p) \/ RemoveLock(p)
      BY <3>5 DEF ReadBack, RemoveLock, Return, Go
    <3> QED
      BY <2>1, <3>1, <3>2, <3>3, <3>4, <3>5 DEF Operate
  <2> QED
    BY <2>2, <2>3 DEF LockInv, TypeOK
<1> QED
  BY <1>1, <1>2

LEMMA NextOwned ==
    ASSUME OwnedInv, [Next]_vars
    PROVE  OwnedInv'
<1>1. LockInv /\ LockInv'
  BY NextInv DEF OwnedInv
<1> SUFFICES ASSUME stood' = {}, Paired' PROVE Orderly'
  BY <1>1 DEF OwnedInv
<1>2. stood = {}
  BY DEF Next, Age, Begin, Operate, StatLock, ReadToken, ReadLease,
         BreakLock, Reopen, WriteToken, WriteTokenFails, ReadRecord,
         Recheck, LinkRecord, RenameRecord, SectionOnly, ReadBack,
         RemoveLock, Return, Busy, LockOnly, Die, Lapse, Beat, vars
<1>3. Paired /\ Orderly
  <2>1. AllLive' => AllLive
    BY <1>1, DeadStays DEF AllLive, vars
  <2>2. Paired
    BY <2>1 DEF Paired
  <2> QED
    BY <1>2, <2>2 DEF OwnedInv
<1>4. CASE Age \/ \E p \in Proc : Lapse(p) \/ Beat(p)
  BY <1>1, <1>3, <1>4, TimeOrderly
<1>5. ASSUME NEW p \in Proc, NEW op \in Calls, Begin(p, op) PROVE Orderly'
  BY <1>1, <1>3, <1>5, BeginOrderly
<1>6. ASSUME NEW p \in Proc, Operate(p) PROVE Orderly'
  <2>1. CASE StatLock(p) \/ ReadToken(p) \/ ReadLease(p)
    BY <1>1, <1>3, <2>1, LookOrderly
  <2>2. CASE BreakLock(p) \/ Reopen(p)
    BY <1>1, <1>3, <2>2, BreakOrderly
  <2>3. CASE WriteToken(p)
    BY <1>1, <1>3, <2>3, WriteOrderly
  <2>4. CASE ReadRecord(p)
    BY <1>1, <1>3, <2>4, ReadOrderly
  <2>5. CASE Recheck(p)
    BY <1>1, <1>3, <2>5, RecheckOrderly
  <2>6. CASE LinkRecord(p)
    BY <1>1, <1>3, <2>6, LinkOrderly
  <2>7. CASE RenameRecord(p)
    BY <1>1, <1>3, <2>7, RenameOrderly
  <2>8. CASE ReadBack(p) \/ RemoveLock(p)
    BY <1>1, <1>3, <2>8, ReleaseOrderly
  <2> QED
    BY <1>6, <2>1, <2>2, <2>3, <2>4, <2>5, <2>6, <2>7, <2>8 DEF Operate
<1>7. ASSUME NEW p \in Proc, WriteTokenFails(p) PROVE Orderly'
  <2>1. Busy(p) /\ pc[p] = "write"
    BY <1>7 DEF WriteTokenFails
  <2> QED
    BY <1>1, <1>3, <2>1, BusyOrderly
<1>8. ASSUME NEW p \in Proc, Die(p) PROVE Orderly'
  BY <1>1, <1>3, <1>8, DieOrderly
<1>9. CASE UNCHANGED vars
  BY <1>3, <1>9, IdleOrderly DEF vars
<1> QED
  BY <1>4, <1>5, <1>6, <1>7, <1>8, <1>9 DEF Next

LEMMA InitOwned == Init => OwnedInv
<1> SUFFICES ASSUME Init PROVE OwnedInv
  OBVIOUS
<1>1. Leased
  BY DEF Init, Leased, Held
<1>2. Counted
  BY DEF Init, Counted
<1>3. record.state = "none"
  BY DEF Init, NoRecord
<1>4. \A p \in Proc : Accounts(p)
  BY <1>3 DEF Init, Accounts, Knows, Handing, Started
<1> QED
  BY <1>1, <1>2, <1>4, InitInv DEF OwnedInv, Orderly

LEMMA OwnedIsOwnership ==
    ASSUME OwnedInv, Paired
    PROVE  OwnershipInv
<1>1. SerializedOwnership
  BY Exclusive DEF OwnedInv, Orderly, SerializedOwnership, InSection, Held
<1>2. HandedOverOnce
  BY DEF OwnedInv, Orderly, Counted, HandedOverOnce
<1> QED
  BY <1>1, <1>2 DEF OwnershipInv

\* With at most two processes on the box, and while no live one stands still
\* past its lease, one process at a time is between its token and its
\* release and the work is handed over at most once, wherever a process dies
\* and whatever lock is broken (withCommandLock, claim, started, finish).
THEOREM TwoShareTheLock == AtMostTwo /\ Spec => []OwnershipInv
<1>1. OwnedInv /\ [Next]_vars => OwnedInv'
  BY NextOwned
<1>2. AtMostTwo /\ OwnedInv => OwnershipInv
  BY OwnedIsOwnership DEF Paired
<1>3. CASE AtMostTwo
  BY <1>1, <1>2, <1>3, InitOwned, PTL DEF Spec
<1>4. CASE ~AtMostTwo
  BY <1>4
<1> QED
  BY <1>3, <1>4

\* However many processes share the box, the same holds until one of them
\* dies: while nobody stands still, only after a death is any lock broken,
\* so only then can two live ones come under one (the check of the token
\* and rmSync are not one step).
THEOREM LiveOnesShareTheLock == Spec => [](AllLive => OwnershipInv)
<1>1. OwnedInv /\ [Next]_vars => OwnedInv'
  BY NextOwned
<1>2. OwnedInv => (AllLive => OwnershipInv)
  BY OwnedIsOwnership DEF Paired
<1> QED
  BY <1>1, <1>2, InitOwned, PTL DEF Spec
=============================================================================
