----------------------- MODULE DurableDelivery_proofs -----------------------
(***************************************************************************)
(* Proofs about DurableDelivery, for any set of prompts, retries and       *)
(* processes and any bounds: its types, that no prompt is handed to the    *)
(* provider twice, that rows only move forward, that every account of a    *)
(* command is backed by what happened to it, and that the protocol         *)
(* implements AtMostOnceDelivery.                                          *)
(***************************************************************************)
EXTENDS DurableDelivery, FiniteSetTheorems, TLAPS

-----------------------------------------------------------------------------
(* Types.  First the rows the outbox writes.                               *)

LEMMA StagedType == ASSUME now \in Nat PROVE Staged \in Row
BY OutboxAssumption DEF Staged, Row, RowStates, OutboxActive, Codes

LEMMA EndedType ==
    ASSUME now \in Nat, NEW row \in Row, NEW code \in Codes
    PROVE  Ended(row, code) \in Row
BY OutboxAssumption DEF Ended, EndedState, Row, RowStates, Terminal

LEMMA DismissedType ==
    ASSUME now \in Nat, NEW row \in Row
    PROVE  Dismissed(row) \in Row
BY OutboxAssumption DEF Dismissed, Row

LEMMA AppliedType ==
    ASSUME now \in Nat, NEW row \in Row, NEW m \in Receipt
    PROVE  Applied(row, m) \in Row
BY OutboxAssumption
   DEF Applied, RetentionOf, Row, Receipt, RowStates, RunnerStates,
       OutboxActive, Terminal, Codes

LEMMA MaintainedType ==
    ASSUME now \in Nat, NEW row \in Row
    PROVE  Maintained(row) \in Row
BY EndedType
   DEF Maintained, EmptyRow, Row, RowStates, OutboxActive, Terminal, Codes

LEMMA RecordType ==
    ASSUME NEW p \in Proc, NEW c \in Command, NEW to \in RunnerStates,
           NEW code \in Codes, NEW userEvent \in BOOLEAN,
           NEW steering \in BOOLEAN, records \in [Command -> Record]
    PROVE  Next_(p, c, to, code, userEvent, steering) \in Record
BY DEF Next_, Record

-----------------------------------------------------------------------------
(* Types: the journal's operations.                                        *)

LEMMA HoldType ==
    ASSUME JournalTypeOK, NEW p \in Proc, NEW c \in Command,
           NEW revision \in Nat, Hold(p, c, revision)
    PROVE  handles' \in [Proc -> [Command -> Nat]]
BY DEF JournalTypeOK, Hold

LEMMA WriteType ==
    ASSUME JournalTypeOK, NEW c \in Command, NEW rec \in Record
    PROVE  [records EXCEPT ![c] = rec] \in [Command -> Record]
BY DEF JournalTypeOK

LEMMA RevisionType ==
    ASSUME JournalTypeOK, NEW c \in Command
    PROVE  records[c] \in Record /\ records[c].revision + 1 \in Nat
BY DEF JournalTypeOK, Record

LEMMA AdvanceType ==
    ASSUME JournalTypeOK, NEW p \in Proc, NEW c \in Command,
           NEW to \in RunnerStates, NEW code \in Codes,
           NEW userEvent \in BOOLEAN, NEW steering \in BOOLEAN,
           Advance(p, c, to, code, userEvent, steering)
    PROVE  JournalTypeOK'
<1>1. Next_(p, c, to, code, userEvent, steering) \in Record
  BY RecordType DEF JournalTypeOK
<1>2. records' \in [Command -> Record]
  BY <1>1, WriteType DEF Advance
<1>3. handles' \in [Proc -> [Command -> Nat]]
  BY HoldType, RevisionType DEF Advance
<1> QED
  BY <1>2, <1>3 DEF Advance, JournalTypeOK

LEMMA SettleType ==
    ASSUME JournalTypeOK, NEW p \in Proc, NEW c \in Command,
           NEW to, NEW code \in Codes,
           Settle(p, c, to, code) \/ SettleThrows(p, c, to, code)
    PROVE  JournalTypeOK'
<1>1. to \in RunnerStates
  BY DEF Settle, SettleThrows, RunnerStates
<1>2. records[c].steering \in BOOLEAN
  BY DEF JournalTypeOK, Record
<1>3. Next_(p, c, to, code, FALSE, records[c].steering) \in Record
  BY <1>1, <1>2, RecordType DEF JournalTypeOK
<1>4. records' \in [Command -> Record]
  BY <1>3, WriteType DEF Settle, SettleThrows, JournalTypeOK
<1>5. handles' \in [Proc -> [Command -> Nat]]
  BY HoldType DEF Settle, SettleThrows
<1> QED
  BY <1>4, <1>5 DEF Settle, SettleThrows, JournalTypeOK

LEMMA ThrowType ==
    ASSUME JournalTypeOK, NEW p \in Proc, NEW c \in Command,
           NEW to \in RunnerStates, NEW userEvent \in BOOLEAN,
           Throw(p, c, to, userEvent, FALSE)
    PROVE  JournalTypeOK'
<1>1. records[c].steering \in BOOLEAN
  BY DEF JournalTypeOK, Record
<1>2. Next_(p, c, to, "none", userEvent, FALSE) \in Record
  BY RecordType DEF JournalTypeOK, Codes
<1>3. Next_(p, c, "failed", "other", FALSE, records[c].steering) \in Record
  BY <1>1, RecordType DEF JournalTypeOK, Codes, RunnerStates, Terminal
<1>4. records' \in [Command -> Record]
  BY <1>2, <1>3, WriteType DEF Throw, JournalTypeOK
<1>5. handles' \in [Proc -> [Command -> Nat]]
  BY HoldType DEF Throw
<1> QED
  BY <1>4, <1>5 DEF Throw, JournalTypeOK

LEMMA RoomType ==
    ASSUME JournalTypeOK
    PROVE  Pruned \in [Command -> Record] /\ AfterRoom \in [Command -> Record]
<1>1. NoRecord \in Record
  BY DEF NoRecord, Record, Codes
<1> QED
  BY <1>1 DEF Pruned, AfterRoom, JournalTypeOK

\* What claim() writes is a table of records.
LEMMA ClaimWrites ==
    ASSUME JournalTypeOK, NEW p \in Proc, NEW c \in Command,
           NEW expiry \in Nat,
           Accept(p, c, expiry) \/ Reclaim(p, c) \/ Lose(p, c)
    PROVE  records' \in [Command -> Record]
<1>1. CASE Accept(p, c, expiry)
  BY <1>1, RoomType DEF Accept, Accepted, Record, RunnerStates, Codes
<1>2. records[c].steering \in BOOLEAN
  BY DEF JournalTypeOK, Record
<1>3. CASE Reclaim(p, c)
  <2>1. Next_(p, c, "accepted", "none", FALSE, records[c].steering) \in Record
    BY <1>2, RecordType DEF JournalTypeOK, Codes, RunnerStates
  <2> QED
    BY <1>3, <2>1, WriteType DEF Reclaim
<1>4. CASE Lose(p, c)
  <2>1. Next_(p, c, "uncertain", "none", FALSE, records[c].steering) \in Record
    BY <1>2, RecordType DEF JournalTypeOK, Codes, RunnerStates, Terminal
  <2> QED
    BY <1>4, <2>1, WriteType DEF Lose
<1> QED
  BY <1>1, <1>3, <1>4

LEMMA ClaimType ==
    ASSUME JournalTypeOK, NEW p \in Proc, NEW c \in Command,
           NEW expiry \in Nat,
           \/ ClaimNew(p, c, expiry) \/ ClaimFull(p, c, expiry)
           \/ ClaimReclaim(p, c, expiry) \/ ClaimLost(p, c, expiry)
           \/ ClaimDuplicate(p, c, expiry) \/ ClaimThrows(p, c, expiry)
    PROVE  JournalTypeOK'
<1>1. lapsed' \subseteq Proc /\ proc' = proc
  BY DEF JournalTypeOK, Heartbeat, ClaimNew, ClaimFull, ClaimReclaim,
         ClaimLost, ClaimDuplicate, ClaimThrows
<1>2. records' \in [Command -> Record]
  BY ClaimWrites, RoomType
     DEF ClaimNew, ClaimFull, ClaimReclaim, ClaimLost, ClaimDuplicate,
         ClaimThrows, JournalTypeOK
<1>3. handles' \in [Proc -> [Command -> Nat]]
  BY HoldType, RevisionType
     DEF ClaimNew, ClaimFull, ClaimReclaim, ClaimLost, ClaimDuplicate,
         ClaimThrows, JournalTypeOK
<1> QED
  BY <1>1, <1>2, <1>3 DEF JournalTypeOK

LEMMA ProcessType ==
    ASSUME JournalTypeOK, NEW p \in Proc, Open(p) \/ Die(p) \/ Lapse(p)
    PROVE  JournalTypeOK'
<1>1. CASE Open(p)
  BY <1>1, RoomType DEF Open, Heartbeat, JournalTypeOK
<1>2. CASE Die(p)
  BY <1>2 DEF Die, JournalTypeOK
<1>3. CASE Lapse(p)
  BY <1>3 DEF Lapse, JournalTypeOK
<1> QED
  BY <1>1, <1>2, <1>3

-----------------------------------------------------------------------------
(* Types: the frames.                                                      *)

LEMMA FrameType ==
    ASSUME NEW c \in Command, NEW rec \in Record, rec.state # "none"
    PROVE  Update(c, rec) \in Receipt /\ Result(c, rec) \in Receipt
<1>1. WireState(rec) \in RunnerStates
  BY DEF WireState, Record, RunnerStates
<1> QED
  BY <1>1 DEF Update, Result, Receipt, Record

LEMMA RefusedType ==
    ASSUME NEW c \in Command
    PROVE  Refused(c) \in Receipt
BY DEF Refused, Receipt, RunnerStates, Terminal, Codes

LEMMA SendUpType ==
    ASSUME up \in Seq(Receipt), buffered \in Seq(Receipt),
           NEW m \in Receipt, SendUp(m)
    PROVE  up' \in Seq(Receipt) /\ buffered' \in Seq(Receipt)
BY DEF SendUp

LEMMA TakenType ==
    ASSUME down \in Seq(DownFrame), down # <<>>
    PROVE  Tail(down) \in Seq(DownFrame) /\ Head(down) \in DownFrame
OBVIOUS

LEMMA SameJournal ==
    ASSUME JournalTypeOK, UNCHANGED journalVars
    PROVE  JournalTypeOK'
BY DEF JournalTypeOK, journalVars

\* What a step of a prompt in hand leaves to be shown.
LEMMA TurnType ==
    ASSUME TypeOK, turn' \in [Command -> Phases], Still, RunnerOnly,
           JournalTypeOK', up' \in Seq(Receipt), buffered' \in Seq(Receipt),
           userLog' \subseteq Command, UNCHANGED halted,
           delivered' \in [Command -> Nat]
    PROVE  TypeOK'
<1>1. OutboxTypeOK'
  BY DEF TypeOK, RunnerOnly, OutboxTypeOK, outboxVars
<1> QED
  BY <1>1 DEF TypeOK, RunnerOnly, Still

LEMMA FinishType ==
    ASSUME TypeOK, runner \in Proc, NEW c \in Command, NEW from, NEW to,
           NEW code \in Codes, Finish(c, from, to, code)
    PROVE  TypeOK'
<1>1. JournalTypeOK'
  BY SettleType DEF Finish, TypeOK
<1>2. up' \in Seq(Receipt) /\ buffered' \in Seq(Receipt)
  <2>1. CASE Settle(runner, c, to, code) /\ SendUp(Update(c, records'[c]))
    <3>1. records'[c] \in Record /\ records'[c].state # "none"
      BY <1>1, <2>1 DEF Settle, Next_, JournalTypeOK, TypeOK, Terminal
    <3> QED
      BY <2>1, <3>1, FrameType, SendUpType DEF TypeOK
  <2>2. CASE UNCHANGED <<up, buffered>>
    BY <2>2 DEF TypeOK
  <2> QED
    BY <2>1, <2>2 DEF Finish
<1>3. Still /\ RunnerOnly /\ UNCHANGED <<userLog, halted, delivered>>
  BY DEF Finish
<1>4. turn' \in [Command -> Phases]
  BY DEF Finish, Turn, TypeOK, Phases
<1> QED
  BY <1>1, <1>2, <1>3, <1>4, TurnType DEF TypeOK

LEMMA ThrownType ==
    ASSUME TypeOK, runner \in Proc, NEW c \in Command, NEW from,
           NEW to \in RunnerStates, NEW userEvent \in BOOLEAN,
           Thrown(c, from, to, userEvent)
    PROVE  TypeOK'
<1>1. JournalTypeOK'
  BY ThrowType DEF Thrown, TypeOK
<1>2. up' \in Seq(Receipt) /\ buffered' \in Seq(Receipt)
  <2>1. CASE records'[c].state = "failed" /\ SendUp(Update(c, records'[c]))
    <3>1. records'[c] \in Record
      BY <1>1 DEF JournalTypeOK
    <3> QED
      BY <2>1, <3>1, FrameType, SendUpType DEF TypeOK
  <2>2. CASE UNCHANGED <<up, buffered>>
    BY <2>2 DEF TypeOK
  <2> QED
    BY <2>1, <2>2 DEF Thrown
<1>3. Still /\ RunnerOnly /\ UNCHANGED <<userLog, halted, delivered>>
  BY DEF Thrown
<1>4. turn' \in [Command -> Phases]
  BY DEF Thrown, Turn, TypeOK, Phases
<1> QED
  BY <1>1, <1>2, <1>3, <1>4, TurnType DEF TypeOK

LEMMA SessionStepType ==
    ASSUME TypeOK, runner \in Proc, NEW c \in Command, SessionStep(c)
    PROVE  TypeOK'
<1>0. c \in Command /\ OutboxTypeOK /\ JournalTypeOK
  BY DEF TypeOK
<1>1. CASE \/ AdmitReplay(c) \/ RefuseAdmission(c) \/ FailPreparing(c)
           \/ RejectQueued(c) \/ CancelStarted(c) \/ EndTurn(c)
  BY <1>1, FinishType
     DEF AdmitReplay, RefuseAdmission, FailPreparing, RejectQueued,
         CancelStarted, EndTurn, Codes
<1>2. CASE AdmitThrows(c) \/ MarkStartedThrows(c)
  BY <1>2, ThrownType DEF AdmitThrows, MarkStartedThrows, RunnerStates
<1>3. CASE Admit(c) \/ RetainForSignIn(c) \/ MarkStarted(c)
  <2>1. /\ JournalTypeOK'
        /\ records'[c].state # "none"
    <3>1. records[c].steering \in BOOLEAN
      BY <1>0 DEF JournalTypeOK, Record
    <3>2. CASE Admit(c) \/ RetainForSignIn(c)
      <4>1. PICK code \in Codes :
               Advance(runner, c, "queued", code, FALSE, records[c].steering)
        BY <3>2 DEF Admit, RetainForSignIn, Queued, Codes
      <4>2. "queued" \in RunnerStates /\ FALSE \in BOOLEAN
        BY DEF RunnerStates
      <4>3. JournalTypeOK'
        BY <1>0, <3>1, <4>1, <4>2, AdvanceType
      <4>4. records'[c].state = "queued"
        BY <1>0, <4>1 DEF Advance, Next_, JournalTypeOK
      <4> QED
        BY <4>3, <4>4
    <3>3. CASE MarkStarted(c)
      <4>1. Advance(runner, c, "started", "none", TRUE, FALSE)
        BY <3>3 DEF MarkStarted, Started
      <4> QED
        BY <1>0, <4>1, AdvanceType
           DEF RunnerStates, Codes, Advance, Next_, JournalTypeOK
    <3> QED
      BY <1>3, <3>2, <3>3
  <2>2. Update(c, records'[c]) \in Receipt
    BY <2>1, FrameType DEF JournalTypeOK
  <2>3. up' \in Seq(Receipt) /\ buffered' \in Seq(Receipt)
    BY <1>3, <2>2, SendUpType DEF Admit, RetainForSignIn, MarkStarted, TypeOK
  <2>4. turn' \in [Command -> Phases]
    BY <1>3
       DEF Admit, RetainForSignIn, MarkStarted, Turn, TypeOK, Phases
  <2>5. Still /\ RunnerOnly /\ UNCHANGED <<userLog, halted, delivered>>
    BY <1>3 DEF Admit, RetainForSignIn, MarkStarted
  <2> QED
    BY <2>1, <2>3, <2>4, <2>5, TurnType DEF TypeOK
<1>4. CASE \/ BeginTurn(c) \/ PublishUserEvent(c) \/ Submit(c)
           \/ AbandonTurn(c)
  <2>1. JournalTypeOK'
    BY <1>0, <1>4, SameJournal
       DEF BeginTurn, PublishUserEvent, Submit, AbandonTurn
  <2>2. turn' \in [Command -> Phases]
    BY <1>4 DEF BeginTurn, PublishUserEvent, Submit, AbandonTurn, Turn,
                TypeOK, Phases
  <2>3. userLog' \subseteq Command /\ delivered' \in [Command -> Nat]
    BY <1>4
       DEF BeginTurn, PublishUserEvent, Submit, AbandonTurn, TypeOK
  <2>4. Still /\ RunnerOnly /\ UNCHANGED <<up, buffered, halted>>
    BY <1>4 DEF BeginTurn, PublishUserEvent, Submit, AbandonTurn
  <2> QED
    BY <2>1, <2>2, <2>3, <2>4, TurnType DEF TypeOK
<1> QED
  BY <1>1, <1>2, <1>3, <1>4 DEF SessionStep

LEMMA AnswerType ==
    ASSUME TypeOK, AnswerCommand
    PROVE  TypeOK'
<1>1. /\ runner \in Proc
      /\ Head(down) \in DownFrame /\ Head(down).type = "command"
      /\ down' \in Seq(DownFrame)
  BY TakenType DEF AnswerCommand, IsFrame, Taken, TypeOK
<1>2. Head(down).c \in Command /\ Head(down).expiresAt \in Nat
  BY <1>1 DEF DownFrame
<1>3. PICK c \in Command :
        /\ c = Head(down).c
        /\ \/ Claimed(c) \/ AnsweredFromJournal(c)
           \/ JournalFull(c) \/ ExpiredInFlight(c)
  BY <1>2 DEF AnswerCommand
<1>4. /\ UNCHANGED <<online, republish, userLog, halted, delivered>>
      /\ RunnerOnly
  BY <1>3 DEF AnswerCommand, Taken, Claimed, AnsweredFromJournal,
              JournalFull, ExpiredInFlight, sessionVars
<1>5. OutboxTypeOK'
  BY <1>4 DEF TypeOK, RunnerOnly, OutboxTypeOK, outboxVars
<1>6. JournalTypeOK'
  BY <1>1, <1>2, <1>3, ClaimType, SameJournal
     DEF Claimed, AnsweredFromJournal, JournalFull, ExpiredInFlight, TypeOK
<1>7. turn' \in [Command -> Phases]
  BY <1>3 DEF Claimed, AnsweredFromJournal, JournalFull, ExpiredInFlight,
              sessionVars, TypeOK, Phases
<1>8. PICK m \in Receipt : SendUp(m)
  <2>1. CASE Claimed(c) \/ AnsweredFromJournal(c)
    <3>1. records'[c] \in Record
      BY <1>6 DEF JournalTypeOK
    <3>2. records'[c].state # "none"
      BY <2>1 DEF Claimed, AnsweredFromJournal, ClaimNew, ClaimReclaim,
                  ClaimLost, ClaimDuplicate, Accept, Accepted, Reclaim, Lose,
                  Next_, Stored, TypeOK,
                  JournalTypeOK, AfterRoom, Pruned
    <3> QED
      BY <2>1, <3>1, <3>2, FrameType DEF Claimed, AnsweredFromJournal
  <2>2. CASE JournalFull(c) \/ ExpiredInFlight(c)
    BY <2>2, RefusedType DEF JournalFull, ExpiredInFlight
  <2> QED
    BY <1>3, <2>1, <2>2
<1>9. up' \in Seq(Receipt) /\ buffered' \in Seq(Receipt)
  BY <1>8, SendUpType DEF TypeOK
<1> QED
  BY <1>1, <1>4, <1>5, <1>6, <1>7, <1>9 DEF TypeOK, RunnerOnly

LEMMA FiniteCommand == IsFiniteSet(Command)
<1>1. IsFiniteSet(0..MaxRetry)
  BY OutboxAssumption, FS_Interval
<1> QED
  BY <1>1, OutboxAssumption, FS_Product

LEMMA StopType ==
    ASSUME TypeOK, ReceiveStop
    PROVE  TypeOK'
<1>1. runner \in Proc /\ down' \in Seq(DownFrame)
  BY TakenType DEF ReceiveStop, IsFrame, Taken, TypeOK
<1> DEFINE queue == {c \in Command : turn[c] \in {"held", "queued"}}
           Failed(c) == Next_(runner, c, "failed",
                              IF turn[c] = "held" THEN "retryable" ELSE "other",
                              FALSE, FALSE)
<1> DEFINE Rejects(settled, told) ==
        /\ records' = [c \in Command |->
              IF c \in settled THEN Failed(c) ELSE records[c]]
        /\ \E order \in SetToSeqs(told) :
              up' = up \o [n \in DOMAIN order |->
                              Update(order[n], records'[order[n]])]
<1> DEFINE ours == {c \in queue : Current(runner, c)}
<1>a. PICK settled \in SUBSET ours :
        \E told \in SUBSET settled : Rejects(settled, told)
  BY Zenon DEF ReceiveStop
<1>2. PICK told \in SUBSET settled : Rejects(settled, told)
  BY <1>a
<1>3. \A c \in Command : Failed(c) \in Record
  BY <1>1, RecordType
     DEF TypeOK, JournalTypeOK, RunnerStates, Terminal, Codes
<1>4. handles' \in [Proc -> [Command -> Nat]]
      /\ turn' \in [Command -> Phases]
  BY <1>1 DEF ReceiveStop, TypeOK, JournalTypeOK, Phases
<1>5. JournalTypeOK'
  <2>1. records' \in [Command -> Record]
    BY <1>2, <1>3 DEF TypeOK, JournalTypeOK
  <2> QED
    BY <1>4, <2>1 DEF ReceiveStop, TypeOK, JournalTypeOK
<1>6. up' \in Seq(Receipt)
  <2>1. PICK order \in SetToSeqs(told) :
           up' = up \o [n \in DOMAIN order |->
                           Update(order[n], records'[order[n]])]
    BY <1>2
  <2>2. PICK size \in Nat : order \in [1..size -> told]
    <3>1. Cardinality(told) \in Nat
      BY <1>2, FiniteCommand, FS_Subset, FS_CardinalityType
    <3> QED
      BY <3>1 DEF SetToSeqs
  <2>3. \A c \in told : Update(c, records'[c]) \in Receipt
    <3>1. TAKE c \in told
    <3>2. c \in Command /\ records'[c] = Failed(c)
      BY <1>2
    <3>3. Failed(c).state # "none"
      BY DEF Next_
    <3> QED
      BY <1>3, <3>2, <3>3, FrameType
  <2>4. [n \in DOMAIN order |-> Update(order[n], records'[order[n]])]
          \in Seq(Receipt)
    BY <2>2, <2>3
  <2> QED
    BY <2>1, <2>4 DEF TypeOK
<1>7. OutboxTypeOK'
  BY DEF ReceiveStop, RunnerOnly, TypeOK, OutboxTypeOK, outboxVars
<1> QED
  BY <1>1, <1>4, <1>5, <1>6, <1>7 DEF ReceiveStop, RunnerOnly, Taken, TypeOK

LEMMA OutboxOnlyType ==
    ASSUME TypeOK, CPOnly, OutboxTypeOK'
    PROVE  TypeOK'
BY SameJournal DEF TypeOK, CPOnly, channels, sessionVars

LEMMA ReceiptType ==
    ASSUME OutboxTypeOK, now \in Nat, NEW m \in Receipt, RecordReceipt(m)
    PROVE  OutboxTypeOK'
<1>1. m.c \in Command
  BY DEF Receipt
<1> QED
  BY <1>1, AppliedType DEF RecordReceipt, OutboxTypeOK

LEMMA MarkType ==
    ASSUME OutboxTypeOK, NEW c \in Command, MarkSent(c)
    PROVE  OutboxTypeOK'
BY DEF MarkSent, OutboxTypeOK, Row, RowStates, OutboxActive

LEMMA OutboxStepType ==
    ASSUME TypeOK, \/ \E i \in Incident : Stage(i)
                   \/ \E c \in Command :
                         Retry(c) \/ Refuse(c) \/ Cancel(c) \/ Dismiss(c)
                         \/ FlushFails(c)
                   \/ Sweep
    PROVE  TypeOK'
<1>0. OutboxTypeOK /\ now \in Nat
  BY DEF TypeOK
<1>1. ASSUME NEW i \in Incident, Stage(i) PROVE TypeOK'
  <2>1. <<i, 0>> \in Command /\ now + Horizon \in Nat
    BY <1>0, OutboxAssumption
  <2>2. OutboxTypeOK'
    BY <1>0, <1>1, <2>1, StagedType DEF Stage, StagePrompt, OutboxTypeOK
  <2> QED
    BY <1>1, <2>2, OutboxOnlyType DEF Stage
<1>2. ASSUME NEW c \in Command, Retry(c) PROVE TypeOK'
  <2>1. Dismissed(rows[c]) \in Row /\ Staged \in Row
        /\ now + Horizon \in Nat
    BY <1>0, DismissedType, StagedType, OutboxAssumption DEF OutboxTypeOK
  <2>2. OutboxTypeOK'
    BY <1>0, <1>2, <2>1 DEF Retry, RetryUndelivered, OutboxTypeOK
  <2> QED
    BY <1>2, <2>2, OutboxOnlyType DEF Retry
<1>3. ASSUME NEW c \in Command, Refuse(c) PROVE TypeOK'
  <2>1. [ c |-> c, state |-> EndedState(rows[c]),
          revision |-> rows[c].revision + 1, code |-> "none",
          userEvent |-> FALSE ] \in Receipt
    <3>1. rows[c].revision + 1 \in Nat
      BY <1>0 DEF OutboxTypeOK, Row
    <3> QED
      BY <3>1 DEF Receipt, EndedState, RunnerStates, Terminal, Codes
  <2>2. OutboxTypeOK'
    BY <1>0, <1>3, <2>1, ReceiptType DEF Refuse, RefuseDue
  <2> QED
    BY <1>3, <2>2, OutboxOnlyType DEF Refuse
<1>4. ASSUME NEW c \in Command, Cancel(c) PROVE TypeOK'
  <2>1. Ended(rows[c], "other") \in Row
    BY <1>0, EndedType DEF OutboxTypeOK, Codes
  <2>2. OutboxTypeOK'
    BY <1>0, <1>4, <2>1 DEF Cancel, CancelPending, OutboxTypeOK
  <2> QED
    BY <1>4, <2>2, OutboxOnlyType DEF Cancel
<1>5. ASSUME NEW c \in Command, Dismiss(c) PROVE TypeOK'
  <2>1. Dismissed(rows[c]) \in Row
    BY <1>0, DismissedType DEF OutboxTypeOK
  <2>2. OutboxTypeOK'
    BY <1>0, <1>5, <2>1 DEF Dismiss, DismissTerminal, OutboxTypeOK
  <2> QED
    BY <1>5, <2>2, OutboxOnlyType DEF Dismiss
<1>6. ASSUME Sweep PROVE TypeOK'
  <2>1. OutboxTypeOK'
    BY <1>0, <1>6, MaintainedType DEF Sweep, Maintain, OutboxTypeOK
  <2> QED
    BY <1>6, <2>1, OutboxOnlyType DEF Sweep
<1>7. ASSUME NEW c \in Command, FlushFails(c) PROVE TypeOK'
  BY <1>0, <1>7, MarkType, OutboxOnlyType DEF FlushFails
<1> QED
  BY <1>1, <1>2, <1>3, <1>4, <1>5, <1>6, <1>7

LEMMA ControlPlaneType ==
    ASSUME TypeOK, ControlPlane
    PROVE  TypeOK'
<1>0. OutboxTypeOK /\ now \in Nat
  BY DEF TypeOK
<1>1. ASSUME NEW c \in Command, Flush(c) PROVE TypeOK'
  <2>1. [type |-> "command", c |-> c, expiresAt |-> rows[c].expiresAt]
          \in DownFrame
    BY <1>0 DEF DownFrame, OutboxTypeOK, Row
  <2>2. down' \in Seq(DownFrame)
    BY <1>1, <2>1 DEF Flush, TypeOK
  <2>3. OutboxTypeOK'
    BY <1>0, <1>1, MarkType DEF Flush
  <2> QED
    BY <1>1, <2>2, <2>3, SameJournal DEF Flush, TypeOK, sessionVars
<1>2. ASSUME Stop PROVE TypeOK'
  <2>1. [type |-> "stop"] \in DownFrame
    BY DEF DownFrame
  <2>2. down' \in Seq(DownFrame)
    BY <1>2, <2>1 DEF Stop, TypeOK
  <2>3. OutboxTypeOK'
    BY <1>0, <1>2, EndedType DEF Stop, StopRows, OutboxTypeOK, Codes
  <2> QED
    BY <1>2, <2>2, <2>3, SameJournal DEF Stop, TypeOK, sessionVars
<1>3. ASSUME ReceiveReceipt PROVE TypeOK'
  <2>1. Head(up) \in Receipt /\ Tail(up) \in Seq(Receipt)
    BY <1>3 DEF ReceiveReceipt, TypeOK
  <2>2. OutboxTypeOK'
    BY <1>0, <1>3, <2>1, ReceiptType DEF ReceiveReceipt
  <2> QED
    BY <1>3, <2>1, <2>2, SameJournal DEF ReceiveReceipt, TypeOK, sessionVars
<1> QED
  BY <1>1, <1>2, <1>3, OutboxStepType DEF ControlPlane

LEMMA EnvironmentType ==
    ASSUME TypeOK, Environment
    PROVE  TypeOK'
<1>0. JournalTypeOK
  BY DEF TypeOK
<1>1. CASE Disconnect
  <2>1. down' \in Seq(DownFrame) /\ up' \in Seq(Receipt)
    BY <1>1 DEF Disconnect
  <2>2. OutboxTypeOK'
    BY <1>1 DEF Disconnect, TypeOK, OutboxTypeOK, outboxVars
  <2> QED
    BY <1>1, <2>1, <2>2, SameJournal DEF Disconnect, TypeOK, sessionVars
<1>2. CASE Register
  <2>1. <<[type |-> "stop"]>> \in Seq(DownFrame)
    BY DEF DownFrame
  <2> QED
    BY <1>2, <2>1, SameJournal
       DEF Register, TypeOK, OutboxTypeOK, outboxVars, sessionVars
<1>3. CASE Crash
  <2>1. runner \in Proc
    BY <1>3 DEF Crash, TypeOK
  <2>2. JournalTypeOK'
    BY <1>0, <1>3, <2>1, ProcessType DEF Crash
  <2>3. down' \in Seq(DownFrame) /\ up' \in Seq(Receipt)
        /\ buffered' \in Seq(Receipt) /\ turn' \in [Command -> Phases]
    BY <1>3 DEF Crash, Phases
  <2>4. OutboxTypeOK'
    BY <1>3 DEF Crash, TypeOK, OutboxTypeOK, outboxVars
  <2> QED
    BY <1>3, <2>2, <2>3, <2>4 DEF Crash, TypeOK
<1>4. CASE ClockTick
  BY <1>4, SameJournal
     DEF ClockTick, Tick, TypeOK, OutboxTypeOK, outboxVars, channels,
         sessionVars
<1>5. ASSUME NEW p \in Proc, Start(p) \/ LeaseLapses(p) PROVE TypeOK'
  <2>1. JournalTypeOK'
    BY <1>0, <1>5, ProcessType DEF Start, LeaseLapses
  <2> QED
    BY <1>5, <2>1
       DEF Start, LeaseLapses, TypeOK, OutboxTypeOK, outboxVars, channels,
           sessionVars
<1> QED
  BY <1>1, <1>2, <1>3, <1>4, <1>5 DEF Environment

LEMMA TypeStep ==
    ASSUME TypeOK, HeldInv, [Next]_vars
    PROVE  TypeOK'
<1>1. CASE ControlPlane
  BY <1>1, ControlPlaneType
<1>2. CASE AnswerCommand \/ ReceiveStop
  BY <1>2, AnswerType, StopType
<1>3. CASE CommandBusy \/ CommandThrows
  <2>1. /\ runner \in Proc /\ Head(down).c \in Command
        /\ Head(down).expiresAt \in Nat /\ down' \in Seq(DownFrame)
    BY <1>3, TakenType
       DEF CommandBusy, CommandThrows, IsFrame, Taken, TypeOK, DownFrame
  <2>2. JournalTypeOK'
    BY <1>3, <2>1, SameJournal, ClaimType DEF CommandBusy, CommandThrows, TypeOK
  <2> QED
    BY <1>3, <2>1, <2>2
       DEF CommandBusy, CommandThrows, Taken, RunnerOnly, TypeOK,
           OutboxTypeOK, outboxVars, sessionVars
<1>4. ASSUME NEW c \in Command, SessionStep(c) PROVE TypeOK'
  <2>1. turn[c] # "idle"
    BY <1>4
       DEF SessionStep, AdmitReplay, RefuseAdmission, Admit, AdmitThrows,
           RetainForSignIn, RejectQueued, BeginTurn, FailPreparing,
         PublishUserEvent, MarkStarted,
           MarkStartedThrows, CancelStarted, Submit, EndTurn, AbandonTurn,
           Finish, Thrown, Turn
  <2> QED
    BY <1>4, <2>1, SessionStepType DEF HeldInv, Held
<1>5. ASSUME NEW c \in Command, Republish(c) PROVE TypeOK'
  <2>1. up' \in Seq(Receipt) /\ buffered' \in Seq(Receipt)
    BY <1>5, FrameType, SendUpType
       DEF Republish, TypeOK, JournalTypeOK, Stored
  <2> QED
    BY <1>5, <2>1, SameJournal
       DEF Republish, RunnerOnly, TypeOK, OutboxTypeOK, outboxVars,
           sessionVars
<1>6. CASE Environment
  BY <1>6, EnvironmentType
<1>7. CASE UNCHANGED vars
  BY <1>7, SameJournal
     DEF vars, TypeOK, OutboxTypeOK, outboxVars, channels, sessionVars
<1> QED
  BY <1>1, <1>2, <1>3, <1>4, <1>5, <1>6, <1>7 DEF Next, Runner

-----------------------------------------------------------------------------
(* The outbox.                                                             *)

\* What a step of the outbox may do to one row, as far as the invariant
\* goes: nothing becomes untouched again, and only staging sets a deadline.
RowStep(c) ==
    /\ rows'[c].state \in {"absent", "pending"} =>
          rows[c].state \in {"absent", "pending"}
    /\ deadline'[c] # deadline[c] => rows[c].state = "absent"

OutboxStep ==
    /\ \A c \in Command : RowStep(c)
    /\ RowDeadlines'
    /\ ChainInv'

\* One row replaced by one that was staged before and is at most ended,
\* marked or dismissed.
LEMMA RowReplaced ==
    ASSUME TypeOK, RowDeadlines, ChainInv, NEW c \in Command,
           NEW row \in Row, UNCHANGED deadline,
           rows' = [rows EXCEPT ![c] = row],
           rows[c].state # "absent",
           row.state \notin {"absent", "pending"},
           row.state \in OutboxActive => row.expiresAt = deadline[c],
           rows[c].dismissed => row.dismissed,
           rows[c].state # "pruned"
    PROVE  OutboxStep
<1>1. rows \in [Command -> Row]
  BY DEF TypeOK, OutboxTypeOK
<1>2. \A d \in Command : RowStep(d)
  BY <1>1 DEF RowStep
<1>3. RowDeadlines'
  BY <1>1 DEF RowDeadlines, Active
<1>4. ChainInv'
  BY <1>1 DEF ChainInv
<1> QED
  BY <1>2, <1>3, <1>4 DEF OutboxStep

LEMMA ReceiptStep ==
    ASSUME TypeOK, RowDeadlines, ChainInv, NEW m \in Receipt,
           RecordReceipt(m)
    PROVE  OutboxStep
<1> DEFINE c == m.c
<1>1. c \in Command /\ rows[c] \in Row /\ rows \in [Command -> Row]
  BY DEF Receipt, TypeOK, OutboxTypeOK
<1>2. CASE Ignores(rows[c], m)
  <2>1. rows' = rows /\ deadline' = deadline
    BY <1>1, <1>2 DEF RecordReceipt, Applied
  <2> QED
    BY <2>1 DEF OutboxStep, RowStep, RowDeadlines, Active, ChainInv
<1>3. CASE ~Ignores(rows[c], m)
  <2> DEFINE row == Applied(rows[c], m)
  <2>1. row \in Row
    BY <1>1, AppliedType DEF TypeOK
  <2>2. rows[c].state \notin {"absent", "pruned"}
        /\ row.state = m.state /\ row.dismissed = rows[c].dismissed
    BY <1>3 DEF Applied, Ignores
  <2>3. row.state \notin {"absent", "pending"}
    BY <2>2 DEF Receipt, RunnerStates, Terminal
  <2>4. row.state \in OutboxActive => row.expiresAt = deadline[c]
    <3>1. SUFFICES ASSUME row.state \in OutboxActive
                   PROVE  row.expiresAt = deadline[c]
      OBVIOUS
    <3>2. m.state \notin Terminal
      BY <2>2, <3>1 DEF OutboxActive, Terminal
    <3>3. rows[c].state \notin Terminal
      BY <1>3, <3>2 DEF Ignores, Refines, Terminal
    <3>4. Active(c)
      BY <1>1, <2>2, <3>3 DEF Row, RowStates, Active
    <3>5. row.expiresAt = rows[c].expiresAt
      BY <1>3, <3>2 DEF Applied, RetentionOf
    <3> QED
      BY <1>1, <3>4, <3>5 DEF RowDeadlines
  <2> HIDE DEF row
  <2>5. rows' = [rows EXCEPT ![c] = row] /\ UNCHANGED deadline
    BY DEF RecordReceipt, row
  <2> QED
    BY <1>1, <2>1, <2>2, <2>3, <2>4, <2>5, RowReplaced
<1> QED
  BY <1>2, <1>3

LEMMA StageStep ==
    ASSUME TypeOK, RowDeadlines, ChainInv, NEW i \in Incident,
           StagePrompt(i)
    PROVE  OutboxStep
<1> DEFINE c == <<i, 0>>
<1>1. c \in Command /\ rows \in [Command -> Row]
      /\ deadline \in [Command -> Nat]
  BY OutboxAssumption DEF TypeOK, OutboxTypeOK
<1>2. /\ rows[c].state = "absent"
      /\ rows' = [rows EXCEPT ![c] = Staged]
      /\ deadline' = [deadline EXCEPT ![c] = now + Horizon]
  BY DEF StagePrompt
<1>3. \A d \in Command : RowStep(d)
  BY <1>1, <1>2 DEF RowStep
<1>4. RowDeadlines'
  BY <1>1, <1>2 DEF RowDeadlines, Active, Staged
<1>5. ChainInv'
  <2>1. \A d \in Command : rows'[d].state = "absent" => ~rows'[d].dismissed
    BY <1>1, <1>2 DEF ChainInv, Staged
  <2>2. ASSUME NEW b \in Command, NEW d \in Command,
               d = <<b[1], b[2] + 1>>, rows'[d].state # "absent"
        PROVE  rows'[b].dismissed \/ rows'[b].state = "pruned"
    <3>1. d # c /\ b # d
      BY <1>1, <2>2, OutboxAssumption
    <3>2. rows[d].state # "absent"
      BY <1>1, <1>2, <2>2, <3>1
    <3>3. rows[b].dismissed \/ rows[b].state = "pruned"
      BY <2>2, <3>2 DEF ChainInv
    <3>4. b # c
      BY <1>1, <1>2, <3>3 DEF ChainInv
    <3> QED
      BY <1>1, <1>2, <3>3, <3>4
  <2> QED
    BY <2>1, <2>2 DEF ChainInv
<1> QED
  BY <1>3, <1>4, <1>5 DEF OutboxStep

LEMMA RetryStep ==
    ASSUME TypeOK, RowDeadlines, ChainInv, NEW c \in Command,
           RetryUndelivered(c)
    PROVE  OutboxStep
<1> DEFINE retry == <<c[1], c[2] + 1>>
<1>1. /\ c \in Incident \X (0..MaxRetry)
      /\ retry \in Command /\ retry # c
      /\ rows \in [Command -> Row] /\ deadline \in [Command -> Nat]
  <2>1. c \in Incident \X (0..MaxRetry) /\ c[2] < MaxRetry
    BY OutboxAssumption DEF RetryUndelivered
  <2> QED
    BY <2>1, OutboxAssumption DEF TypeOK, OutboxTypeOK
<1>2. /\ rows' = [rows EXCEPT ![retry] = Staged, ![c] = Dismissed(@)]
      /\ deadline' = [deadline EXCEPT ![retry] = now + Horizon]
      /\ rows[c].state = "failed" /\ ~rows[c].dismissed
  BY DEF RetryUndelivered, Retryable
<1>3. rows[retry].state = "absent"
  <2>1. SUFFICES ASSUME rows[retry].state # "absent" PROVE FALSE
    OBVIOUS
  <2>2. ~(rows[retry].state # "pruned")
    <3>1. SUFFICES ASSUME rows[retry].state # "pruned" PROVE FALSE
      OBVIOUS
    <3>2. HasRow(retry)
      BY <1>1, <2>1, <3>1 DEF HasRow, Row, RowStates
    <3>3. c[2] + 1 \in Chain(c[1])
      BY <1>1, <3>2, OutboxAssumption DEF Chain
    <3>4. IsLatest(c)
      BY DEF RetryUndelivered
    <3> QED
      BY <1>1, <3>3, <3>4 DEF IsLatest
  <2> QED
    BY <1>1, <1>2, <2>1 DEF ChainInv
<1>4. /\ rows'[retry] = Staged /\ rows'[c] = Dismissed(rows[c])
      /\ \A d \in Command : d # c /\ d # retry => rows'[d] = rows[d]
  BY <1>1, <1>2
<1>5. /\ Staged.state = "pending" /\ Staged.expiresAt = now + Horizon
      /\ Dismissed(rows[c]).state = "failed" /\ Dismissed(rows[c]).dismissed
      /\ ~Staged.dismissed
  BY <1>2 DEF Staged, Dismissed
<1>6. \A d \in Command : RowStep(d)
  BY <1>1, <1>2, <1>3, <1>4, <1>5 DEF RowStep
<1>7. RowDeadlines'
  <2>1. SUFFICES ASSUME NEW d \in Command, rows'[d].state \in OutboxActive
                 PROVE  rows'[d].expiresAt = deadline'[d]
    BY DEF RowDeadlines, Active
  <2>2. CASE d = retry
    BY <1>1, <1>2, <1>4, <1>5, <2>2
  <2>3. CASE d # retry
    <3>1. d # c
      BY <1>4, <1>5, <2>1 DEF OutboxActive
    <3> QED
      BY <1>1, <1>2, <1>4, <2>1, <2>3, <3>1 DEF RowDeadlines, Active
  <2> QED
    BY <2>2, <2>3
<1>8. ChainInv'
  <2>1. \A d \in Command : rows'[d].state = "absent" => ~rows'[d].dismissed
    BY <1>4, <1>5 DEF ChainInv
  <2>2. ASSUME NEW b \in Command, NEW d \in Command,
               d = <<b[1], b[2] + 1>>, rows'[d].state # "absent"
        PROVE  rows'[b].dismissed \/ rows'[b].state = "pruned"
    <3>1. CASE b = c
      BY <1>4, <1>5, <3>1
    <3>2. CASE b # c
      <4>1. b \in Incident \X (0..MaxRetry)
        BY OutboxAssumption
      <4>2. d # retry
        BY <1>1, <2>2, <3>2, <4>1
      <4>3. rows[d].state # "absent"
        BY <1>2, <1>4, <2>2, <4>2
      <4>4. rows[b].dismissed \/ rows[b].state = "pruned"
        BY <2>2, <4>3 DEF ChainInv
      <4>5. b # retry
        BY <1>3, <4>4 DEF ChainInv
      <4> QED
        BY <1>4, <3>2, <4>4, <4>5
    <3> QED
      BY <3>1, <3>2
  <2> QED
    BY <2>1, <2>2 DEF ChainInv
<1> QED
  BY <1>6, <1>7, <1>8 DEF OutboxStep

\* A sweep or a stop: every row is kept, ended or pruned on its own.
LEMMA SweepStep ==
    ASSUME TypeOK, RowDeadlines, ChainInv, Maintain \/ StopRows
    PROVE  OutboxStep
<1>1. rows \in [Command -> Row] /\ deadline' = deadline
  BY DEF TypeOK, OutboxTypeOK, Maintain, StopRows
<1>2. ASSUME NEW c \in Command
      PROVE  \/ rows'[c] = rows[c]
             \/ /\ Active(c)
                /\ rows'[c].state \in {"failed", "uncertain"}
                /\ rows'[c].dismissed = rows[c].dismissed
             \/ /\ rows[c].state \in Terminal
                /\ rows'[c].state = "pruned"
  BY <1>1 DEF Maintain, StopRows, Maintained, Ended, EndedState, EmptyRow,
              Active
<1>3. \A c \in Command : RowStep(c)
  BY <1>1, <1>2 DEF RowStep, Active, OutboxActive, Terminal
<1>4. RowDeadlines'
  BY <1>1, <1>2 DEF RowDeadlines, Active, OutboxActive, Terminal
<1>5. ChainInv'
  <2>1. \A c \in Command : rows'[c].state = "absent" => ~rows'[c].dismissed
    BY <1>2 DEF ChainInv
  <2>2. ASSUME NEW c \in Command, NEW d \in Command,
               d = <<c[1], c[2] + 1>>, rows'[d].state # "absent"
        PROVE  rows'[c].dismissed \/ rows'[c].state = "pruned"
    <3>1. rows[d].state # "absent"
      BY <1>2, <2>2 DEF Active, OutboxActive, Terminal
    <3>2. rows[c].dismissed \/ rows[c].state = "pruned"
      BY <2>2, <3>1 DEF ChainInv
    <3> QED
      BY <1>2, <3>2 DEF Active, OutboxActive
  <2> QED
    BY <2>1, <2>2 DEF ChainInv
<1> QED
  BY <1>3, <1>4, <1>5 DEF OutboxStep

LEMMA ControlPlaneStep ==
    ASSUME TypeOK, RowDeadlines, ChainInv, ControlPlane
    PROVE  OutboxStep
<1>0. rows \in [Command -> Row] /\ now \in Nat
  BY DEF TypeOK, OutboxTypeOK
<1>1. ASSUME NEW i \in Incident, Stage(i) PROVE OutboxStep
  BY <1>1, StageStep DEF Stage
<1>2. ASSUME NEW c \in Command, Retry(c) PROVE OutboxStep
  BY <1>2, RetryStep DEF Retry
<1>3. ASSUME NEW c \in Command, Refuse(c) PROVE OutboxStep
  <2> DEFINE m == [ c |-> c, state |-> EndedState(rows[c]),
                    revision |-> rows[c].revision + 1, code |-> "none",
                    userEvent |-> FALSE ]
  <2>1. m \in Receipt
    <3>1. rows[c].revision + 1 \in Nat
      BY <1>0 DEF Row
    <3> QED
      BY <3>1 DEF Receipt, EndedState, RunnerStates, Terminal, Codes
  <2> QED
    BY <1>3, <2>1, ReceiptStep DEF Refuse, RefuseDue
<1>4. ASSUME NEW c \in Command, Cancel(c) PROVE OutboxStep
  <2>1. /\ rows[c].state = "pending" /\ UNCHANGED deadline
        /\ rows' = [rows EXCEPT ![c] = Ended(rows[c], "other")]
    BY <1>4 DEF Cancel, CancelPending
  <2>2. Ended(rows[c], "other") \in Row
    BY <1>0, EndedType DEF Codes
  <2>3. /\ Ended(rows[c], "other").state = "failed"
        /\ Ended(rows[c], "other").dismissed = rows[c].dismissed
    BY <2>1 DEF Ended, EndedState
  <2> QED
    BY <2>1, <2>2, <2>3, RowReplaced DEF OutboxActive
<1>5. ASSUME NEW c \in Command, Dismiss(c) PROVE OutboxStep
  <2>1. /\ rows[c].state \in {"failed", "uncertain"} /\ UNCHANGED deadline
        /\ rows' = [rows EXCEPT ![c] = Dismissed(rows[c])]
    BY <1>5 DEF Dismiss, DismissTerminal
  <2>2. Dismissed(rows[c]) \in Row
    BY <1>0, DismissedType
  <2>3. /\ Dismissed(rows[c]).state = rows[c].state
        /\ Dismissed(rows[c]).dismissed
    BY DEF Dismissed
  <2> QED
    BY <2>1, <2>2, <2>3, RowReplaced DEF OutboxActive
<1>6. ASSUME NEW c \in Command, MarkSent(c) PROVE OutboxStep
  <2> DEFINE row == [rows[c] EXCEPT !.state =
                       IF rows[c].state = "pending" THEN "sent" ELSE @]
  <2>1. /\ Active(c) /\ UNCHANGED deadline
        /\ rows' = [rows EXCEPT ![c] = row]
    BY <1>0, <1>6 DEF MarkSent, Due
  <2>2. row \in Row
    BY <1>0 DEF Row, RowStates, OutboxActive
  <2>3. /\ row.state \notin {"absent", "pending"}
        /\ row.expiresAt = rows[c].expiresAt
        /\ row.dismissed = rows[c].dismissed
    BY <1>0, <2>1 DEF Row, Active, OutboxActive
  <2>4. rows[c].state \notin {"absent", "pruned"}
        /\ rows[c].expiresAt = deadline[c]
    BY <2>1 DEF Active, OutboxActive, RowDeadlines
  <2> HIDE DEF row
  <2> QED
    BY <2>1, <2>2, <2>3, <2>4, RowReplaced
<1>7. ASSUME Sweep \/ Stop PROVE OutboxStep
  BY <1>7, SweepStep DEF Sweep, Stop
<1>8. ASSUME ReceiveReceipt PROVE OutboxStep
  <2>1. Head(up) \in Receipt
    BY <1>8 DEF ReceiveReceipt, TypeOK
  <2> QED
    BY <1>8, <2>1, ReceiptStep DEF ReceiveReceipt
<1> QED
  BY <1>1, <1>2, <1>3, <1>4, <1>5, <1>6, <1>7, <1>8
     DEF ControlPlane, Flush, FlushFails

LEMMA SameOutbox ==
    ASSUME RowDeadlines, ChainInv, UNCHANGED outboxVars
    PROVE  OutboxStep
BY DEF OutboxStep, RowStep, RowDeadlines, Active, ChainInv, outboxVars

-----------------------------------------------------------------------------
(* The session manager.                                                    *)

\* A step of the prompt c alone, as the invariant sees it.
TurnStep(c) ==
    /\ UNCHANGED <<now, outboxVars, proc, runner>>
    /\ \A d \in Command \ {c} :
          /\ turn'[d] = turn[d]
          /\ records'[d] = records[d]
          /\ handles'[runner][d] = handles[runner][d]
    /\ turn'[c] # "idle" => Held(c)'
    /\ Stored(c)' => /\ Stored(c)
                     /\ records'[c].expiresAt = records[c].expiresAt

LEMMA AdvanceStep ==
    ASSUME TypeOK, runner \in Proc, NEW c \in Command, RunnerOnly,
           NEW to \in RunnerStates, NEW code, NEW userEvent, NEW steering,
           Advance(runner, c, to, code, userEvent, steering),
           \A d \in Command \ {c} : turn'[d] = turn[d]
    PROVE  TurnStep(c)
<1>1. /\ records \in [Command -> Record]
      /\ handles \in [Proc -> [Command -> Nat]]
  BY DEF TypeOK, JournalTypeOK
<1>2. /\ records' = [records EXCEPT ![c] =
                       Next_(runner, c, to, code, userEvent, steering)]
      /\ handles' = [handles EXCEPT ![runner][c] = records[c].revision + 1]
      /\ Stored(c) /\ proc' = proc /\ runner' = runner
  BY DEF Advance, Current, Hold, RunnerOnly
<1>3. records[c].revision \in Nat
  BY <1>1 DEF Record
<1>4. to # "none"
  BY DEF RunnerStates, Terminal
<1>5. Held(c)'
  BY <1>1, <1>2, <1>3, <1>4 DEF Held, Stored, Next_
<1> QED
  BY <1>1, <1>2, <1>5 DEF TurnStep, RunnerOnly, outboxVars, Next_, Stored

\* A step that ends the turn, whatever its write came to.
LEMMA EndStep ==
    ASSUME TypeOK, runner \in Proc, NEW c \in Command, RunnerOnly,
           UNCHANGED proc, turn' = [turn EXCEPT ![c] = "idle"],
           \/ records' = records
           \/ /\ Stored(c)
              /\ \E rec \in Record :
                    /\ records' = [records EXCEPT ![c] = rec]
                    /\ rec.expiresAt = records[c].expiresAt,
           handles' = handles \/ Hold(runner, c, 0)
    PROVE  TurnStep(c)
<1>1. /\ records \in [Command -> Record]
      /\ handles \in [Proc -> [Command -> Nat]]
      /\ turn \in [Command -> Phases]
  BY DEF TypeOK, JournalTypeOK
<1>2. \A d \in Command \ {c} :
         /\ turn'[d] = turn[d]
         /\ records'[d] = records[d]
         /\ handles'[runner][d] = handles[runner][d]
  BY <1>1 DEF Hold
<1>3. turn'[c] = "idle"
  BY <1>1
<1>4. Stored(c)' => /\ Stored(c)
                    /\ records'[c].expiresAt = records[c].expiresAt
  BY <1>1 DEF Stored
<1> QED
  BY <1>2, <1>3, <1>4 DEF TurnStep, RunnerOnly, outboxVars

LEMMA FinishStep ==
    ASSUME TypeOK, runner \in Proc, NEW c \in Command, NEW from, NEW to,
           NEW code \in Codes, Finish(c, from, to, code)
    PROVE  TurnStep(c)
<1>1. RunnerOnly /\ turn' = [turn EXCEPT ![c] = "idle"]
  BY DEF Finish, Turn
<1>2. Settle(runner, c, to, code) \/ SettleThrows(runner, c, to, code)
  BY DEF Finish
<1>3. UNCHANGED proc /\ Hold(runner, c, 0)
  BY <1>2 DEF Settle, SettleThrows
<1>4. \/ records' = records
      \/ /\ Stored(c)
         /\ to \in Terminal
         /\ records' = [records EXCEPT ![c] =
              Next_(runner, c, to, code, FALSE, records[c].steering)]
  BY <1>2 DEF Settle, SettleThrows, Current
<1>5. \/ records' = records
      \/ /\ Stored(c)
         /\ \E rec \in Record :
               /\ records' = [records EXCEPT ![c] = rec]
               /\ rec.expiresAt = records[c].expiresAt
  <2>1. records[c].steering \in BOOLEAN
    BY DEF TypeOK, JournalTypeOK, Record
  <2>2. to \in Terminal =>
          Next_(runner, c, to, code, FALSE, records[c].steering) \in Record
    BY <2>1, RecordType DEF TypeOK, JournalTypeOK, RunnerStates
  <2> QED
    BY <1>4, <2>2 DEF Next_
<1> QED
  BY <1>1, <1>3, <1>5, EndStep

LEMMA ThrownStep ==
    ASSUME TypeOK, runner \in Proc, NEW c \in Command, NEW from,
           NEW to \in RunnerStates, NEW userEvent \in BOOLEAN,
           Thrown(c, from, to, userEvent)
    PROVE  TurnStep(c)
<1>1. RunnerOnly /\ turn' = [turn EXCEPT ![c] = "idle"]
  BY DEF Thrown, Turn
<1>2. UNCHANGED proc /\ Hold(runner, c, 0)
  BY DEF Thrown, Throw
<1>3. \/ records' = records
      \/ /\ Stored(c)
         /\ \E rec \in Record :
               /\ records' = [records EXCEPT ![c] = rec]
               /\ rec.expiresAt = records[c].expiresAt
  <2>1. records[c].steering \in BOOLEAN
    BY DEF TypeOK, JournalTypeOK, Record
  <2>2. /\ Next_(runner, c, to, "none", userEvent, FALSE) \in Record
        /\ Next_(runner, c, "failed", "other", FALSE, records[c].steering)
             \in Record
    BY <2>1, RecordType
       DEF TypeOK, JournalTypeOK, RunnerStates, Terminal, Codes
  <2>3. \/ records' = records
        \/ /\ Stored(c)
           /\ records' = [records EXCEPT ![c] =
                Next_(runner, c, to, "none", userEvent, FALSE)]
        \/ /\ Stored(c)
           /\ records' = [records EXCEPT ![c] =
                Next_(runner, c, "failed", "other", FALSE,
                      records[c].steering)]
    BY DEF Thrown, Throw, Current
  <2> QED
    BY <2>2, <2>3 DEF Next_
<1> QED
  BY <1>1, <1>2, <1>3, EndStep

\* A step that touches no file: the prompt only moves on.
LEMMA MoveStep ==
    ASSUME TypeOK, NEW c \in Command, Held(c), RunnerOnly,
           UNCHANGED journalVars, \A d \in Command \ {c} : turn'[d] = turn[d]
    PROVE  TurnStep(c)
BY DEF TurnStep, RunnerOnly, outboxVars, journalVars, Held, Stored

LEMMA SessionTurnStep ==
    ASSUME TypeOK, HeldInv, NEW c \in Command, SessionStep(c)
    PROVE  TurnStep(c) /\ turn[c] # "idle" /\ UNCHANGED down
<1>1. turn[c] # "idle" /\ UNCHANGED down
  BY DEF SessionStep, AdmitReplay, RefuseAdmission, Admit, AdmitThrows,
         RetainForSignIn, RejectQueued, BeginTurn, FailPreparing,
         PublishUserEvent, MarkStarted,
         MarkStartedThrows, CancelStarted, Submit, EndTurn, AbandonTurn,
         Finish, Thrown, Turn, Still
<1>2. Held(c) /\ runner \in Proc /\ turn \in [Command -> Phases]
  BY <1>1 DEF HeldInv, Held, TypeOK
<1>3. CASE \/ AdmitReplay(c) \/ RefuseAdmission(c) \/ FailPreparing(c)
           \/ RejectQueued(c) \/ CancelStarted(c) \/ EndTurn(c)
  BY <1>1, <1>2, <1>3, FinishStep
     DEF AdmitReplay, RefuseAdmission, FailPreparing, RejectQueued,
         CancelStarted, EndTurn, Codes
<1>4. CASE AdmitThrows(c) \/ MarkStartedThrows(c)
  BY <1>1, <1>2, <1>4, ThrownStep
     DEF AdmitThrows, MarkStartedThrows, RunnerStates
<1>5. CASE Admit(c) \/ RetainForSignIn(c) \/ MarkStarted(c)
  <2>1. RunnerOnly /\ \A d \in Command \ {c} : turn'[d] = turn[d]
    BY <1>2, <1>5 DEF Admit, RetainForSignIn, MarkStarted, Turn
  <2>2. \E to \in RunnerStates, code \in Codes :
           \E userEvent, steering \in BOOLEAN :
              Advance(runner, c, to, code, userEvent, steering)
    <3>1. records[c].steering \in BOOLEAN
      BY DEF TypeOK, JournalTypeOK, Record
    <3> QED
      BY <1>5, <3>1
         DEF Admit, RetainForSignIn, MarkStarted, Queued, Started,
             RunnerStates, Codes
  <2> QED
    BY <1>1, <1>2, <2>1, <2>2, AdvanceStep
<1>6. CASE \/ BeginTurn(c) \/ PublishUserEvent(c) \/ Submit(c)
           \/ AbandonTurn(c)
  <2>1. RunnerOnly /\ UNCHANGED journalVars
        /\ \A d \in Command \ {c} : turn'[d] = turn[d]
    BY <1>2, <1>6
       DEF BeginTurn, PublishUserEvent, Submit, AbandonTurn, Turn
  <2> QED
    BY <1>1, <1>2, <2>1, MoveStep
<1> QED
  BY <1>3, <1>4, <1>5, <1>6 DEF SessionStep

\* The transcript and the provider, under a step of prompt c.
FenceStep(c) ==
    /\ \A d \in Command \ {c} :
          (d \in userLog' <=> d \in userLog) /\ delivered'[d] = delivered[d]
    /\ FenceInv'
    /\ AtMostOnce'

LEMMA SessionFenceStep ==
    ASSUME TypeOK, FenceInv, AtMostOnce, NEW c \in Command, SessionStep(c)
    PROVE  FenceStep(c)
<1>0. turn \in [Command -> Phases] /\ delivered \in [Command -> Nat]
  BY DEF TypeOK
<1>1. CASE \/ AdmitReplay(c) \/ RefuseAdmission(c) \/ FailPreparing(c)
           \/ RejectQueued(c) \/ CancelStarted(c) \/ EndTurn(c) \/ AdmitThrows(c)
           \/ MarkStartedThrows(c) \/ AbandonTurn(c)
  <2>1. /\ turn' = [turn EXCEPT ![c] = "idle"]
        /\ UNCHANGED <<userLog, delivered>>
    BY <1>1 DEF AdmitReplay, RefuseAdmission, FailPreparing, RejectQueued,
                CancelStarted, EndTurn, AdmitThrows, MarkStartedThrows, AbandonTurn, Finish,
                Thrown, Turn
  <2> QED
    BY <1>0, <2>1 DEF FenceStep, FenceInv, AtMostOnce
<1>2. CASE Admit(c) \/ RetainForSignIn(c)
  <2>1. /\ \/ turn' = [turn EXCEPT ![c] = "queued"]
           \/ turn' = [turn EXCEPT ![c] = "held"]
        /\ c \notin userLog
        /\ UNCHANGED <<userLog, delivered>>
    BY <1>2 DEF Admit, RetainForSignIn, Turn
  <2> QED
    BY <1>0, <2>1 DEF FenceStep, FenceInv, AtMostOnce
<1>3. CASE BeginTurn(c)
  <2>1. /\ turn[c] = "queued" /\ turn' = [turn EXCEPT ![c] = "preparing"]
        /\ UNCHANGED <<userLog, delivered>>
    BY <1>3 DEF BeginTurn, Turn
  <2> QED
    BY <1>0, <2>1 DEF FenceStep, FenceInv, AtMostOnce
<1>4. CASE PublishUserEvent(c)
  <2>1. /\ turn[c] = "preparing" /\ turn' = [turn EXCEPT ![c] = "begun"]
        /\ userLog' = userLog \cup {c} /\ UNCHANGED delivered
    BY <1>4 DEF PublishUserEvent, Turn
  <2> QED
    BY <1>0, <2>1 DEF FenceStep, FenceInv, AtMostOnce
<1>5. CASE MarkStarted(c)
  <2>1. /\ turn[c] = "begun" /\ turn' = [turn EXCEPT ![c] = "started"]
        /\ UNCHANGED <<userLog, delivered>>
    BY <1>5 DEF MarkStarted, Turn
  <2> QED
    BY <1>0, <2>1 DEF FenceStep, FenceInv, AtMostOnce
<1>6. CASE Submit(c)
  <2>1. /\ turn[c] = "started" /\ turn' = [turn EXCEPT ![c] = "submitted"]
        /\ UNCHANGED userLog
    BY <1>6 DEF Submit, Turn
  <2>2. PICK took \in {0, 1} :
           delivered' = [delivered EXCEPT ![c] = delivered[c] + took]
    BY <1>6 DEF Submit
  <2>3. c \in userLog /\ delivered[c] = 0
    BY <2>1 DEF FenceInv
  <2> QED
    BY <1>0, <2>1, <2>2, <2>3 DEF FenceStep, FenceInv, AtMostOnce
<1> QED
  BY <1>1, <1>2, <1>3, <1>4, <1>5, <1>6 DEF SessionStep

LEMMA TurnPreserves ==
    ASSUME IInv, NEW c \in Command, TurnStep(c), FenceStep(c),
           turn[c] # "idle", UNCHANGED down, TypeOK'
    PROVE  IInv'
<1>1. OutboxStep
  BY SameOutbox DEF IInv, TurnStep
<1>2. UNCHANGED <<now, rows, deadline, proc, runner>>
  BY DEF TurnStep, outboxVars
<1>3. RunnerInv'
  BY <1>2 DEF IInv, RunnerInv
<1>4. HeldInv'
  <2>1. SUFFICES ASSUME NEW d \in Command, turn'[d] # "idle"
                 PROVE  Held(d)'
    BY DEF HeldInv
  <2>2. CASE d # c
    BY <1>2, <2>1, <2>2 DEF TurnStep, IInv, HeldInv, Held, Stored
  <2> QED
    BY <2>1, <2>2 DEF TurnStep
<1>5. RecordDeadlines'
  BY <1>2 DEF TurnStep, IInv, RecordDeadlines, Stored
<1>6. FrameDeadlines'
  BY <1>2 DEF IInv, FrameDeadlines
<1>7. PendingIsUntouched'
  <2>1. SUFFICES ASSUME NEW d \in Command,
                        rows[d].state \in {"absent", "pending"}
                 PROVE  /\ ~Stored(d)' /\ turn'[d] = "idle"
                        /\ d \notin userLog' /\ delivered'[d] = 0
                        /\ \A n \in DOMAIN down :
                              down[n].type = "command" => down[n].c # d
    BY <1>2 DEF PendingIsUntouched
  <2>2. d # c
    BY <2>1 DEF IInv, PendingIsUntouched
  <2> QED
    BY <2>1, <2>2 DEF TurnStep, FenceStep, IInv, PendingIsUntouched, Stored
<1> QED
  BY <1>1, <1>3, <1>4, <1>5, <1>6, <1>7 DEF IInv, OutboxStep, FenceStep

-----------------------------------------------------------------------------
(* The runner's socket.                                                    *)

\* What is left of the frames to the runner, when at most the first is taken.
FramesLeft ==
    down' = down \/ (down # <<>> /\ down' = Tail(down)) \/ down' = <<>>

LEMMA FramesLeftOver ==
    ASSUME down \in Seq(DownFrame), FramesLeft, NEW n \in DOMAIN down'
    PROVE  \E k \in DOMAIN down : down'[n] = down[k]
<1>1. CASE down # <<>> /\ down' = Tail(down)
  <2>1. Len(down') = Len(down) - 1 /\ n \in 1..Len(down')
    BY <1>1
  <2>2. n + 1 \in DOMAIN down /\ down'[n] = down[n + 1]
    BY <1>1, <2>1
  <2> QED
    BY <2>2
<1> QED
  BY <1>1 DEF FramesLeft

\* What the journal may lose or gain for a command no frame asked about.
Lingers(d) ==
    \/ records'[d] = records[d]
    \/ records[d].expiresAt < now /\ Stored(d) /\ records'[d] = NoRecord

\* A step of the runner that takes a frame, as the invariant sees it.
FrameStep ==
    /\ UNCHANGED <<now, outboxVars, proc, runner, userLog, delivered>>
    /\ FramesLeft
    /\ \A d \in Command :
          /\ turn'[d] # "idle" => Held(d)'
          /\ turn'[d] \in {"idle", "claimed", turn[d]}
          /\ Stored(d)' => records'[d].expiresAt = deadline[d]
          /\ rows[d].state \in {"absent", "pending"}
               => turn'[d] = "idle" /\ ~Stored(d)'

LEMMA FramePreserves ==
    ASSUME IInv, FrameStep, TypeOK'
    PROVE  IInv'
<1>1. OutboxStep
  BY SameOutbox DEF IInv, FrameStep
<1>2. UNCHANGED <<now, rows, deadline, proc, runner, userLog, delivered>>
  BY DEF FrameStep, outboxVars
<1>3. RunnerInv'
  BY <1>2 DEF IInv, RunnerInv
<1>4. HeldInv' /\ RecordDeadlines'
  BY <1>2 DEF FrameStep, HeldInv, RecordDeadlines
<1>5. FrameDeadlines'
  BY <1>2, FramesLeftOver DEF FrameStep, IInv, TypeOK, FrameDeadlines
<1>6. PendingIsUntouched'
  <2>1. SUFFICES ASSUME NEW d \in Command,
                        rows[d].state \in {"absent", "pending"}
                 PROVE  /\ ~Stored(d)' /\ turn'[d] = "idle"
                        /\ d \notin userLog /\ delivered[d] = 0
                        /\ \A n \in DOMAIN down' :
                              down'[n].type = "command" => down'[n].c # d
    BY <1>2 DEF PendingIsUntouched
  <2>2. /\ d \notin userLog /\ delivered[d] = 0
        /\ \A n \in DOMAIN down :
              down[n].type = "command" => down[n].c # d
    BY <2>1 DEF IInv, PendingIsUntouched
  <2> QED
    BY <2>1, <2>2, FramesLeftOver DEF FrameStep, IInv, TypeOK
<1>7. FenceInv' /\ AtMostOnce'
  <2>1. \A d \in Command : turn'[d] \in {"idle", "claimed", turn[d]}
    BY DEF FrameStep
  <2> QED
    BY <1>2, <2>1 DEF IInv, FenceInv, AtMostOnce
<1> QED
  BY <1>1, <1>3, <1>4, <1>5, <1>6, <1>7 DEF IInv, OutboxStep

\* Nothing but frames and leases changed.
LEMMA QuietStep ==
    ASSUME IInv, FramesLeft,
           UNCHANGED <<now, outboxVars, proc, runner, userLog, delivered,
                       records, handles, turn>>
    PROVE  FrameStep
<1>1. \A d \in Command : Held(d) => Held(d)'
  BY DEF Held, Stored, outboxVars
<1> QED
  BY <1>1 DEF FrameStep, IInv, HeldInv, RecordDeadlines, PendingIsUntouched,
              Stored, outboxVars

LEMMA HeldLingers ==
    ASSUME TypeOK, RecordDeadlines, NEW d \in Command, Held(d), Lingers(d),
           UNCHANGED <<now, outboxVars, runner>>,
           handles'[runner][d] = handles[runner][d]
    PROVE  Held(d)'
BY DEF Held, Lingers, Stored, NoRecord, RecordDeadlines, outboxVars

LEMMA AnswerStep ==
    ASSUME IInv, AnswerCommand \/ CommandThrows
    PROVE  FrameStep
<1>1. /\ runner \in Proc /\ down # <<>> /\ down[1].type = "command"
      /\ 1 \in DOMAIN down /\ Head(down) = down[1]
      /\ down' = Tail(down) /\ Head(down) \in DownFrame
  BY DEF AnswerCommand, CommandThrows, IsFrame, Taken, IInv, TypeOK
<1>2. PICK c \in Command :
        /\ c = Head(down).c
        /\ Head(down).expiresAt = deadline[c]
        /\ rows[c].state \notin {"absent", "pending"}
  BY <1>1 DEF DownFrame, IInv, FrameDeadlines, PendingIsUntouched
<1> DEFINE Silent == /\ ClaimThrows(runner, c, Head(down).expiresAt)
                     /\ UNCHANGED sessionVars
<1>3. /\ \/ Claimed(c) \/ AnsweredFromJournal(c)
         \/ JournalFull(c) \/ ExpiredInFlight(c) \/ Silent
      /\ UNCHANGED <<now, outboxVars, runner>>
  BY <1>2 DEF AnswerCommand, CommandThrows, RunnerOnly
<1>4. /\ records \in [Command -> Record]
      /\ handles \in [Proc -> [Command -> Nat]]
      /\ turn \in [Command -> Phases] /\ now \in Nat
      /\ deadline \in [Command -> Nat]
  BY DEF IInv, TypeOK, JournalTypeOK, OutboxTypeOK
<1>5. UNCHANGED <<now, outboxVars, proc, runner, userLog, delivered>>
  BY <1>3 DEF Claimed, AnsweredFromJournal, JournalFull, ExpiredInFlight,
              ClaimNew, ClaimReclaim, ClaimLost, ClaimDuplicate, ClaimFull,
              ClaimThrows, sessionVars, journalVars
<1>6. FramesLeft
  BY <1>1 DEF FramesLeft
<1>7. ASSUME NEW d \in Command, d # c
      PROVE  /\ turn'[d] = turn[d] /\ Lingers(d)
             /\ handles'[runner][d] = handles[runner][d]
  <2>1. turn'[d] = turn[d]
    BY <1>2, <1>3, <1>4, <1>7
       DEF Claimed, AnsweredFromJournal, JournalFull, ExpiredInFlight,
           sessionVars
  <2>2. handles'[runner][d] = handles[runner][d]
    <3>1. \/ handles' = handles
          \/ \E revision : Hold(runner, c, revision)
      BY <1>3
         DEF Claimed, AnsweredFromJournal, JournalFull, ExpiredInFlight,
             ClaimNew, ClaimReclaim, ClaimLost, ClaimDuplicate, ClaimFull,
             ClaimThrows, journalVars
    <3> QED
      BY <1>1, <1>2, <1>4, <1>7, <3>1 DEF Hold
  <2>3. \/ records' = records
        \/ records' = AfterRoom
        \/ \E rec : \/ records' = [records EXCEPT ![c] = rec]
                    \/ records' = [AfterRoom EXCEPT ![c] = rec]
    BY <1>3
       DEF Claimed, AnsweredFromJournal, JournalFull, ExpiredInFlight,
           ClaimNew, ClaimReclaim, ClaimLost, ClaimDuplicate, ClaimFull,
           ClaimThrows, Accept, Reclaim, Lose, journalVars
  <2>4. records'[d] \in {records[d], AfterRoom[d]}
    <3>1. AfterRoom \in [Command -> Record]
      BY RoomType DEF IInv, TypeOK
    <3> QED
      BY <1>4, <1>7, <2>3, <3>1
  <2>5. Lingers(d)
    BY <2>4 DEF AfterRoom, Pruned, Lingers
  <2> QED
    BY <2>1, <2>2, <2>5
<1>8. ASSUME NEW d \in Command, d # c
      PROVE  /\ turn'[d] # "idle" => Held(d)'
             /\ turn'[d] \in {"idle", "claimed", turn[d]}
             /\ Stored(d)' => records'[d].expiresAt = deadline[d]
             /\ rows[d].state \in {"absent", "pending"}
                  => turn'[d] = "idle" /\ ~Stored(d)'
  <2>1. Stored(d)' => records'[d] = records[d] /\ Stored(d)
    BY <1>7, <1>8 DEF Lingers, Stored, NoRecord
  <2>2. turn'[d] # "idle" => Held(d)'
    BY <1>5, <1>7, <1>8, HeldLingers DEF IInv, HeldInv
  <2> QED
    BY <1>7, <1>8, <2>1, <2>2 DEF IInv, RecordDeadlines, PendingIsUntouched
<1>9. /\ turn'[c] # "idle" => Held(c)'
      /\ turn'[c] \in {"idle", "claimed", turn[c]}
      /\ Stored(c)' => records'[c].expiresAt = deadline[c]
  <2>1. CASE Claimed(c)
    <3>1. turn'[c] = "claimed"
      BY <1>2, <1>4, <2>1 DEF Claimed
    <3>2. CASE ClaimNew(runner, c, Head(down).expiresAt)
      <4>1. AfterRoom \in [Command -> Record]
        BY RoomType DEF IInv, TypeOK
      <4>2. /\ records'[c].state = "accepted" /\ records'[c].revision = 1
            /\ records'[c].owner = runner
            /\ records'[c].expiresAt = deadline[c]
        BY <1>2, <3>2, <4>1 DEF ClaimNew, Accept, Accepted
      <4>3. handles'[runner][c] = 1
        BY <1>1, <1>2, <1>4, <3>2 DEF ClaimNew, Hold
      <4> QED
        BY <1>1, <1>5, <3>1, <4>2, <4>3 DEF Held, Stored
    <3>3. CASE ClaimReclaim(runner, c, Head(down).expiresAt)
      <4>1. records[c].revision \in Nat /\ Stored(c)
        BY <1>2, <1>4, <3>3 DEF Record, ClaimReclaim, Reclaim, Stored
      <4>2. /\ records'[c].state = "accepted"
            /\ records'[c].revision = records[c].revision + 1
            /\ records'[c].owner = runner
            /\ records'[c].expiresAt = records[c].expiresAt
        BY <1>2, <1>4, <3>3 DEF ClaimReclaim, Reclaim, Next_
      <4>3. handles'[runner][c] = records[c].revision + 1
        BY <1>1, <1>2, <1>4, <3>3 DEF ClaimReclaim, Hold
      <4> QED
        BY <1>1, <1>2, <1>5, <3>1, <4>1, <4>2, <4>3
           DEF Held, Stored, IInv, RecordDeadlines
    <3> QED
      BY <2>1, <3>2, <3>3 DEF Claimed
  <2>2. CASE AnsweredFromJournal(c)
    <3>1. UNCHANGED <<turn, handles>>
      BY <2>2 DEF AnsweredFromJournal, ClaimLost, ClaimDuplicate, sessionVars
    <3>2. CASE ClaimLost(runner, c, Head(down).expiresAt)
      <4>1. turn[c] = "idle"
        <5>1. SUFFICES ASSUME Held(c) PROVE FALSE
          BY <1>2 DEF IInv, HeldInv
        <5>2. Stored(c) /\ Orphaned(runner, c)
          BY <3>2 DEF ClaimLost, Lose, Stored
        <5> QED
          BY <1>1, <1>2, <1>4, <5>1, <5>2 DEF Held, Orphaned
      <4>2. Stored(c) /\ records'[c].expiresAt = records[c].expiresAt
        BY <1>2, <1>4, <3>2 DEF ClaimLost, Lose, Next_, Stored
      <4> QED
        BY <1>2, <3>1, <4>1, <4>2 DEF IInv, RecordDeadlines
    <3>3. CASE ClaimDuplicate(runner, c, Head(down).expiresAt)
      <4>1. records' = records
        BY <3>3 DEF ClaimDuplicate
      <4>2. Held(c) => Held(c)'
        BY <1>5, <3>1, <4>1 DEF Held, Stored, outboxVars
      <4> QED
        BY <1>2, <3>1, <4>1, <4>2 DEF IInv, HeldInv, RecordDeadlines, Stored
    <3> QED
      BY <2>2, <3>2, <3>3 DEF AnsweredFromJournal
  <2>3. CASE JournalFull(c) \/ ExpiredInFlight(c)
    <3>1. UNCHANGED <<turn, handles>>
      BY <2>3 DEF JournalFull, ExpiredInFlight, ClaimFull, sessionVars,
                  journalVars
    <3>2. Lingers(c)
      BY <1>2, <1>4, <2>3
         DEF JournalFull, ExpiredInFlight, ClaimFull, journalVars, AfterRoom,
             Pruned, Lingers
    <3>3. Stored(c)' => records'[c] = records[c] /\ Stored(c)
      BY <3>2 DEF Lingers, Stored, NoRecord
    <3>4. Held(c) => Held(c)'
      BY <1>2, <1>5, <3>1, <3>2, HeldLingers DEF IInv
    <3> QED
      BY <1>2, <3>1, <3>3, <3>4 DEF IInv, HeldInv, RecordDeadlines
  <2>4. CASE Silent
    <3>1. UNCHANGED <<turn, handles>>
      BY <2>4 DEF ClaimThrows, sessionVars
    <3>2. CASE Accept(runner, c, Head(down).expiresAt)
      <4>1. turn[c] = "idle"
        BY <1>2, <1>4, <2>4, <3>2
           DEF ClaimThrows, Fresh, Accept, IInv, HeldInv, Held
      <4>2. AfterRoom \in [Command -> Record]
        BY RoomType DEF IInv, TypeOK
      <4>3. records'[c].expiresAt = deadline[c]
        BY <1>2, <3>2, <4>2 DEF Accept, Accepted
      <4> QED
        BY <3>1, <4>1, <4>3
    <3>3. CASE Reclaim(runner, c) \/ Lose(runner, c)
      <4>1. turn[c] = "idle"
        <5>1. Stored(c) /\ Orphaned(runner, c)
          BY <3>3 DEF Reclaim, Lose, Stored
        <5> QED
          BY <1>1, <1>2, <1>4, <5>1 DEF Held, Orphaned, IInv, HeldInv
      <4>2. Stored(c) /\ records'[c].expiresAt = records[c].expiresAt
        BY <1>2, <1>4, <3>3 DEF Reclaim, Lose, Next_, Stored
      <4> QED
        BY <1>2, <3>1, <4>1, <4>2 DEF IInv, RecordDeadlines
    <3>4. CASE ~Stored(c) /\ records' = AfterRoom
      <4>1. Lingers(c)
        BY <1>2, <1>4, <3>4 DEF AfterRoom, Pruned, Lingers
      <4>2. ~Stored(c)'
        BY <3>4, <4>1 DEF Lingers, Stored, NoRecord
      <4>3. Held(c) => Held(c)'
        BY <1>2, <1>5, <3>1, <4>1, HeldLingers DEF IInv
      <4> QED
        BY <1>2, <3>1, <4>2, <4>3 DEF IInv, HeldInv
    <3> QED
      BY <2>4, <3>2, <3>3, <3>4 DEF ClaimThrows
  <2> QED
    BY <1>3, <2>1, <2>2, <2>3, <2>4
<1> QED
  BY <1>2, <1>5, <1>6, <1>8, <1>9 DEF FrameStep

LEMMA StopStep ==
    ASSUME IInv, ReceiveStop
    PROVE  FrameStep
<1>1. /\ runner \in Proc /\ FramesLeft
      /\ UNCHANGED <<now, outboxVars, proc, runner, userLog, delivered>>
  BY DEF ReceiveStop, IsFrame, Taken, RunnerOnly, FramesLeft, IInv, TypeOK
<1>2. /\ records \in [Command -> Record]
      /\ handles \in [Proc -> [Command -> Nat]]
  BY DEF IInv, TypeOK, JournalTypeOK
<1>3. ASSUME NEW d \in Command
      PROVE  \/ /\ turn'[d] = "idle"
                /\ Stored(d)' => /\ Stored(d)
                                 /\ records'[d].expiresAt
                                      = records[d].expiresAt
             \/ /\ turn'[d] = turn[d] /\ records'[d] = records[d]
                /\ handles'[runner][d] = handles[runner][d]
  <2> DEFINE queue == {c \in Command : turn[c] \in {"held", "queued"}}
  <2>1. /\ handles' = [handles EXCEPT ![runner] =
              [c \in Command |-> IF c \in queue THEN 0 ELSE @[c]]]
        /\ turn' = [c \in Command |->
                      IF c \in queue THEN "idle" ELSE turn[c]]
    BY DEF ReceiveStop
  <2>2. PICK settled \in SUBSET {c \in queue : Current(runner, c)} :
           records' = [c \in Command |->
               IF c \in settled
               THEN Next_(runner, c, "failed",
                          IF turn[c] = "held" THEN "retryable" ELSE "other",
                          FALSE, FALSE)
               ELSE records[c]]
    BY DEF ReceiveStop
  <2>3. CASE d \in queue
    <3>1. turn'[d] = "idle"
      BY <2>1, <2>3
    <3>2. CASE d \in settled
      <4>1. Stored(d)
        BY <2>2, <3>2 DEF Current
      <4>2. records'[d].expiresAt = records[d].expiresAt
        BY <2>2, <3>2 DEF Next_
      <4> QED
        BY <3>1, <4>1, <4>2
    <3>3. CASE d \notin settled
      BY <2>2, <3>1, <3>3 DEF Stored
    <3> QED
      BY <3>2, <3>3
  <2>4. CASE d \notin queue
    BY <1>1, <1>2, <2>1, <2>2, <2>4
  <2> QED
    BY <2>3, <2>4
<1>4. ASSUME NEW d \in Command
      PROVE  /\ turn'[d] # "idle" => Held(d)'
             /\ turn'[d] \in {"idle", "claimed", turn[d]}
             /\ Stored(d)' => records'[d].expiresAt = deadline[d]
             /\ rows[d].state \in {"absent", "pending"}
                  => turn'[d] = "idle" /\ ~Stored(d)'
  <2>1. CASE /\ turn'[d] = "idle"
             /\ Stored(d)' => /\ Stored(d)
                              /\ records'[d].expiresAt
                                   = records[d].expiresAt
    BY <2>1 DEF IInv, RecordDeadlines, PendingIsUntouched
  <2>2. CASE /\ turn'[d] = turn[d] /\ records'[d] = records[d]
             /\ handles'[runner][d] = handles[runner][d]
    <3>1. Held(d) => Held(d)'
      BY <1>1, <2>2 DEF Held, Stored, outboxVars
    <3> QED
      BY <2>2, <3>1
         DEF IInv, HeldInv, RecordDeadlines, PendingIsUntouched, Stored
  <2> QED
    BY <1>3, <2>1, <2>2
<1> QED
  BY <1>1, <1>4 DEF FrameStep

-----------------------------------------------------------------------------
(* The control plane and the environment.                                  *)

LEMMA ControlPlanePreserves ==
    ASSUME IInv, ControlPlane, TypeOK'
    PROVE  IInv'
<1>1. OutboxStep
  BY ControlPlaneStep DEF IInv
<1>2. UNCHANGED <<now, journalVars, runner, sessionVars>>
  BY DEF ControlPlane, Stage, Retry, Refuse, Cancel, Dismiss, Flush,
         FlushFails, Sweep, Stop, ReceiveReceipt, CPOnly
<1>3. UNCHANGED <<records, handles, proc, turn, userLog, delivered>>
  BY <1>2 DEF journalVars, sessionVars
<1>4. \A c \in Command : rows[c].state # "absent" => deadline'[c] = deadline[c]
  BY <1>1 DEF OutboxStep, RowStep
<1>5. HeldInv'
  <2>1. SUFFICES ASSUME NEW c \in Command, turn[c] # "idle" PROVE Held(c)'
    BY <1>3 DEF HeldInv
  <2>2. deadline'[c] = deadline[c]
    BY <1>4, <2>1 DEF IInv, PendingIsUntouched
  <2> QED
    BY <1>2, <1>3, <2>1, <2>2 DEF IInv, HeldInv, Held, Stored
<1>6. RecordDeadlines'
  BY <1>3, <1>4 DEF IInv, RecordDeadlines, PendingIsUntouched, Stored
<1>7. ASSUME NEW n \in DOMAIN down', down'[n].type = "command"
      PROVE  /\ down'[n].c \in Command
             /\ down'[n].expiresAt = deadline'[down'[n].c]
             /\ rows'[down'[n].c].state \notin {"absent", "pending"}
  <2>1. ASSUME NEW k \in DOMAIN down, down[k].type = "command"
        PROVE  /\ down[k].c \in Command
               /\ down[k].expiresAt = deadline'[down[k].c]
               /\ rows'[down[k].c].state \notin {"absent", "pending"}
    <3>1. down[k].c \in Command
      BY <2>1 DEF IInv, TypeOK, DownFrame
    <3>2. rows[down[k].c].state \notin {"absent", "pending"}
      BY <2>1, <3>1 DEF IInv, PendingIsUntouched
    <3> QED
      BY <1>1, <1>4, <2>1, <3>1, <3>2
         DEF IInv, FrameDeadlines, OutboxStep, RowStep
  <2>2. CASE down' = down
    BY <1>7, <2>1, <2>2
  <2>3. ASSUME NEW c \in Command, Flush(c)
        PROVE  /\ down'[n].c \in Command
               /\ down'[n].expiresAt = deadline'[down'[n].c]
               /\ rows'[down'[n].c].state \notin {"absent", "pending"}
    <3>1. /\ down' = Append(down, [type |-> "command", c |-> c,
                                   expiresAt |-> rows[c].expiresAt])
          /\ Active(c) /\ deadline' = deadline
      BY <2>3 DEF Flush, MarkSent, Due
    <3>2. rows'[c].state \notin {"absent", "pending"}
      BY <2>3, <3>1
         DEF Flush, MarkSent, IInv, TypeOK, OutboxTypeOK, Row, Active,
             OutboxActive
    <3>3. rows[c].expiresAt = deadline[c]
      BY <3>1 DEF IInv, RowDeadlines
    <3>4. CASE n \in DOMAIN down
      <4>1. down'[n] = down[n]
        BY <3>1, <3>4 DEF IInv, TypeOK
      <4> QED
        BY <1>7, <2>1, <3>4, <4>1
    <3>5. CASE n \notin DOMAIN down
      <4>1. down'[n] = [type |-> "command", c |-> c,
                        expiresAt |-> rows[c].expiresAt]
        BY <3>1, <3>5 DEF IInv, TypeOK
      <4> QED
        BY <3>1, <3>2, <3>3, <4>1
    <3> QED
      BY <3>4, <3>5
  <2>4. CASE Stop
    <3>1. down' \in {down, Append(down, [type |-> "stop"])}
      BY <2>4 DEF Stop
    <3>2. CASE down' = Append(down, [type |-> "stop"])
      <4>1. n # Len(down) + 1
        <5>1. SUFFICES ASSUME n = Len(down) + 1 PROVE FALSE
          OBVIOUS
        <5>2. down'[n] = [type |-> "stop"]
          BY <3>2, <5>1 DEF IInv, TypeOK
        <5> QED
          BY <1>7, <5>2
      <4>2. n \in DOMAIN down /\ down'[n] = down[n]
        BY <1>7, <3>2, <4>1 DEF IInv, TypeOK
      <4> QED
        BY <1>7, <2>1, <4>2
    <3> QED
      BY <2>2, <3>1, <3>2
  <2>5. \/ down' = down \/ Stop \/ \E c \in Command : Flush(c)
    BY DEF ControlPlane, Stage, Retry, Refuse, Cancel, Dismiss, FlushFails,
           Sweep, ReceiveReceipt, CPOnly, channels
  <2> QED
    BY <2>2, <2>3, <2>4, <2>5
<1>8. PendingIsUntouched'
  <2>1. SUFFICES ASSUME NEW c \in Command,
                        rows'[c].state \in {"absent", "pending"}
                 PROVE  /\ ~Stored(c)' /\ turn[c] = "idle"
                        /\ c \notin userLog /\ delivered[c] = 0
                        /\ \A n \in DOMAIN down' :
                              down'[n].type = "command" => down'[n].c # c
    BY <1>3 DEF PendingIsUntouched
  <2>2. rows[c].state \in {"absent", "pending"}
    BY <1>1, <2>1 DEF OutboxStep, RowStep
  <2> QED
    BY <1>3, <1>7, <2>1, <2>2 DEF IInv, PendingIsUntouched, Stored
<1>9. FrameDeadlines' /\ RunnerInv' /\ FenceInv' /\ AtMostOnce'
  BY <1>2, <1>3, <1>7
     DEF IInv, FrameDeadlines, RunnerInv, FenceInv, AtMostOnce
<1> QED
  BY <1>1, <1>5, <1>6, <1>8, <1>9 DEF IInv, OutboxStep

LEMMA EnvironmentPreserves ==
    ASSUME IInv, Environment, TypeOK'
    PROVE  IInv'
<1>0. /\ runner \in Proc \cup {NoProc} /\ NoProc \notin Proc
      /\ now \in Nat /\ deadline \in [Command -> Nat]
      /\ proc \in [Proc -> {"unborn", "live", "dead"}]
      /\ records \in [Command -> Record]
  BY ProcAssumption DEF IInv, TypeOK, JournalTypeOK, OutboxTypeOK
<1>1. CASE Disconnect \/ \E p \in Proc : LeaseLapses(p)
  <2>1. /\ FramesLeft
        /\ UNCHANGED <<now, outboxVars, proc, runner, userLog, delivered,
                       records, handles, turn>>
    BY <1>1 DEF Disconnect, LeaseLapses, Lapse, FramesLeft, journalVars,
                sessionVars, channels
  <2> QED
    BY <2>1, QuietStep, FramePreserves
<1>2. CASE Register
  <2>1. UNCHANGED <<now, outboxVars, journalVars, runner, sessionVars>>
    BY <1>2 DEF Register
  <2>2. UNCHANGED <<now, rows, deadline, stopped, records, handles, proc,
                    lapsed, runner, turn, userLog, halted, delivered>>
    BY <2>1 DEF outboxVars, journalVars, sessionVars
  <2>3. \A n \in DOMAIN down' : down'[n].type # "command"
    BY <1>2 DEF Register
  <2>4. RowDeadlines' /\ ChainInv'
    BY <2>1, SameOutbox DEF IInv, OutboxStep
  <2>5. RunnerInv' /\ HeldInv' /\ RecordDeadlines' /\ FenceInv' /\ AtMostOnce'
    BY <2>2 DEF IInv, RunnerInv, HeldInv, Held, RecordDeadlines, Stored,
                FenceInv, AtMostOnce
  <2>6. FrameDeadlines' /\ PendingIsUntouched'
    BY <2>2, <2>3 DEF IInv, FrameDeadlines, PendingIsUntouched, Stored
  <2> QED
    BY <2>4, <2>5, <2>6 DEF IInv
<1>3. CASE Crash
  <2>1. /\ UNCHANGED <<now, rows, deadline, records, userLog, delivered>>
        /\ down' = <<>> /\ turn' = [c \in Command |-> "idle"]
        /\ runner' = NoProc /\ proc' = [proc EXCEPT ![runner] = "dead"]
        /\ runner \in Proc
    BY <1>0, <1>3 DEF Crash, Die, outboxVars
  <2>2. RowDeadlines' /\ ChainInv'
    BY <1>3, SameOutbox DEF Crash, IInv, OutboxStep
  <2>3. RunnerInv'
    BY <1>0, <2>1 DEF IInv, RunnerInv
  <2>4. HeldInv' /\ RecordDeadlines' /\ FrameDeadlines' /\ PendingIsUntouched'
    BY <2>1 DEF IInv, HeldInv, RecordDeadlines, FrameDeadlines,
                PendingIsUntouched, Stored
  <2>5. FenceInv' /\ AtMostOnce'
    BY <2>1 DEF IInv, FenceInv, AtMostOnce
  <2> QED
    BY <2>2, <2>3, <2>4, <2>5 DEF IInv
<1>4. ASSUME NEW p \in Proc, Start(p) PROVE IInv'
  <2>1. /\ UNCHANGED <<now, rows, deadline, handles, down, turn, userLog,
                       delivered>>
        /\ runner = NoProc /\ runner' = p /\ records' = Pruned
        /\ proc' = [proc EXCEPT ![p] = "live"]
    BY <1>4 DEF Start, Open, outboxVars, channels, sessionVars
  <2>2. RowDeadlines' /\ ChainInv'
    BY <1>4, SameOutbox DEF Start, IInv, OutboxStep
  <2>3. RunnerInv'
    BY <1>0, <2>1 DEF IInv, RunnerInv
  <2>4. \A c \in Command : turn[c] = "idle"
    BY <1>0, <2>1 DEF IInv, HeldInv, Held
  <2>5. \A c \in Command : Stored(c)' => Stored(c) /\ records'[c] = records[c]
    BY <2>1 DEF Pruned, NoRecord, Stored
  <2>6. HeldInv' /\ RecordDeadlines' /\ FrameDeadlines' /\ PendingIsUntouched'
    BY <2>1, <2>4, <2>5
       DEF IInv, HeldInv, RecordDeadlines, FrameDeadlines, PendingIsUntouched
  <2>7. FenceInv' /\ AtMostOnce'
    BY <2>1 DEF IInv, FenceInv, AtMostOnce
  <2> QED
    BY <2>2, <2>3, <2>6, <2>7 DEF IInv
<1>5. CASE ClockTick
  <2>1. /\ UNCHANGED <<rows, deadline, records, handles, proc, runner, down,
                       turn, userLog, delivered>>
        /\ now' = now + 1
    BY <1>5 DEF ClockTick, Tick, outboxVars, journalVars, channels,
                sessionVars
  <2>2. RowDeadlines' /\ ChainInv'
    BY <1>5, SameOutbox DEF ClockTick, IInv, OutboxStep
  <2>3. HeldInv'
    <3>1. ASSUME NEW c \in Command, Held(c) PROVE Held(c)'
      <4>1. deadline[c] \in Nat
        BY <1>0
      <4> QED
        BY <1>0, <2>1, <3>1, <4>1 DEF Held, Stored
    <3> QED
      BY <2>1, <3>1 DEF IInv, HeldInv
  <2>4. RunnerInv' /\ RecordDeadlines' /\ FrameDeadlines' /\ FenceInv'
        /\ PendingIsUntouched' /\ AtMostOnce'
    BY <2>1 DEF IInv, RunnerInv, RecordDeadlines, FrameDeadlines, FenceInv,
                PendingIsUntouched, AtMostOnce, Stored
  <2> QED
    BY <2>2, <2>3, <2>4 DEF IInv
<1> QED
  BY <1>1, <1>2, <1>3, <1>4, <1>5 DEF Environment

-----------------------------------------------------------------------------
(* The invariant.                                                          *)

LEMMA InitInv == Init => IInv
<1> SUFFICES ASSUME Init PROVE IInv
  OBVIOUS
<1>1. TypeOK
  <2>1. OutboxTypeOK
    BY DEF Init, OutboxInit, OutboxTypeOK, EmptyRow, Row, RowStates, Codes
  <2>2. JournalTypeOK
    BY DEF Init, JournalInit, JournalTypeOK, NoRecord, Record, Codes
  <2>3. /\ down \in Seq(DownFrame)
        /\ up \in Seq(Receipt) /\ buffered \in Seq(Receipt)
    BY DEF Init
  <2> QED
    BY <2>1, <2>2, <2>3 DEF Init, TypeOK, Phases
<1>2. RunnerInv
  BY ProcAssumption DEF Init, JournalInit, RunnerInv
<1>3. HeldInv /\ RowDeadlines /\ RecordDeadlines /\ FrameDeadlines
  BY DEF Init, OutboxInit, JournalInit, HeldInv, RowDeadlines, Active,
         OutboxActive, EmptyRow, RecordDeadlines, Stored, NoRecord,
         FrameDeadlines
<1>4. ChainInv /\ PendingIsUntouched
  BY DEF Init, OutboxInit, JournalInit, ChainInv, EmptyRow, Stored, NoRecord,
         PendingIsUntouched
<1>5. FenceInv /\ AtMostOnce
  BY DEF Init, FenceInv, AtMostOnce
<1> QED
  BY <1>1, <1>2, <1>3, <1>4, <1>5 DEF IInv

LEMMA NextInv == IInv /\ [Next]_vars => IInv'
<1> SUFFICES ASSUME IInv, [Next]_vars PROVE IInv'
  OBVIOUS
<1>0. TypeOK'
  BY TypeStep DEF IInv
<1>1. CASE ControlPlane
  BY <1>0, <1>1, ControlPlanePreserves
<1>2. CASE AnswerCommand \/ CommandThrows \/ ReceiveStop
  BY <1>0, <1>2, AnswerStep, StopStep, FramePreserves
<1>3. CASE CommandBusy \/ \E c \in Command : Republish(c)
  <2>1. /\ FramesLeft
        /\ UNCHANGED <<now, outboxVars, proc, runner, userLog, delivered,
                       records, handles, turn>>
    BY <1>3 DEF CommandBusy, IsFrame, Taken, Republish, RunnerOnly,
                FramesLeft, journalVars, sessionVars
  <2> QED
    BY <1>0, <2>1, QuietStep, FramePreserves
<1>4. ASSUME NEW c \in Command, SessionStep(c) PROVE IInv'
  BY <1>0, <1>4, SessionTurnStep, SessionFenceStep, TurnPreserves DEF IInv
<1>5. CASE Environment
  BY <1>0, <1>5, EnvironmentPreserves
<1>6. CASE UNCHANGED vars
  <2>1. /\ FramesLeft
        /\ UNCHANGED <<now, outboxVars, proc, runner, userLog, delivered,
                       records, handles, turn>>
    BY <1>6 DEF vars, FramesLeft, journalVars, channels, sessionVars
  <2> QED
    BY <1>0, <2>1, QuietStep, FramePreserves
<1> QED
  BY <1>1, <1>2, <1>3, <1>4, <1>5, <1>6 DEF Next, Runner

\* The inductive invariant holds in every reachable state.
THEOREM Invariance == Spec => []IInv
BY InitInv, NextInv, PTL DEF Spec

-----------------------------------------------------------------------------
(* What follows from it.                                                   *)

\* Every variable keeps its type: no step of either side, no crash and no
\* lost frame leaves a row, a record or a frame outside its domain.
THEOREM TypeCorrect == Spec => []TypeOK
<1>1. IInv => TypeOK
  BY DEF IInv
<1> QED
  BY <1>1, Invariance, PTL

\* No command is handed to the provider twice, for any number of prompts,
\* retries, runner processes, resends, crashes and throwing writes.
THEOREM DeliveredAtMostOnce == Spec => []AtMostOnce
<1>1. IInv => AtMostOnce
  BY DEF IInv
<1> QED
  BY <1>1, Invariance, PTL

\* A prompt the outbox never marked sent has left no trace on the runner's
\* side: cancelling it is definite.
THEOREM PendingUntouched == Spec => []PendingIsUntouched
<1>1. IInv => PendingIsUntouched
  BY DEF IInv
<1> QED
  BY <1>1, Invariance, PTL

\* No delivery of a command is given a second turn while one is in hand.
THEOREM OneTurn == Spec => []OneTurnPerPrompt
<1>1. IInv => OneTurnPerPrompt
  <2>1. SUFFICES ASSUME IInv, NEW c \in Command, turn[c] # "idle",
                        Claimable(c)
                 PROVE  FALSE
    BY DEF OneTurnPerPrompt
  <2>2. Held(c) /\ now \in Nat /\ deadline[c] \in Nat
        /\ handles \in [Proc -> [Command -> Nat]]
    BY <2>1 DEF IInv, HeldInv, TypeOK, OutboxTypeOK, JournalTypeOK
  <2>3. CASE ~Stored(c)
    BY <2>1, <2>2, <2>3 DEF Held, Claimable, Fresh
  <2>4. CASE Stored(c)
    <3>1. Orphaned(runner, c)
      BY <2>1, <2>4 DEF Claimable
    <3> QED
      BY <2>2, <2>4, <3>1 DEF Held, Orphaned
  <2> QED
    BY <2>3, <2>4
<1> QED
  BY <1>1, Invariance, PTL


-----------------------------------------------------------------------------
(* Rows.  What one step may do to the row of one command.                  *)

\* The receipts on their way to the control plane.
Said == {up[n] : n \in DOMAIN up} \cup {buffered[n] : n \in DOMAIN buffered}

IsStaged(c) == rows[c].state = "absent" /\ rows'[c] = Staged

IsEnded(c) ==
    /\ Active(c)
    /\ \E code \in Codes :
          /\ rows'[c] = Ended(rows[c], code)
          /\ rows[c].state = "pending" => code # "retryable"

IsDismissed(c) ==
    /\ rows[c].state \in {"failed", "uncertain"}
    /\ rows'[c] = Dismissed(rows[c])

IsMarked(c) ==
    /\ rows[c].state = "pending"
    /\ rows'[c] = [rows[c] EXCEPT !.state = "sent"]

IsApplied(c) ==
    \E m \in Said : m.c = c /\ rows'[c] = Applied(rows[c], m)

IsPruned(c) ==
    rows[c].state \in Terminal /\ rows'[c] = EmptyRow("pruned")

RowShape(c) ==
    \/ IsStaged(c)
    \/ /\ deadline'[c] = deadline[c]
       /\ \/ rows'[c] = rows[c]
          \/ IsEnded(c) \/ IsDismissed(c) \/ IsMarked(c) \/ IsApplied(c)
          \/ IsPruned(c)

LEMMA ReplacedRow ==
    ASSUME TypeOK, NEW c \in Command, NEW row, UNCHANGED deadline,
           rows' = [rows EXCEPT ![c] = row],
           (rows'[c] = row) => RowShape(c), NEW d \in Command
    PROVE  RowShape(d)
BY DEF TypeOK, OutboxTypeOK, RowShape

LEMMA ControlPlaneRows ==
    ASSUME IInv, RowsBacked, ControlPlane, NEW d \in Command
    PROVE  RowShape(d)
<1>0. /\ TypeOK /\ rows \in [Command -> Row] /\ deadline \in [Command -> Nat]
      /\ now \in Nat
  BY DEF IInv, TypeOK, OutboxTypeOK
<1>1. ASSUME NEW i \in Incident, Stage(i) PROVE RowShape(d)
  <2>1. <<i, 0>> \in Command
    BY OutboxAssumption
  <2> QED
    BY <1>0, <1>1, <2>1 DEF Stage, StagePrompt, RowShape, IsStaged
<1>2. ASSUME NEW c \in Command, Retry(c) PROVE RowShape(d)
  <2> DEFINE retry == <<c[1], c[2] + 1>>
  <2>1. c \in Incident \X (0..MaxRetry) /\ c[2] < MaxRetry
    BY <1>2, OutboxAssumption DEF Retry, RetryUndelivered
  <2>2. retry \in Command /\ retry # c
    BY <2>1, OutboxAssumption
  <2>3. /\ rows' = [rows EXCEPT ![retry] = Staged, ![c] = Dismissed(@)]
        /\ deadline' = [deadline EXCEPT ![retry] = now + Horizon]
        /\ rows[c].state = "failed" /\ ~rows[c].dismissed
        /\ IsLatest(c)
    BY <1>2 DEF Retry, RetryUndelivered, Retryable
  <2>4. rows[retry].state = "absent"
    <3>1. ~HasRow(retry)
      <4>1. SUFFICES ASSUME HasRow(retry) PROVE FALSE
        OBVIOUS
      <4>2. c[2] + 1 \in Chain(c[1])
        BY <2>1, <4>1, OutboxAssumption DEF Chain
      <4> QED
        BY <2>1, <2>3, <4>2, OutboxAssumption DEF IsLatest
    <3>2. rows[retry].state \in {"absent", "pruned"}
      BY <1>0, <2>2, <3>1 DEF HasRow, Row, RowStates
    <3> QED
      BY <2>2, <2>3, <3>2 DEF IInv, ChainInv
  <2> QED
    BY <1>0, <2>2, <2>3, <2>4 DEF RowShape, IsStaged, IsDismissed
<1>3. ASSUME NEW c \in Command, Refuse(c) PROVE RowShape(d)
  <2> DEFINE m == [ c |-> c, state |-> EndedState(rows[c]),
                    revision |-> rows[c].revision + 1,
                    code |-> "none", userEvent |-> FALSE ]
  <2>1. /\ rows' = [rows EXCEPT ![c] = Applied(@, m)]
        /\ UNCHANGED deadline /\ Active(c)
    BY <1>3 DEF Refuse, RefuseDue, RecordReceipt, Due
  <2>2. rows[c].revision \in Nat /\ rows[c].userEvent \in BOOLEAN
    BY <1>0 DEF Row
  <2>3. /\ rows[c].state \notin Terminal /\ m.state \in Terminal
        /\ rows[c].state \notin {"absent", "pruned"}
    BY <2>1 DEF Active, OutboxActive, Terminal, EndedState
  <2>4. ~Ignores(rows[c], m) /\ ~Refines(rows[c], m)
    BY <2>2, <2>3 DEF Ignores, Refines, Terminal
  <2>5. Applied(rows[c], m) = Ended(rows[c], "none")
    BY <2>2, <2>3, <2>4 DEF Applied, Ended, RetentionOf
  <2>6. rows'[c] = Applied(rows[c], m) => RowShape(c)
    BY <2>1, <2>5 DEF RowShape, IsEnded, Codes
  <2> QED
    BY <1>0, <2>1, <2>6, ReplacedRow
<1>4. CASE Sweep
  <2>1. rows'[d] = Maintained(rows[d]) /\ deadline'[d] = deadline[d]
    BY <1>4 DEF Sweep, Maintain
  <2>2. rows[d].code \in Codes
    BY <1>0 DEF Row
  <2>3. CASE rows[d].state \in OutboxActive
    BY <2>1, <2>2, <2>3 DEF Maintained, RowShape, IsEnded, Active, RowsBacked
  <2>4. CASE rows[d].state \notin OutboxActive
    BY <2>1, <2>4 DEF Maintained, RowShape, IsPruned
  <2> QED
    BY <2>3, <2>4
<1>5. ASSUME NEW c \in Command, Cancel(c) PROVE RowShape(d)
  <2>1. /\ rows' = [rows EXCEPT ![c] = Ended(@, "other")]
        /\ UNCHANGED deadline /\ Active(c)
    BY <1>5 DEF Cancel, CancelPending, Active, OutboxActive
  <2>2. rows'[c] = Ended(rows[c], "other") => RowShape(c)
    BY <2>1 DEF RowShape, IsEnded, Codes
  <2> QED
    BY <1>0, <2>1, <2>2, ReplacedRow
<1>6. ASSUME NEW c \in Command, Dismiss(c) PROVE RowShape(d)
  BY <1>0, <1>6 DEF Dismiss, DismissTerminal, RowShape, IsDismissed
<1>7. ASSUME NEW c \in Command, MarkSent(c) PROVE RowShape(d)
  <2>1. /\ rows' = [rows EXCEPT ![c].state =
                      IF rows[c].state = "pending" THEN "sent" ELSE @]
        /\ UNCHANGED deadline
    BY <1>7 DEF MarkSent
  <2>2. CASE d = c /\ rows[c].state = "pending"
    BY <1>0, <2>1, <2>2 DEF RowShape, IsMarked
  <2>3. CASE d # c \/ rows[c].state # "pending"
    <3>1. rows'[d] = rows[d]
      BY <1>0, <2>1, <2>3 DEF Row
    <3> QED
      BY <2>1, <3>1 DEF RowShape
  <2> QED
    BY <2>2, <2>3
<1>8. CASE Stop
  BY <1>0, <1>8 DEF Stop, StopRows, RowShape, IsEnded, Codes
<1>9. CASE ReceiveReceipt
  <2> DEFINE m == Head(up)
  <2>1. m \in Said /\ m.c \in Command
    <3>1. up # <<>> /\ up \in Seq(Receipt)
      BY <1>0, <1>9 DEF ReceiveReceipt, TypeOK
    <3>2. 1 \in DOMAIN up /\ m = up[1] /\ up[1] \in Receipt
      BY <3>1
    <3> QED
      BY <3>2 DEF Said, Receipt
  <2>2. rows' = [rows EXCEPT ![m.c] = Applied(@, m)] /\ UNCHANGED deadline
    BY <1>9 DEF ReceiveReceipt, RecordReceipt
  <2> HIDE DEF m
  <2>3. rows'[m.c] = Applied(rows[m.c], m) => RowShape(m.c)
    BY <2>1, <2>2 DEF RowShape, IsApplied
  <2> QED
    BY <1>0, <2>1, <2>2, <2>3, ReplacedRow
<1> QED
  BY <1>1, <1>2, <1>3, <1>4, <1>5, <1>6, <1>7, <1>8, <1>9
     DEF ControlPlane, Flush, FlushFails

\* Every other step leaves the table alone.
LEMMA RowsLeft ==
    ASSUME [Next]_vars, ~ControlPlane
    PROVE  UNCHANGED outboxVars
BY DEF Next, Runner, Environment, vars, AnswerCommand, CommandBusy,
       CommandThrows, ReceiveStop, RunnerOnly, SessionStep, Republish,
       AdmitReplay, RefuseAdmission, Admit, AdmitThrows, RetainForSignIn,
       RejectQueued, BeginTurn, FailPreparing, PublishUserEvent, MarkStarted,
       MarkStartedThrows, CancelStarted, Submit, EndTurn, AbandonTurn,
       Finish, Thrown, Disconnect, Register, Crash, ClockTick, Start,
       LeaseLapses

LEMMA StepShape ==
    ASSUME IInv, RowsBacked, [Next]_vars, NEW c \in Command
    PROVE  RowShape(c)
BY ControlPlaneRows, RowsLeft DEF RowShape, outboxVars

LEMMA Ranked ==
    ASSUME NEW s \in OutboxActive \cup Terminal, NEW t \in OutboxActive \cup Terminal
    PROVE  /\ Rank[s] \in 0..5
           /\ t \in Terminal => Rank[s] <= Rank[t]
           /\ s \in OutboxActive => Rank["pending"] <= Rank[s]
           /\ Rank["pending"] <= Rank["sent"]
BY DEF Rank, OutboxActive, Terminal

\* The transaction of one receipt, against one row.
LEMMA AppliedForward ==
    ASSUME NEW row \in Row, NEW m \in Receipt, ~Ignores(row, m)
    PROVE  /\ Rank[row.state] <= Rank[m.state]
           /\ row.revision <= m.revision
           /\ row.state \in Terminal =>
                 row.state = "uncertain" /\ m.state \in {"completed", "failed"}
<1>1. /\ row.state \in OutboxActive \cup Terminal /\ m.state \in RunnerStates
      /\ row.revision \in Nat /\ m.revision \in Nat
  BY DEF Row, RowStates, Receipt, Ignores
<1>2. m.state \in OutboxActive \cup Terminal
  BY <1>1 DEF RunnerStates, OutboxActive, Terminal
<1>3. row.revision <= m.revision
  BY <1>1 DEF Ignores
<1>4. Rank[row.state] <= Rank[m.state]
  <2>1. CASE m.state \in Terminal
    BY <1>1, <1>2, <2>1, Ranked
  <2>2. CASE m.state \notin Terminal
    <3>1. Rank[row.state] \in 0..5 /\ Rank[m.state] \in 0..5
      BY <1>1, <1>2, Ranked
    <3> QED
      BY <2>2, <3>1 DEF Ignores
  <2> QED
    BY <2>1, <2>2
<1>5. row.state \in Terminal =>
        row.state = "uncertain" /\ m.state \in {"completed", "failed"}
  BY DEF Ignores, Refines
<1> QED
  BY <1>3, <1>4, <1>5

LEMMA ForwardShape ==
    ASSUME TypeOK, NEW c \in Command, RowShape(c), HasRow(c),
           rows'[c].state # "pruned"
    PROVE  /\ Rank[rows'[c].state] >= Rank[rows[c].state]
           /\ rows'[c].revision >= rows[c].revision
           /\ rows[c].state \in Terminal /\ rows'[c].state # rows[c].state
                => /\ rows[c].state = "uncertain"
                   /\ rows'[c].state \in {"completed", "failed"}
<1>1. /\ rows[c] \in Row /\ rows[c].revision \in Nat
      /\ rows[c].state \in OutboxActive \cup Terminal
  BY DEF TypeOK, OutboxTypeOK, Row, HasRow
<1>2. Rank[rows[c].state] \in 0..5
  BY <1>1, Ranked
<1>3. CASE rows'[c] = rows[c]
  BY <1>1, <1>2, <1>3
<1>4. CASE IsStaged(c)
  BY <1>1, <1>4 DEF IsStaged, OutboxActive, Terminal
<1>5. CASE IsEnded(c)
  <2>1. /\ rows'[c].state \in Terminal
        /\ rows'[c].revision = rows[c].revision + 1
        /\ rows[c].state \notin Terminal
    BY <1>5 DEF IsEnded, Ended, EndedState, Terminal, Active, OutboxActive
  <2>2. Rank[rows[c].state] <= Rank[rows'[c].state]
        /\ Rank[rows'[c].state] \in 0..5
    BY <1>1, <2>1, Ranked
  <2> QED
    BY <1>1, <1>2, <2>1, <2>2
<1>6. CASE IsDismissed(c)
  BY <1>1, <1>2, <1>6 DEF IsDismissed, Dismissed
<1>7. CASE IsMarked(c)
  <2>1. /\ rows[c].state = "pending" /\ rows'[c].state = "sent"
        /\ rows'[c].revision = rows[c].revision
    BY <1>1, <1>7 DEF IsMarked, Row
  <2>2. Rank["pending"] <= Rank["sent"]
    BY <1>1, Ranked
  <2> QED
    BY <1>1, <1>2, <2>1, <2>2 DEF Rank, Terminal
<1>8. CASE IsApplied(c)
  <2>1. PICK m \in Said : rows'[c] = Applied(rows[c], m)
    BY <1>8 DEF IsApplied
  <2>2. m \in Receipt
    BY DEF Said, TypeOK
  <2>3. CASE Ignores(rows[c], m)
    BY <1>1, <1>2, <2>1, <2>3 DEF Applied
  <2>4. CASE ~Ignores(rows[c], m)
    <3>1. rows'[c].state = m.state /\ rows'[c].revision = m.revision
      BY <2>1, <2>4 DEF Applied
    <3>2. /\ Rank[rows[c].state] <= Rank[m.state]
          /\ rows[c].revision <= m.revision
          /\ rows[c].state \in Terminal =>
               rows[c].state = "uncertain" /\ m.state \in {"completed", "failed"}
      BY <1>1, <2>2, <2>4, AppliedForward
    <3>3. m.revision \in Nat /\ m.state \in OutboxActive \cup Terminal
      BY <2>2 DEF Receipt, RunnerStates, OutboxActive, Terminal
    <3>4. Rank[m.state] \in 0..5
      BY <3>3, Ranked
    <3> QED
      BY <1>1, <1>2, <3>1, <3>2, <3>3, <3>4
  <2> QED
    BY <2>3, <2>4
<1>9. CASE IsPruned(c)
  BY <1>9 DEF IsPruned, EmptyRow
<1> QED
  BY <1>3, <1>4, <1>5, <1>6, <1>7, <1>8, <1>9 DEF RowShape

LEMMA StepForward ==
    ASSUME IInv, RowsBacked, [Next]_vars
    PROVE  RowMovesForward
<1> SUFFICES ASSUME NEW c \in Command, HasRow(c), rows'[c].state # "pruned"
             PROVE  /\ Rank[rows'[c].state] >= Rank[rows[c].state]
                    /\ rows'[c].revision >= rows[c].revision
                    /\ rows[c].state \in Terminal
                         /\ rows'[c].state # rows[c].state
                         => /\ rows[c].state = "uncertain"
                            /\ rows'[c].state \in {"completed", "failed"}
  BY DEF RowMovesForward
<1>1. TypeOK /\ RowShape(c)
  BY StepShape DEF IInv
<1> QED
  BY <1>1, ForwardShape

-----------------------------------------------------------------------------
(* Evidence.  What EvidenceInv says of the runner's side of one command.   *)

Evident(d) ==
    /\ delivered[d] > 0 =>
          /\ d \in userLog
          /\ IF Stored(d) THEN records[d].state \in {"started"} \cup Terminal
                          ELSE deadline[d] < now
    /\ records[d].state \in Terminal => turn[d] = "idle"
    /\ turn[d] = "held" => d \notin userLog
    /\ turn[d] \in {"started", "submitted"} =>
          records[d].state \in {"none", "started"}
    /\ Stored(d) => Backed(d, records[d])

LEMMA AllEvident ==
    (\A d \in Command : Evident(d))
      <=> DeliveryLeavesEvidence /\ TurnEvidence /\ RecordsBacked
BY DEF Evident, DeliveryLeavesEvidence, TurnEvidence, RecordsBacked

\* What a step keeps of what was said of d before it.
Onward(d) ==
    /\ delivered[d] <= delivered'[d]
    /\ Unsent(d) => Unsent(d)'
    /\ Stored(d)' \/ now' <= deadline'[d] =>
          /\ Stored(d) \/ now <= deadline[d]
          /\ Limit(d) <= Limit(d)'

LEMMA LimitType ==
    ASSUME TypeOK, NEW d \in Command
    PROVE  Limit(d) \in Nat
BY DEF TypeOK, JournalTypeOK, Record, Limit

LEMMA BackedStays ==
    ASSUME TypeOK, TypeOK', NEW d \in Command, Onward(d),
           NEW account, account.revision \in Nat, Backed(d, account)
    PROVE  Backed(d, account)'
<1>1. /\ Limit(d) \in Nat /\ delivered[d] \in Nat
  BY LimitType DEF TypeOK
<1>2. Limit(d)' \in Nat /\ delivered'[d] \in Nat
  <2>1. TypeOK' => Limit(d)' \in Nat
    BY DEF TypeOK, JournalTypeOK, Record, Limit
  <2> QED
    BY <2>1 DEF TypeOK
<1>3. account.state = "completed" => delivered'[d] > 0
  BY <1>1, <1>2 DEF Backed, Onward
<1>4. account.state = "failed" /\ account.code = "retryable" => Unsent(d)'
  BY DEF Backed, Onward
<1>5. Stored(d)' \/ now' <= deadline'[d] =>
        /\ account.revision <= Limit(d)'
        /\ account.state \notin Terminal => account.revision < Limit(d)'
  <2>1. SUFFICES ASSUME Stored(d)' \/ now' <= deadline'[d]
                 PROVE  /\ account.revision <= Limit(d)'
                        /\ account.state \notin Terminal =>
                              account.revision < Limit(d)'
    OBVIOUS
  <2>2. Limit(d) <= Limit(d)' /\ (Stored(d) \/ now <= deadline[d])
    BY <2>1 DEF Onward
  <2>3. /\ account.revision <= Limit(d)
        /\ account.state \notin Terminal => account.revision < Limit(d)
    BY <2>2 DEF Backed
  <2> QED
    BY <1>1, <1>2, <2>2, <2>3
<1> QED
  BY <1>3, <1>4, <1>5 DEF Backed

\* The shapes a step of the runner or its surroundings can have for d.
\* Nothing was written for d; its turn, if it had one, may be gone.
Rests(d) ==
    /\ Lingers(d)
    /\ turn'[d] \in {turn[d], "idle"}

\* A first record.
Accepts(d) ==
    /\ ~Stored(d) /\ Fresh(deadline[d])
    /\ records'[d].state = "accepted" /\ records'[d].revision = 1
    /\ turn'[d] \in {turn[d], "claimed"}

\* A transition of the record, with what becomes of the turn.
Writes(d) ==
    /\ Stored(d) /\ records[d].state \notin Terminal
    /\ records'[d].state \in RunnerStates
    /\ records'[d].revision = records[d].revision + 1
    /\ records'[d].state \in Terminal => turn'[d] = "idle"
    /\ turn'[d] = "held" => d \notin userLog
    /\ turn'[d] \in {"started", "submitted"} => records'[d].state = "started"
    /\ records'[d].state = "completed" => delivered[d] > 0
    /\ records'[d].state = "failed" /\ records'[d].code = "retryable"
         => delivered[d] = 0
    /\ delivered[d] > 0 => records'[d].state \in {"started"} \cup Terminal

\* A turn goes on without a write.
Moves(d) ==
    /\ records'[d] = records[d]
    /\ turn[d] # "idle" /\ turn'[d] \notin {"idle", "held"}
    /\ turn'[d] \in {"started", "submitted"} =>
          turn[d] \in {"started", "submitted"}
    /\ delivered[d] <= delivered'[d]
    /\ delivered'[d] # delivered[d] => turn[d] = "started"
    /\ d \in userLog => d \in userLog'

Shaped(d) ==
    \/ Moves(d)
    \/ /\ delivered'[d] = delivered[d] /\ (d \in userLog' <=> d \in userLog)
       /\ Rests(d) \/ Accepts(d) \/ Writes(d)

LEMMA RestsGoesOn ==
    ASSUME IInv, NEW d \in Command, Evident(d), Rests(d), now <= now',
           now' \in Nat, deadline'[d] = deadline[d],
           delivered'[d] = delivered[d], d \in userLog' <=> d \in userLog
    PROVE  Onward(d) /\ Evident(d)'
<1>1. /\ now \in Nat /\ deadline[d] \in Nat /\ delivered[d] \in Nat
      /\ records[d] \in Record
  BY DEF IInv, TypeOK, OutboxTypeOK, JournalTypeOK
<1>2. CASE records'[d] = records[d]
  <2>1. (Stored(d)' <=> Stored(d)) /\ Limit(d)' = Limit(d)
    BY <1>2 DEF Stored, Limit
  <2>2. Unsent(d) => Unsent(d)'
    BY <1>1, <1>2, <2>1 DEF Unsent, Rests
  <2>3. Onward(d)
    <3>1. Limit(d) \in Nat
      BY LimitType DEF IInv
    <3> QED
      BY <1>1, <2>1, <2>2, <3>1 DEF Onward
  <2>4. /\ delivered'[d] > 0 =>
              /\ d \in userLog'
              /\ IF Stored(d)' THEN records'[d].state \in {"started"} \cup Terminal
                               ELSE deadline'[d] < now'
        /\ records'[d].state \in Terminal => turn'[d] = "idle"
        /\ turn'[d] = "held" => d \notin userLog'
        /\ turn'[d] \in {"started", "submitted"} =>
              records'[d].state \in {"none", "started"}
    BY <1>1, <1>2, <2>1 DEF Evident, Rests
  <2>5. Stored(d)' => Backed(d, records[d])'
    <3>1. SUFFICES ASSUME Stored(d)' PROVE Backed(d, records[d])'
      OBVIOUS
    <3>2. Backed(d, records[d])
      BY <2>1, <3>1 DEF Evident
    <3> QED
      BY <1>1, <1>2, <2>1, <2>2, <3>1, <3>2 DEF Backed
  <2> QED
    BY <2>3, <2>4, <2>5 DEF Evident
<1>3. CASE records[d].expiresAt < now /\ Stored(d) /\ records'[d] = NoRecord
  <2>1. deadline[d] < now /\ ~Stored(d)'
    BY <1>3 DEF IInv, RecordDeadlines, Stored, NoRecord
  <2>2. deadline'[d] < now' /\ records'[d].state = "none"
    BY <1>1, <1>3, <2>1 DEF NoRecord
  <2>3. Onward(d)
    BY <1>1, <2>1, <2>2 DEF Onward, Unsent, Rests
  <2> QED
    BY <1>1, <2>1, <2>2, <2>3 DEF Evident, Rests, Terminal
<1> QED
  BY <1>2, <1>3 DEF Rests, Lingers

LEMMA AcceptsGoesOn ==
    ASSUME IInv, IInv', NEW d \in Command, Evident(d), Accepts(d),
           UNCHANGED now, deadline'[d] = deadline[d],
           delivered'[d] = delivered[d], d \in userLog' <=> d \in userLog
    PROVE  Onward(d) /\ Evident(d)'
<1>1. /\ now \in Nat /\ deadline[d] \in Nat /\ delivered[d] \in Nat
      /\ records'[d] \in Record
  BY DEF IInv, TypeOK, OutboxTypeOK, JournalTypeOK
<1>2. now < deadline[d] /\ ~(deadline[d] < now)
  BY <1>1 DEF Accepts, Fresh
<1>3. turn[d] = "idle" /\ delivered[d] = 0 /\ ~Unsent(d)
  BY <1>1, <1>2 DEF Accepts, IInv, HeldInv, Held, Evident, Unsent
<1>4. /\ turn'[d] \in {"idle", "claimed"} /\ delivered'[d] = 0
      /\ records'[d].state = "accepted" /\ records'[d].revision = 1
  BY <1>3 DEF Accepts
<1>5. Stored(d)' /\ Limit(d)' = 2 /\ Limit(d) = 1
  BY <1>4 DEF Stored, Limit, Terminal, Accepts
<1>6. Onward(d)
  BY <1>1, <1>2, <1>3, <1>5 DEF Onward
<1>7. Backed(d, records[d])'
  BY <1>4, <1>5 DEF Backed
<1> QED
  BY <1>1, <1>4, <1>6, <1>7 DEF Evident, Terminal

LEMMA WritesGoesOn ==
    ASSUME IInv, IInv', NEW d \in Command, Evident(d), Writes(d),
           UNCHANGED now, deadline'[d] = deadline[d],
           delivered'[d] = delivered[d], d \in userLog' <=> d \in userLog
    PROVE  Onward(d) /\ Evident(d)'
<1>1. /\ now \in Nat /\ deadline[d] \in Nat /\ delivered[d] \in Nat
      /\ records[d].revision \in Nat
  BY DEF IInv, TypeOK, OutboxTypeOK, JournalTypeOK, Record
<1>2. Stored(d) /\ Stored(d)' /\ ~Unsent(d)
  BY DEF Writes, Stored, Unsent, RunnerStates, Terminal
<1>3. Limit(d) = records[d].revision + 1
  BY <1>2 DEF Limit, Writes
<1>4. /\ records'[d].state \in Terminal
           => Limit(d)' = records[d].revision + 1
      /\ records'[d].state \notin Terminal
           => Limit(d)' = records[d].revision + 1 + 1
  BY <1>2 DEF Limit, Writes
<1>5. Onward(d)
  BY <1>1, <1>2, <1>3, <1>4 DEF Onward
<1>6. /\ delivered'[d] > 0 =>
            /\ d \in userLog'
            /\ records'[d].state \in {"started"} \cup Terminal
      /\ records'[d].state \in Terminal => turn'[d] = "idle"
      /\ turn'[d] = "held" => d \notin userLog'
      /\ turn'[d] \in {"started", "submitted"} =>
            records'[d].state \in {"none", "started"}
  BY <1>1 DEF Writes, Evident
<1>7. Backed(d, records[d])'
  <2>1. records'[d].state = "completed" => delivered'[d] > 0
    BY DEF Writes
  <2>2. records'[d].state = "failed" /\ records'[d].code = "retryable"
          => Unsent(d)'
    BY <1>2, <1>6 DEF Writes, Unsent, Terminal
  <2>3. /\ records'[d].revision <= Limit(d)'
        /\ records'[d].state \notin Terminal
             => records'[d].revision < Limit(d)'
    BY <1>1, <1>4 DEF Writes
  <2> QED
    BY <2>1, <2>2, <2>3 DEF Backed
<1> QED
  BY <1>2, <1>5, <1>6, <1>7 DEF Evident

LEMMA MovesGoesOn ==
    ASSUME IInv, IInv', NEW d \in Command, Evident(d), Moves(d),
           UNCHANGED now, deadline'[d] = deadline[d]
    PROVE  Onward(d) /\ Evident(d)'
<1>1. /\ now \in Nat /\ deadline[d] \in Nat /\ delivered[d] \in Nat
      /\ delivered'[d] \in Nat
  BY DEF IInv, TypeOK, OutboxTypeOK, JournalTypeOK
<1>2. (Stored(d)' <=> Stored(d)) /\ Limit(d)' = Limit(d)
      /\ records[d].state \notin Terminal /\ ~Unsent(d)
  BY DEF Moves, Stored, Limit, Evident, Unsent
<1>3. Onward(d)
  <2>1. Limit(d) \in Nat
    BY LimitType DEF IInv
  <2> QED
    BY <1>1, <1>2, <2>1 DEF Onward, Moves
<1>4. Stored(d)' => Backed(d, records[d])'
  <2>1. SUFFICES ASSUME Stored(d)' PROVE Backed(d, records[d])'
    OBVIOUS
  <2>2. Backed(d, records[d])
    BY <1>2, <2>1 DEF Evident
  <2>3. records'[d] = records[d]
    BY DEF Moves
  <2> QED
    BY <1>2, <2>1, <2>2, <2>3 DEF Backed, Terminal
<1>5. /\ turn'[d] \in {"started", "submitted"} =>
            records'[d].state \in {"none", "started"}
      /\ records'[d].state \notin Terminal /\ turn'[d] # "held"
  BY <1>2 DEF Moves, Evident
<1>6. ASSUME delivered'[d] > 0
      PROVE  /\ d \in userLog'
             /\ IF Stored(d)' THEN records'[d].state \in {"started"} \cup Terminal
                              ELSE deadline'[d] < now'
  <2>1. CASE delivered[d] > 0
    BY <1>2, <2>1 DEF Evident, Moves
  <2>2. CASE ~(delivered[d] > 0)
    <3>1. turn[d] = "started"
      BY <1>1, <1>6, <2>2 DEF Moves
    <3>2. d \in userLog /\ records[d].state \in {"none", "started"}
      BY <3>1 DEF IInv, FenceInv, Evident
    <3>3. ~Stored(d) => deadline[d] < now
      BY <3>1 DEF IInv, HeldInv, Held
    <3> QED
      BY <1>2, <3>2, <3>3 DEF Moves, Stored
  <2> QED
    BY <2>1, <2>2
<1> QED
  BY <1>3, <1>4, <1>5, <1>6 DEF Evident

LEMMA ShapedGoesOn ==
    ASSUME IInv, IInv', NEW d \in Command, Evident(d), Shaped(d),
           UNCHANGED now, deadline'[d] = deadline[d]
    PROVE  Onward(d) /\ Evident(d)'
<1>1. now \in Nat /\ now <= now'
  BY DEF IInv, TypeOK
<1>2. CASE Moves(d)
  BY <1>2, MovesGoesOn
<1>3. CASE /\ delivered'[d] = delivered[d] /\ (d \in userLog' <=> d \in userLog)
           /\ Rests(d)
  BY <1>1, <1>3, RestsGoesOn
<1>4. CASE /\ delivered'[d] = delivered[d] /\ (d \in userLog' <=> d \in userLog)
           /\ Accepts(d)
  BY <1>4, AcceptsGoesOn
<1>5. CASE /\ delivered'[d] = delivered[d] /\ (d \in userLog' <=> d \in userLog)
           /\ Writes(d)
  BY <1>5, WritesGoesOn
<1> QED
  BY <1>2, <1>3, <1>4, <1>5 DEF Shaped

-----------------------------------------------------------------------------
(* The session manager's steps have these shapes.                          *)

\* A terminal receipt, written or not.
LEMMA FinishShape ==
    ASSUME IInv, NEW c \in Command, Evident(c), NEW from, NEW to \in Terminal,
           NEW code, turn[c] # "idle", Finish(c, from, to, code),
           to = "completed" => delivered[c] > 0,
           to = "failed" /\ code = "retryable" => delivered[c] = 0
    PROVE  Shaped(c)
<1>1. /\ records \in [Command -> Record] /\ turn \in [Command -> Phases]
      /\ delivered[c] \in Nat
  BY DEF IInv, TypeOK, JournalTypeOK
<1>2. turn'[c] = "idle" /\ UNCHANGED <<userLog, delivered>>
  BY <1>1 DEF Finish, Turn
<1>3. records[c].state \notin Terminal
  BY DEF Evident
<1>4. CASE records' = records
  BY <1>2, <1>4 DEF Shaped, Rests, Lingers
<1>5. CASE records' # records
  <2>1. /\ Stored(c)
        /\ records' = [records EXCEPT
             ![c] = Next_(runner, c, to, code, FALSE, records[c].steering)]
    BY <1>5 DEF Finish, Settle, SettleThrows, Current
  <2>2. /\ records'[c].state = to /\ records'[c].code = code
        /\ records'[c].revision = records[c].revision + 1
    BY <1>1, <2>1 DEF Next_
  <2>3. Writes(c)
    BY <1>2, <1>3, <2>1, <2>2 DEF Writes, RunnerStates, Terminal
  <2> QED
    BY <1>2, <2>3 DEF Shaped
<1> QED
  BY <1>4, <1>5

\* A transition to a state short of the end: the transcript or the journal
\* still says that nothing was delivered.
LEMMA AdvanceShape ==
    ASSUME IInv, NEW c \in Command, Evident(c), NEW code,
           NEW userEvent, NEW steering, turn[c] # "idle",
           NEW to \in {"queued", "started"},
           NEW phase \in {"idle", "held", "queued", "started"},
           turn' = [turn EXCEPT ![c] = phase],
           UNCHANGED <<userLog, delivered>>,
           Stored(c), TransitionAllowed(records[c].state, to),
           records' = [records EXCEPT ![c] =
                         Next_(runner, c, to, code, userEvent, steering)],
           phase = "held" => c \notin userLog,
           phase = "started" => to = "started"
    PROVE  Shaped(c)
<1>1. /\ records \in [Command -> Record] /\ turn \in [Command -> Phases]
      /\ delivered[c] \in Nat
  BY DEF IInv, TypeOK, JournalTypeOK
<1>2. turn'[c] = phase
  BY <1>1
<1>3. records[c].state \notin Terminal
  BY DEF Evident
<1>4. /\ records'[c].state = to
      /\ records'[c].revision = records[c].revision + 1
  BY <1>1 DEF Next_
<1>5. delivered[c] > 0 => to = "started"
  BY <1>3 DEF Evident, TransitionAllowed, Terminal
<1>6. Writes(c)
  BY <1>2, <1>3, <1>4, <1>5 DEF Writes, RunnerStates, Terminal
<1> QED
  BY <1>6 DEF Shaped

\* queued() or started() throws and the caller fails the command.
LEMMA ThrownShape ==
    ASSUME IInv, NEW c \in Command, Evident(c), NEW from,
           NEW to \in {"queued", "started"}, NEW userEvent,
           turn[c] # "idle", Thrown(c, from, to, userEvent)
    PROVE  Shaped(c)
<1>1. /\ records \in [Command -> Record] /\ turn \in [Command -> Phases]
      /\ delivered[c] \in Nat
  BY DEF IInv, TypeOK, JournalTypeOK
<1>2. turn' = [turn EXCEPT ![c] = "idle"] /\ turn'[c] = "idle"
      /\ UNCHANGED <<userLog, delivered>>
  BY <1>1 DEF Thrown, Turn
<1>3. records[c].state \notin Terminal
  BY DEF Evident
<1>4. CASE records' = records
  BY <1>2, <1>4 DEF Shaped, Rests, Lingers
<1>5. CASE /\ Current(runner, c) /\ TransitionAllowed(records[c].state, to)
           /\ records' = [records EXCEPT
                ![c] = Next_(runner, c, to, "none", userEvent, FALSE)]
  BY <1>2, <1>5, AdvanceShape DEF Current
<1>6. CASE /\ Current(runner, c)
           /\ records' = [records EXCEPT ![c] =
                Next_(runner, c, "failed", "other", FALSE,
                      records[c].steering)]
  <2>1. /\ records'[c].state = "failed" /\ records'[c].code = "other"
        /\ records'[c].revision = records[c].revision + 1
    BY <1>1, <1>6 DEF Next_
  <2>2. Writes(c)
    BY <1>2, <1>3, <1>6, <2>1 DEF Writes, RunnerStates, Terminal, Current
  <2> QED
    BY <1>2, <2>2 DEF Shaped
<1> QED
  BY <1>4, <1>5, <1>6 DEF Thrown, Throw

LEMMA SessionShape ==
    ASSUME IInv, NEW c \in Command, Evident(c), SessionStep(c),
           NEW d \in Command
    PROVE  Shaped(d)
<1>0. TurnStep(c) /\ turn[c] # "idle" /\ FenceStep(c)
  BY SessionTurnStep, SessionFenceStep DEF IInv
<1>1. CASE d # c
  <2>1. Rests(d)
    BY <1>0, <1>1 DEF TurnStep, Rests, Lingers
  <2> QED
    BY <1>0, <1>1, <2>1 DEF FenceStep, Shaped
<1> SUFFICES Shaped(c)
  BY <1>1
<1>2. delivered[c] \in Nat /\ turn \in [Command -> Phases]
      /\ delivered \in [Command -> Nat] /\ (c \notin userLog => delivered[c] = 0)
  BY DEF IInv, TypeOK, FenceInv
<1>3. CASE AdmitReplay(c) \/ RefuseAdmission(c) \/ RejectQueued(c)
           \/ FailPreparing(c) \/ CancelStarted(c) \/ EndTurn(c)
  <2>1. CASE AdmitReplay(c) \/ RejectQueued(c) \/ CancelStarted(c)
    BY <1>0, <2>1, FinishShape
       DEF AdmitReplay, RejectQueued, CancelStarted, Terminal
  <2>2. CASE RefuseAdmission(c)
    BY <1>0, <1>2, <2>2, FinishShape DEF RefuseAdmission, Terminal
  <2>3. CASE FailPreparing(c)
    <3>1. turn[c] = "preparing"
      BY <2>3 DEF FailPreparing, Finish, Turn
    <3>2. delivered[c] = 0
      BY <1>2, <3>1 DEF IInv, FenceInv
    <3> QED
      BY <1>0, <2>3, <3>2, FinishShape DEF FailPreparing, Terminal
  <2>4. CASE EndTurn(c)
    BY <1>0, <1>2, <2>4, FinishShape DEF EndTurn, Terminal
  <2> QED
    BY <1>3, <2>1, <2>2, <2>3, <2>4
<1>4. CASE AdmitThrows(c) \/ MarkStartedThrows(c)
  BY <1>0, <1>4, ThrownShape DEF AdmitThrows, MarkStartedThrows
<1>5. CASE Admit(c)
  BY <1>0, <1>5, AdvanceShape
     DEF Admit, Turn, Queued, Advance, Current
<1>6. CASE RetainForSignIn(c)
  BY <1>0, <1>6, AdvanceShape
     DEF RetainForSignIn, Turn, Queued, Advance, Current
<1>7. CASE MarkStarted(c)
  BY <1>0, <1>7, AdvanceShape
     DEF MarkStarted, Turn, Started, Advance, Current
<1>8. CASE BeginTurn(c) \/ PublishUserEvent(c)
  <2>1. /\ turn'[c] \in {"preparing", "begun"} /\ records' = records
        /\ delivered' = delivered /\ (c \in userLog => c \in userLog')
    BY <1>2, <1>8 DEF BeginTurn, PublishUserEvent, Turn, journalVars
  <2>2. Moves(c)
    BY <1>0, <1>2, <2>1 DEF Moves
  <2> QED
    BY <2>2 DEF Shaped
<1>9. CASE Submit(c)
  <2>1. /\ turn[c] = "started" /\ turn'[c] = "submitted"
        /\ records' = records /\ userLog' = userLog
    BY <1>2, <1>9 DEF Submit, Turn, journalVars
  <2>2. PICK took \in {0, 1} :
           delivered' = [delivered EXCEPT ![c] = @ + took]
    BY <1>9 DEF Submit
  <2>3. delivered'[c] = delivered[c] + took
    BY <1>2, <2>2
  <2>4. Moves(c)
    BY <1>2, <2>1, <2>3 DEF Moves
  <2> QED
    BY <2>4 DEF Shaped
<1>10. CASE AbandonTurn(c)
  <2>1. turn'[c] = "idle" /\ UNCHANGED <<records, userLog, delivered>>
    BY <1>2, <1>10 DEF AbandonTurn, Turn, journalVars
  <2> QED
    BY <2>1 DEF Shaped, Rests, Lingers
<1> QED
  BY <1>3, <1>4, <1>5, <1>6, <1>7, <1>8, <1>9, <1>10 DEF SessionStep

-----------------------------------------------------------------------------
(* So have the answers to frames, and everything around the runner.        *)

LEMMA OrphanIsIdle ==
    ASSUME IInv, runner \in Proc, NEW c \in Command, Stored(c),
           Orphaned(runner, c)
    PROVE  turn[c] = "idle"
BY DEF IInv, HeldInv, Held, Orphaned, TypeOK, JournalTypeOK

\* The answer to a frame about command c.
AnswersAbout(c) ==
    /\ Head(down).expiresAt = deadline[c]
    /\ \/ Claimed(c) \/ AnsweredFromJournal(c)
       \/ JournalFull(c) \/ ExpiredInFlight(c)
       \/ ClaimThrows(runner, c, Head(down).expiresAt)
            /\ UNCHANGED <<up, buffered, sessionVars>>

LEMMA FrameAbout ==
    ASSUME IInv, AnswerCommand \/ CommandThrows
    PROVE  /\ runner \in Proc /\ UNCHANGED <<now, outboxVars, runner>>
           /\ \E c \in Command : /\ AnswersAbout(c)
                                 /\ rows[c].state \notin {"absent", "pending"}
<1>1. /\ runner \in Proc /\ down # <<>> /\ down[1].type = "command"
      /\ 1 \in DOMAIN down /\ Head(down) = down[1]
      /\ Head(down) \in DownFrame /\ UNCHANGED <<now, outboxVars, runner>>
  BY DEF AnswerCommand, CommandThrows, IsFrame, RunnerOnly, IInv, TypeOK
<1>2. PICK c \in Command :
        /\ c = Head(down).c
        /\ Head(down).expiresAt = deadline[c]
        /\ rows[c].state \notin {"absent", "pending"}
  BY <1>1 DEF DownFrame, IInv, FrameDeadlines, PendingIsUntouched
<1>3. AnswersAbout(c)
  BY <1>2 DEF AnswerCommand, CommandThrows, AnswersAbout
<1> QED
  BY <1>1, <1>2, <1>3

\* The other commands: at most their expired records went.
LEMMA AnswerLeaves ==
    ASSUME IInv, NEW c \in Command, AnswersAbout(c), NEW d \in Command, d # c
    PROVE  Rests(d) /\ UNCHANGED <<userLog, delivered>>
<1>0. /\ records \in [Command -> Record] /\ turn \in [Command -> Phases]
      /\ AfterRoom \in [Command -> Record]
  BY RoomType DEF IInv, TypeOK, JournalTypeOK
<1>1. turn'[d] = turn[d] /\ UNCHANGED <<userLog, delivered>>
  BY <1>0 DEF AnswersAbout, Claimed, AnsweredFromJournal, JournalFull,
              ExpiredInFlight, sessionVars
<1>2. \/ records' = records
      \/ records' = AfterRoom
      \/ \E rec : \/ records' = [records EXCEPT ![c] = rec]
                  \/ records' = [AfterRoom EXCEPT ![c] = rec]
  BY DEF AnswersAbout, Claimed, AnsweredFromJournal, JournalFull,
         ExpiredInFlight, ClaimNew, ClaimReclaim, ClaimLost, ClaimDuplicate,
         ClaimFull, ClaimThrows, Accept, Reclaim, Lose, journalVars
<1>3. records'[d] \in {records[d], AfterRoom[d]}
  BY <1>0, <1>2
<1>4. Lingers(d)
  BY <1>3 DEF AfterRoom, Pruned, Lingers
<1> QED
  BY <1>1, <1>4 DEF Rests

LEMMA AcceptShape ==
    ASSUME IInv, NEW c \in Command, NEW expiresAt,
           Fresh(expiresAt), expiresAt = deadline[c],
           Accept(runner, c, expiresAt),
           turn'[c] \in {turn[c], "claimed"}
    PROVE  Accepts(c)
<1>1. AfterRoom \in [Command -> Record]
  BY RoomType DEF IInv, TypeOK
<1> QED
  BY <1>1 DEF Accept, Accepted, Accepts

LEMMA ReclaimShape ==
    ASSUME IInv, runner \in Proc, NEW c \in Command, Evident(c),
           Reclaim(runner, c), turn'[c] \in {turn[c], "claimed"}
    PROVE  Writes(c)
<1>1. records \in [Command -> Record] /\ delivered[c] \in Nat
  BY DEF IInv, TypeOK, JournalTypeOK
<1>2. Stored(c) /\ turn[c] = "idle"
  BY OrphanIsIdle DEF Reclaim, Stored
<1>3. /\ records[c].state \in {"accepted", "queued"}
      /\ records'[c].state = "accepted" /\ records'[c].code = "none"
      /\ records'[c].revision = records[c].revision + 1
  BY <1>1 DEF Reclaim, Next_
<1>4. ~(delivered[c] > 0)
  BY <1>2, <1>3 DEF Evident, Terminal
<1> QED
  BY <1>2, <1>3, <1>4 DEF Writes, RunnerStates, Terminal

LEMMA LoseShape ==
    ASSUME IInv, runner \in Proc, NEW c \in Command, Evident(c),
           Lose(runner, c), turn'[c] = turn[c]
    PROVE  Writes(c)
<1>1. records \in [Command -> Record] /\ delivered[c] \in Nat
  BY DEF IInv, TypeOK, JournalTypeOK
<1>2. Stored(c) /\ turn[c] = "idle"
  BY OrphanIsIdle DEF Lose, Stored
<1>3. /\ records[c].state = "started" /\ records'[c].state = "uncertain"
      /\ records'[c].revision = records[c].revision + 1
  BY <1>1 DEF Lose, Next_
<1> QED
  BY <1>2, <1>3 DEF Writes, RunnerStates, Terminal

LEMMA AnswerShape ==
    ASSUME IInv, runner \in Proc, NEW c \in Command, Evident(c),
           AnswersAbout(c), NEW d \in Command
    PROVE  Shaped(d)
<1>1. CASE d # c
  BY <1>1, AnswerLeaves DEF Shaped
<1> SUFFICES Shaped(c)
  BY <1>1
<1>2. /\ turn \in [Command -> Phases] /\ UNCHANGED <<userLog, delivered>>
      /\ Head(down).expiresAt = deadline[c]
  BY DEF AnswersAbout, Claimed, AnsweredFromJournal, JournalFull,
         ExpiredInFlight, sessionVars, IInv, TypeOK
<1>3. CASE Claimed(c)
  <2>1. turn'[c] = "claimed"
    BY <1>2, <1>3 DEF Claimed
  <2>2. Accepts(c) \/ Writes(c)
    BY <1>2, <1>3, <2>1, AcceptShape, ReclaimShape
       DEF Claimed, ClaimNew, ClaimReclaim
  <2> QED
    BY <1>2, <2>2 DEF Shaped
<1>4. CASE AnsweredFromJournal(c)
  <2>1. turn'[c] = turn[c]
    BY <1>4 DEF AnsweredFromJournal, sessionVars
  <2>2. CASE ClaimLost(runner, c, Head(down).expiresAt)
    <3>1. Writes(c)
      BY <2>1, <2>2, LoseShape DEF ClaimLost
    <3> QED
      BY <1>2, <3>1 DEF Shaped
  <2>3. CASE ClaimDuplicate(runner, c, Head(down).expiresAt)
    BY <1>2, <2>1, <2>3 DEF ClaimDuplicate, Shaped, Rests, Lingers
  <2> QED
    BY <1>4, <2>2, <2>3 DEF AnsweredFromJournal
<1>5. CASE JournalFull(c) \/ ExpiredInFlight(c)
  <2>1. turn' = turn /\ records' \in {records, AfterRoom}
    BY <1>5 DEF JournalFull, ExpiredInFlight, ClaimFull, sessionVars,
                journalVars
  <2>2. Lingers(c)
    BY <2>1 DEF AfterRoom, Pruned, Lingers
  <2> QED
    BY <1>2, <2>1, <2>2 DEF Shaped, Rests
<1>6. CASE /\ ClaimThrows(runner, c, Head(down).expiresAt)
           /\ UNCHANGED <<up, buffered, sessionVars>>
  <2>1. turn'[c] = turn[c]
    BY <1>6 DEF sessionVars
  <2>2. CASE Accept(runner, c, Head(down).expiresAt)
    BY <1>2, <1>6, <2>1, <2>2, AcceptShape DEF ClaimThrows, Shaped
  <2>3. CASE Reclaim(runner, c) \/ Lose(runner, c)
    <3>1. Writes(c)
      BY <2>1, <2>3, ReclaimShape, LoseShape
    <3> QED
      BY <1>2, <3>1 DEF Shaped
  <2>4. CASE records' = AfterRoom
    <3>1. Lingers(c)
      BY <2>4 DEF AfterRoom, Pruned, Lingers
    <3> QED
      BY <1>2, <2>1, <3>1 DEF Shaped, Rests
  <2> QED
    BY <1>6, <2>2, <2>3, <2>4 DEF ClaimThrows
<1> QED
  BY <1>3, <1>4, <1>5, <1>6 DEF AnswersAbout

LEMMA StopShape ==
    ASSUME IInv, NEW d \in Command, Evident(d), ReceiveStop
    PROVE  Shaped(d)
<1>1. /\ records \in [Command -> Record] /\ turn \in [Command -> Phases]
      /\ delivered[d] \in Nat /\ UNCHANGED <<userLog, delivered>>
  BY DEF IInv, TypeOK, JournalTypeOK, ReceiveStop
<1> DEFINE queue == {c \in Command : turn[c] \in {"held", "queued"}}
<1>2. turn' = [c \in Command |-> IF c \in queue THEN "idle" ELSE turn[c]]
  BY DEF ReceiveStop
<1>3. PICK settled \in SUBSET {c \in queue : Current(runner, c)} :
         records' = [c \in Command |->
             IF c \in settled
             THEN Next_(runner, c, "failed",
                        IF turn[c] = "held" THEN "retryable" ELSE "other",
                        FALSE, FALSE)
             ELSE records[c]]
  BY DEF ReceiveStop
<1>4. CASE d \in settled
  <2>1. turn'[d] = "idle" /\ turn[d] \in {"held", "queued"} /\ Stored(d)
    BY <1>2, <1>3, <1>4 DEF Current
  <2>2. /\ records'[d].state = "failed"
        /\ records'[d].revision = records[d].revision + 1
    BY <1>3, <1>4 DEF Next_
  <2>3. records[d].state \notin Terminal /\ delivered[d] = 0
    BY <2>1 DEF Evident, IInv, FenceInv
  <2>4. Writes(d)
    BY <2>1, <2>2, <2>3 DEF Writes, RunnerStates, Terminal
  <2> QED
    BY <1>1, <2>4 DEF Shaped
<1>5. CASE d \notin settled
  BY <1>1, <1>2, <1>3, <1>5 DEF Shaped, Rests, Lingers
<1> QED
  BY <1>4, <1>5

LEMMA EnvironmentRests ==
    ASSUME IInv, NEW d \in Command,
           \/ Environment
           \/ CommandBusy
           \/ \E c \in Command : Republish(c)
           \/ UNCHANGED vars
    PROVE  /\ Rests(d) /\ now <= now' /\ UNCHANGED <<userLog, delivered>>
<1>1. now \in Nat /\ records \in [Command -> Record]
  BY DEF IInv, TypeOK, JournalTypeOK
<1>2. CASE Disconnect \/ Register \/ \E p \in Proc : LeaseLapses(p)
  BY <1>1, <1>2 DEF Disconnect, Register, LeaseLapses, Lapse, journalVars,
                    sessionVars, Rests, Lingers
<1>3. CASE Crash
  BY <1>1, <1>3 DEF Crash, Die, Rests, Lingers
<1>4. CASE ClockTick
  BY <1>1, <1>4 DEF ClockTick, Tick, journalVars, sessionVars, Rests, Lingers
<1>5. CASE \E p \in Proc : Start(p)
  BY <1>1, <1>5 DEF Start, Open, Pruned, sessionVars, Rests, Lingers
<1>6. CASE CommandBusy \/ (\E c \in Command : Republish(c)) \/ UNCHANGED vars
  BY <1>1, <1>6 DEF CommandBusy, Republish, RunnerOnly, vars, journalVars,
                    sessionVars, Rests, Lingers
<1> QED
  BY <1>2, <1>3, <1>4, <1>5, <1>6 DEF Environment

\* A step of anyone but the control plane.
LEMMA OthersGoOn ==
    ASSUME IInv, IInv', NEW d \in Command, \A c \in Command : Evident(c),
           [Next]_vars, ~ControlPlane
    PROVE  Onward(d) /\ Evident(d)'
<1>0. UNCHANGED outboxVars /\ now' \in Nat /\ deadline'[d] = deadline[d]
  BY RowsLeft DEF IInv, TypeOK, outboxVars
<1>1. ASSUME NEW c \in Command, SessionStep(c)
      PROVE  Onward(d) /\ Evident(d)'
  <2>1. UNCHANGED now
    BY <1>1, SessionTurnStep DEF IInv, TurnStep
  <2> QED
    BY <1>0, <1>1, <2>1, SessionShape, ShapedGoesOn
<1>2. CASE AnswerCommand \/ CommandThrows
  <2>1. PICK c \in Command : AnswersAbout(c) /\ runner \in Proc /\ now' = now
    BY <1>2, FrameAbout
  <2> QED
    BY <1>0, <2>1, AnswerShape, ShapedGoesOn
<1>3. CASE ReceiveStop
  <2>1. UNCHANGED now
    BY <1>3 DEF ReceiveStop, RunnerOnly
  <2> QED
    BY <1>0, <1>3, <2>1, StopShape, ShapedGoesOn
<1>4. CASE \/ Environment \/ CommandBusy \/ \E c \in Command : Republish(c)
           \/ UNCHANGED vars
  BY <1>0, <1>4, EnvironmentRests, RestsGoesOn
<1> QED
  BY <1>1, <1>2, <1>3, <1>4 DEF Next, Runner

-----------------------------------------------------------------------------
(* Receipts: a step adds at most an account the runner can answer for.     *)

Speaks(m) ==
    /\ m \in Receipt
    /\ rows[m.c].state \notin {"absent", "pending"}
    /\ \/ /\ m.state = "failed" /\ m.code = "other" /\ m.revision = 0
       \/ /\ records'[m.c].state # "none"
          /\ m.state = WireState(records'[m.c])
          /\ m.code = records'[m.c].code
          /\ m.revision = records'[m.c].revision

NothingElseSaid == \A m \in Said' : m \in Said \/ Speaks(m)

LEMMA SameSaid ==
    ASSUME UNCHANGED <<up, buffered>>
    PROVE  NothingElseSaid
BY DEF Said, NothingElseSaid

LEMMA OneMoreSaid ==
    ASSUME TypeOK, NEW x, SendUp(x), Speaks(x)
    PROVE  NothingElseSaid
<1>1. up \in Seq(Receipt) /\ buffered \in Seq(Receipt)
  BY DEF TypeOK
<1>2. up' \in {up, Append(up, x)} /\ buffered' \in {buffered, Append(buffered, x)}
  BY DEF SendUp
<1>3. ASSUME NEW n \in DOMAIN up' PROVE up'[n] = x \/ up'[n] \in Said
  <2>1. (n \in DOMAIN up /\ up'[n] = up[n]) \/ up'[n] = x
    BY <1>1, <1>2, <1>3
  <2> QED
    BY <2>1 DEF Said
<1>4. ASSUME NEW n \in DOMAIN buffered'
      PROVE  buffered'[n] = x \/ buffered'[n] \in Said
  <2>1. (n \in DOMAIN buffered /\ buffered'[n] = buffered[n])
        \/ buffered'[n] = x
    BY <1>1, <1>2, <1>4
  <2> QED
    BY <2>1 DEF Said
<1>5. \A m \in Said' : m = x \/ m \in Said
  BY <1>3, <1>4 DEF Said
<1> QED
  BY <1>5 DEF NothingElseSaid

LEMMA AccountSpeaks ==
    ASSUME TypeOK', NEW c \in Command, Stored(c)',
           rows[c].state \notin {"absent", "pending"}
    PROVE  Speaks(Update(c, records'[c])) /\ Speaks(Result(c, records'[c]))
<1>1. /\ Update(c, records'[c]) \in Receipt
      /\ Result(c, records'[c]) \in Receipt
  BY FrameType DEF TypeOK, JournalTypeOK, Stored
<1> QED
  BY <1>1 DEF Speaks, Update, Result, Stored

LEMMA RefusalSpeaks ==
    ASSUME NEW c \in Command, rows[c].state \notin {"absent", "pending"}
    PROVE  Speaks(Refused(c))
BY RefusedType DEF Speaks, Refused

LEMMA FinishSaid ==
    ASSUME IInv, TypeOK', NEW c \in Command, NEW from, NEW to, NEW code,
           turn[c] # "idle", Finish(c, from, to, code)
    PROVE  NothingElseSaid
<1>1. rows[c].state \notin {"absent", "pending"}
      /\ records \in [Command -> Record]
  BY DEF IInv, PendingIsUntouched, TypeOK, JournalTypeOK
<1>2. CASE UNCHANGED <<up, buffered>>
  BY <1>2, SameSaid
<1>3. CASE Settle(runner, c, to, code) /\ SendUp(Update(c, records'[c]))
  <2>1. Stored(c)'
    BY <1>1, <1>3 DEF Settle, Stored, Next_, Terminal
  <2> QED
    BY <1>1, <1>3, <2>1, AccountSpeaks, OneMoreSaid DEF IInv
<1> QED
  BY <1>2, <1>3 DEF Finish

LEMMA AdvanceSaid ==
    ASSUME IInv, TypeOK', NEW c \in Command, turn[c] # "idle",
           NEW to \in {"queued", "started"}, NEW code, NEW userEvent,
           NEW steering, Advance(runner, c, to, code, userEvent, steering),
           SendUp(Update(c, records'[c]))
    PROVE  NothingElseSaid
<1>1. rows[c].state \notin {"absent", "pending"}
      /\ records \in [Command -> Record]
  BY DEF IInv, PendingIsUntouched, TypeOK, JournalTypeOK
<1>2. Stored(c)'
  BY <1>1 DEF Advance, Stored, Next_
<1> QED
  BY <1>1, <1>2, AccountSpeaks, OneMoreSaid DEF IInv

LEMMA ThrownSaid ==
    ASSUME IInv, TypeOK', NEW c \in Command, NEW from, NEW to, NEW userEvent,
           turn[c] # "idle", Thrown(c, from, to, userEvent)
    PROVE  NothingElseSaid
<1>1. rows[c].state \notin {"absent", "pending"}
  BY DEF IInv, PendingIsUntouched
<1>2. CASE UNCHANGED <<up, buffered>>
  BY <1>2, SameSaid
<1>3. CASE records'[c].state = "failed" /\ SendUp(Update(c, records'[c]))
  <2>1. Stored(c)'
    BY <1>3 DEF Stored
  <2> QED
    BY <1>1, <1>3, <2>1, AccountSpeaks, OneMoreSaid DEF IInv
<1> QED
  BY <1>2, <1>3 DEF Thrown

LEMMA SessionSaid ==
    ASSUME IInv, TypeOK', NEW c \in Command, SessionStep(c)
    PROVE  NothingElseSaid
<1>0. turn[c] # "idle"
  BY SessionTurnStep DEF IInv
<1>1. CASE AdmitReplay(c) \/ RefuseAdmission(c) \/ RejectQueued(c)
           \/ FailPreparing(c) \/ CancelStarted(c) \/ EndTurn(c)
  BY <1>0, <1>1, FinishSaid
     DEF AdmitReplay, RefuseAdmission, RejectQueued, FailPreparing,
         CancelStarted, EndTurn
<1>2. CASE AdmitThrows(c) \/ MarkStartedThrows(c)
  BY <1>0, <1>2, ThrownSaid DEF AdmitThrows, MarkStartedThrows
<1>3. CASE Admit(c)
  BY <1>0, <1>3, AdvanceSaid DEF Admit, Queued
<1>4. CASE RetainForSignIn(c)
  BY <1>0, <1>4, AdvanceSaid DEF RetainForSignIn, Queued
<1>5. CASE MarkStarted(c)
  BY <1>0, <1>5, AdvanceSaid DEF MarkStarted, Started
<1>6. CASE BeginTurn(c) \/ PublishUserEvent(c) \/ Submit(c) \/ AbandonTurn(c)
  BY <1>6, SameSaid DEF BeginTurn, PublishUserEvent, Submit, AbandonTurn
<1> QED
  BY <1>1, <1>2, <1>3, <1>4, <1>5, <1>6 DEF SessionStep

LEMMA AnswerSaid ==
    ASSUME IInv, TypeOK', NEW c \in Command, AnswersAbout(c),
           rows[c].state \notin {"absent", "pending"}
    PROVE  NothingElseSaid
<1>0. /\ records \in [Command -> Record] /\ AfterRoom \in [Command -> Record]
  BY RoomType DEF IInv, TypeOK, JournalTypeOK
<1>1. CASE Claimed(c) \/ AnsweredFromJournal(c)
  <2>1. SendUp(Result(c, records'[c]))
    BY <1>1 DEF Claimed, AnsweredFromJournal
  <2>2. Stored(c)'
    BY <1>0, <1>1
       DEF Claimed, AnsweredFromJournal, ClaimNew, ClaimReclaim, ClaimLost,
           ClaimDuplicate, Accept, Accepted, Reclaim, Lose, Next_, Stored
  <2> QED
    BY <2>1, <2>2, AccountSpeaks, OneMoreSaid DEF IInv
<1>2. CASE JournalFull(c) \/ ExpiredInFlight(c)
  BY <1>2, RefusalSpeaks, OneMoreSaid DEF JournalFull, ExpiredInFlight, IInv
<1>3. CASE UNCHANGED <<up, buffered>>
  BY <1>3, SameSaid
<1> QED
  BY <1>1, <1>2, <1>3 DEF AnswersAbout

LEMMA StopSaid ==
    ASSUME IInv, TypeOK', ReceiveStop
    PROVE  NothingElseSaid
<1>0. up \in Seq(Receipt) /\ buffered' = buffered
      /\ records \in [Command -> Record]
  BY DEF IInv, TypeOK, JournalTypeOK, ReceiveStop
<1> DEFINE queue == {c \in Command : turn[c] \in {"held", "queued"}}
<1>1. PICK settled \in SUBSET {c \in queue : Current(runner, c)} :
      \E told \in SUBSET settled :
         /\ records' = [c \in Command |->
               IF c \in settled
               THEN Next_(runner, c, "failed",
                          IF turn[c] = "held" THEN "retryable" ELSE "other",
                          FALSE, FALSE)
               ELSE records[c]]
         /\ \E order \in SetToSeqs(told) :
               up' = up \o [n \in DOMAIN order |->
                               Update(order[n], records'[order[n]])]
  BY DEF ReceiveStop
<1>2. PICK told \in SUBSET settled :
         /\ records' = [c \in Command |->
               IF c \in settled
               THEN Next_(runner, c, "failed",
                          IF turn[c] = "held" THEN "retryable" ELSE "other",
                          FALSE, FALSE)
               ELSE records[c]]
         /\ \E order \in SetToSeqs(told) :
               up' = up \o [n \in DOMAIN order |->
                               Update(order[n], records'[order[n]])]
  BY <1>1
<1>3. PICK order \in SetToSeqs(told) :
         up' = up \o [n \in DOMAIN order |->
                         Update(order[n], records'[order[n]])]
  BY <1>2
<1>4. PICK size \in Nat : order \in [1..size -> told]
  <2>1. Cardinality(told) \in Nat
    BY <1>2, FiniteCommand, FS_Subset, FS_CardinalityType
  <2> QED
    BY <2>1 DEF SetToSeqs
<1>5. \A c \in told : Speaks(Update(c, records'[c]))
  <2>1. TAKE c \in told
  <2>2. c \in Command /\ c \in settled /\ turn[c] # "idle"
    BY <1>2
  <2>3. Stored(c)'
    BY <1>2, <2>2 DEF Stored, Next_
  <2>4. rows[c].state \notin {"absent", "pending"}
    BY <2>2 DEF IInv, PendingIsUntouched
  <2> QED
    BY <2>2, <2>3, <2>4, AccountSpeaks
<1> DEFINE more == [n \in 1..size |-> Update(order[n], records'[order[n]])]
<1>6. /\ more \in Seq(Receipt) /\ Len(more) = size
      /\ \A n \in 1..size : Speaks(more[n])
  <2>1. \A n \in 1..size : order[n] \in told
    BY <1>4
  <2>2. \A n \in 1..size : Speaks(more[n])
    BY <1>5, <2>1
  <2>3. \A n \in 1..size : more[n] \in Receipt
    BY <2>2 DEF Speaks
  <2> QED
    BY <2>2, <2>3
<1>7. up' = up \o more
  BY <1>3, <1>4
<1> HIDE DEF more
<1>8. ASSUME NEW n \in DOMAIN up' PROVE up'[n] \in Said \/ Speaks(up'[n])
  <2>1. CASE n \in DOMAIN up
    <3>1. up'[n] = up[n]
      BY <1>0, <1>6, <1>7, <2>1
    <3> QED
      BY <2>1, <3>1 DEF Said
  <2>2. CASE n \notin DOMAIN up
    <3>1. n - Len(up) \in 1..size /\ up'[n] = more[n - Len(up)]
      BY <1>0, <1>6, <1>7, <1>8, <2>2
    <3> QED
      BY <1>6, <3>1
  <2> QED
    BY <2>1, <2>2
<1>9. ASSUME NEW n \in DOMAIN buffered' PROVE buffered'[n] \in Said
  BY <1>0, <1>9 DEF Said
<1> QED
  BY <1>8, <1>9 DEF NothingElseSaid, Said

LEMMA EnvironmentSaid ==
    ASSUME TypeOK, Environment
    PROVE  NothingElseSaid
<1>1. CASE Disconnect \/ Crash \/ Register
  BY <1>1 DEF Disconnect, Crash, Register, NothingElseSaid, Said
<1>2. CASE ClockTick \/ \E p \in Proc : Start(p) \/ LeaseLapses(p)
  BY <1>2, SameSaid DEF ClockTick, Start, LeaseLapses, channels
<1> QED
  BY <1>1, <1>2 DEF Environment

LEMMA ControlPlaneSaid ==
    ASSUME TypeOK, ControlPlane
    PROVE  Said' \subseteq Said
<1>1. CASE ReceiveReceipt
  <2>1. up # <<>> /\ up \in Seq(Receipt) /\ up' = Tail(up)
        /\ buffered' = buffered
    BY <1>1 DEF ReceiveReceipt, TypeOK
  <2>2. \A n \in DOMAIN up' : n + 1 \in DOMAIN up /\ up'[n] = up[n + 1]
    BY <2>1
  <2> QED
    BY <2>1, <2>2 DEF Said
<1>2. CASE UNCHANGED <<up, buffered>>
  BY <1>2 DEF Said
<1> QED
  BY <1>1, <1>2
     DEF ControlPlane, Stage, Retry, Refuse, Cancel, Dismiss, Flush,
         FlushFails, Sweep, Stop, CPOnly, channels

LEMMA OthersSaid ==
    ASSUME IInv, TypeOK', [Next]_vars, ~ControlPlane
    PROVE  NothingElseSaid
<1>1. ASSUME NEW c \in Command, SessionStep(c) PROVE NothingElseSaid
  BY <1>1, SessionSaid
<1>2. CASE AnswerCommand \/ CommandThrows
  BY <1>2, FrameAbout, AnswerSaid
<1>3. CASE ReceiveStop
  BY <1>3, StopSaid
<1>4. ASSUME NEW c \in Command, Republish(c) PROVE NothingElseSaid
  <2>1. CASE UNCHANGED <<up, buffered>>
    BY <2>1, SameSaid
  <2>2. CASE Stored(c) /\ SendUp(Update(c, records[c]))
    <3>1. records' = records
      BY <1>4 DEF Republish, journalVars
    <3>2. Stored(c)' /\ rows[c].state \notin {"absent", "pending"}
      BY <2>2, <3>1 DEF Stored, IInv, PendingIsUntouched
    <3> QED
      BY <2>2, <3>1, <3>2, AccountSpeaks, OneMoreSaid DEF IInv
  <2> QED
    BY <1>4, <2>1, <2>2 DEF Republish
<1>5. CASE Environment
  BY <1>5, EnvironmentSaid DEF IInv
<1>6. CASE CommandBusy \/ UNCHANGED vars
  BY <1>6, SameSaid DEF CommandBusy, vars, channels
<1> QED
  BY <1>1, <1>2, <1>3, <1>4, <1>5, <1>6 DEF Next, Runner

-----------------------------------------------------------------------------
(* The invariant.                                                          *)

LEMMA SaidType == ASSUME TypeOK PROVE Said \subseteq Receipt
BY DEF TypeOK, Said

LEMMA EachTold == ReceiptsBacked <=> \A m \in Said : Told(m)
BY DEF ReceiptsBacked, Said

\* A step of the runner or around it: what was said stays backed, and what
\* it says is backed by the record it was read from.
LEMMA OthersEvidence ==
    ASSUME IInv, IInv', EvidenceInv, [Next]_vars, ~ControlPlane
    PROVE  /\ DeliveryLeavesEvidence' /\ TurnEvidence' /\ RecordsBacked'
           /\ ReceiptsBacked' /\ RowsBacked' /\ RetriesAreSafe'
<1>0. /\ \A d \in Command : Evident(d)
      /\ \A m \in Said : Told(m)
      /\ RowsBacked /\ RetriesAreSafe
  BY AllEvident, EachTold DEF EvidenceInv
<1>1. rows' = rows /\ deadline' = deadline /\ NothingElseSaid
  BY RowsLeft, OthersSaid DEF outboxVars, IInv
<1>2. \A d \in Command : Onward(d) /\ Evident(d)'
  BY <1>0, OthersGoOn
<1>3. /\ TypeOK /\ TypeOK' /\ rows \in [Command -> Row]
      /\ \A m \in Said : m \in Receipt
  BY DEF IInv, TypeOK, OutboxTypeOK, Said
<1>4. DeliveryLeavesEvidence' /\ TurnEvidence' /\ RecordsBacked'
  BY <1>2 DEF Evident, DeliveryLeavesEvidence, TurnEvidence, RecordsBacked
<1>5. ASSUME NEW m \in Said' PROVE Told(m)'
  <2>1. CASE m \in Said
    <3>1. m \in Receipt /\ Told(m) /\ m.c \in Command /\ m.revision \in Nat
      BY <1>0, <1>3, <2>1 DEF Receipt
    <3>2. Backed(m.c, m)'
      BY <1>2, <1>3, <3>1, BackedStays DEF Told
    <3> QED
      BY <1>1, <3>1, <3>2 DEF Told
  <2>2. CASE Speaks(m)
    <3>1. m.c \in Command /\ rows'[m.c].state \notin {"absent", "pending"}
      BY <1>1, <2>2 DEF Speaks, Receipt
    <3>2. CASE /\ m.state = "failed" /\ m.code = "other" /\ m.revision = 0
      <4>1. Limit(m.c)' \in Nat
        <5>1. records'[m.c].revision \in Nat
          BY <1>3, <3>1 DEF TypeOK, JournalTypeOK, Record
        <5> QED
          BY <5>1 DEF Limit
      <4>2. 0 <= Limit(m.c)' /\ "failed" \in Terminal
        BY <4>1 DEF Terminal
      <4>3. /\ m.state # "completed" /\ m.state \in Terminal
            /\ m.code # "retryable" /\ m.revision <= Limit(m.c)'
        BY <3>2, <4>2
      <4>4. Backed(m.c, m)'
        BY <4>3 DEF Backed
      <4> QED
        BY <3>1, <4>4 DEF Told
    <3>3. CASE /\ records'[m.c].state # "none"
               /\ m.state = WireState(records'[m.c])
               /\ m.code = records'[m.c].code
               /\ m.revision = records'[m.c].revision
      <4>1. Backed(m.c, records[m.c])'
        BY <1>2, <3>1, <3>3 DEF Evident, Stored
      <4>2. \/ m.state = records'[m.c].state
            \/ m.state = "queued" /\ records'[m.c].state = "started"
        BY <3>3 DEF WireState
      <4>3. Backed(m.c, m)'
        BY <3>3, <4>1, <4>2 DEF Backed, Terminal
      <4> QED
        BY <3>1, <4>3 DEF Told
    <3> QED
      BY <2>2, <3>2, <3>3 DEF Speaks
  <2> QED
    BY <1>1, <1>5, <2>1, <2>2 DEF NothingElseSaid
<1>6. ReceiptsBacked'
  BY <1>5 DEF ReceiptsBacked, Said
<1>7. RowsBacked'
  <2>1. SUFFICES ASSUME NEW c \in Command, HasRow(c)
                 PROVE  Backed(c, rows[c])'
    BY <1>0, <1>1 DEF RowsBacked, HasRow
  <2>2. Backed(c, rows[c]) /\ rows[c].revision \in Nat
    BY <1>0, <1>3, <2>1 DEF RowsBacked, Row
  <2>3. \A account : account.revision \in Nat /\ Backed(c, account)
                        => Backed(c, account)'
    BY <1>2, <1>3, BackedStays
  <2> QED
    BY <1>1, <2>2, <2>3 DEF Backed
<1>8. RetriesAreSafe'
  BY <1>0, <1>1, <1>2 DEF RetriesAreSafe, Onward
<1> QED
  BY <1>4, <1>6, <1>7, <1>8

\* A transaction of the control plane: only rows and, when one is staged, its
\* deadline change.
LEMMA ControlPlaneKeeps ==
    ASSUME IInv, EvidenceInv, ControlPlane
    PROVE  /\ UNCHANGED <<now, records, turn, userLog, delivered>>
           /\ \A c \in Command : RowShape(c)
           /\ \A c \in Command : rows[c].state # "absent" =>
                 /\ deadline'[c] = deadline[c]
                 /\ rows'[c].state # "absent"
           /\ \A c \in Command :
                 rows[c].state \notin {"absent", "pending"} =>
                    rows'[c].state \notin {"absent", "pending"}
<1>1. UNCHANGED <<now, records, turn, userLog, delivered>>
  BY DEF ControlPlane, Stage, Retry, Refuse, Cancel, Dismiss, Flush,
         FlushFails, Sweep, Stop, ReceiveReceipt, CPOnly, journalVars,
         sessionVars
<1>2. \A c \in Command : RowShape(c)
  BY ControlPlaneRows DEF EvidenceInv
<1>3. \A c \in Command : RowStep(c)
  BY ControlPlaneStep DEF IInv, OutboxStep
<1>4. ASSUME NEW c \in Command, rows[c].state # "absent"
      PROVE  deadline'[c] = deadline[c] /\ rows'[c].state # "absent"
  <2>1. RowShape(c) /\ ~IsStaged(c) /\ rows[c] \in Row
    BY <1>2, <1>4 DEF IsStaged, IInv, TypeOK, OutboxTypeOK
  <2>2. rows'[c].state # "absent"
    <3>1. CASE IsApplied(c)
      <4>1. PICK m \in Said : rows'[c] = Applied(rows[c], m)
        BY <3>1 DEF IsApplied
      <4>2. m.state # "absent"
        BY SaidType DEF IInv, Receipt, RunnerStates, Terminal
      <4> QED
        BY <1>4, <4>1, <4>2 DEF Applied
    <3>2. CASE IsEnded(c)
      BY <3>2 DEF IsEnded, Ended, EndedState
    <3>3. CASE IsDismissed(c) \/ IsPruned(c)
      BY <1>4, <3>3 DEF IsDismissed, Dismissed, IsPruned, EmptyRow
    <3>4. CASE IsMarked(c)
      BY <2>1, <3>4 DEF IsMarked, Row
    <3> QED
      BY <1>4, <2>1, <3>1, <3>2, <3>3, <3>4 DEF RowShape
  <2> QED
    BY <2>1, <2>2 DEF RowShape
<1>5. \A c \in Command : rows[c].state \notin {"absent", "pending"} =>
          rows'[c].state \notin {"absent", "pending"}
  BY <1>3 DEF RowStep
<1> QED
  BY <1>1, <1>2, <1>4, <1>5

LEMMA ControlPlaneRowsBacked ==
    ASSUME IInv, IInv', EvidenceInv, ControlPlane, NEW c \in Command
    PROVE  /\ HasRow(c)' => Backed(c, rows[c])'
           /\ rows'[c].state = "pending" => rows'[c].code = "none"
<1>0. /\ UNCHANGED <<now, records, turn, userLog, delivered>> /\ RowShape(c)
      /\ rows[c].state # "absent" => deadline'[c] = deadline[c]
      /\ rows[c].state \notin {"absent", "pending"} =>
            rows'[c].state \notin {"absent", "pending"}
  BY ControlPlaneKeeps
<1>1. /\ rows[c] \in Row /\ rows[c].revision \in Nat /\ Limit(c) \in Nat
      /\ HasRow(c) => Backed(c, rows[c])
      /\ rows[c].state = "pending" => rows[c].code = "none"
  BY LimitType DEF IInv, TypeOK, OutboxTypeOK, Row, EvidenceInv, RowsBacked
<1>a. \A m \in Said : m \in Receipt /\ Told(m)
  BY SaidType, EachTold DEF IInv, EvidenceInv
<1>2. ASSUME NEW account, Backed(c, account), rows[c].state # "absent"
      PROVE  Backed(c, account)'
  BY <1>0, <1>2 DEF Backed, Unsent, Limit, Stored
<1>3. CASE IsStaged(c)
  <2>1. rows'[c].state = "pending" /\ rows'[c].revision = 0
        /\ rows'[c].code = "none"
    BY <1>3 DEF IsStaged, Staged
  <2>2. ~Stored(c)'
    BY <2>1 DEF IInv, PendingIsUntouched
  <2> QED
    BY <2>1, <2>2 DEF Backed, Limit
<1>4. CASE rows'[c] = rows[c] /\ ~IsStaged(c)
  <2>1. HasRow(c) => Backed(c, rows[c])'
    <3>1. SUFFICES ASSUME HasRow(c) PROVE Backed(c, rows[c])'
      OBVIOUS
    <3>2. Backed(c, rows[c]) /\ rows[c].state # "absent"
      BY <1>1, <3>1 DEF HasRow, OutboxActive, Terminal
    <3> QED
      BY <1>0, <1>4, <3>2 DEF Backed, Unsent, Limit, Stored
  <2> QED
    BY <1>1, <1>4, <2>1 DEF HasRow
<1>5. CASE IsEnded(c)
  <2>1. PICK code \in Codes :
          /\ rows'[c] = Ended(rows[c], code)
          /\ rows[c].state = "pending" => code # "retryable"
    BY <1>5 DEF IsEnded
  <2>2. /\ rows[c].state \in OutboxActive /\ rows[c].state \notin Terminal
        /\ rows[c].state # "absent"
    BY <1>5 DEF IsEnded, Active, OutboxActive, Terminal
  <2>3. Backed(c, rows[c])
    BY <1>1, <2>2 DEF HasRow
  <2>4. /\ rows'[c].state \in {"failed", "uncertain"}
        /\ rows'[c].state = "failed" => rows'[c].code # "retryable"
        /\ rows'[c].revision = rows[c].revision + 1
    BY <2>1 DEF Ended, EndedState
  <2>5. Backed(c, rows'[c])
    BY <1>1, <2>2, <2>3, <2>4 DEF Backed, Terminal
  <2>6. Backed(c, rows[c])'
    BY <1>0, <2>2, <2>5 DEF Backed, Unsent, Limit, Stored
  <2> QED
    BY <2>4, <2>6
<1>6. CASE IsDismissed(c) \/ IsMarked(c)
  <2>1. /\ rows[c].state \in {"failed", "uncertain", "pending"}
        /\ \/ rows'[c].state = rows[c].state /\ rows[c].state # "pending"
           \/ rows[c].state = "pending" /\ rows'[c].state = "sent"
        /\ rows'[c].revision = rows[c].revision
        /\ rows'[c].code = rows[c].code
    BY <1>1, <1>6 DEF IsDismissed, Dismissed, IsMarked, Row
  <2>2. Backed(c, rows[c]) /\ rows[c].state # "absent"
    BY <1>1, <2>1 DEF HasRow, OutboxActive, Terminal
  <2>3. Backed(c, rows'[c])
    BY <2>1, <2>2 DEF Backed, Terminal
  <2>4. Backed(c, rows[c])'
    BY <1>0, <2>2, <2>3 DEF Backed, Unsent, Limit, Stored
  <2> QED
    BY <2>1, <2>4
<1>7. CASE IsApplied(c) /\ rows'[c] # rows[c]
  <2>1. PICK m \in Said : m.c = c /\ rows'[c] = Applied(rows[c], m)
    BY <1>7 DEF IsApplied
  <2>2. ~Ignores(rows[c], m)
    BY <1>7, <2>1 DEF Applied
  <2>3. /\ rows'[c].state = m.state /\ rows'[c].code = m.code
        /\ rows'[c].revision = m.revision
    BY <2>1, <2>2 DEF Applied
  <2>4. Backed(c, m) /\ rows[c].state # "absent" /\ m.state # "pending"
    BY <1>a, <2>1 DEF Told, Receipt, RunnerStates, Terminal
  <2>5. Backed(c, rows'[c])
    BY <2>3, <2>4 DEF Backed
  <2>6. Backed(c, rows[c])'
    BY <1>0, <2>4, <2>5 DEF Backed, Unsent, Limit, Stored
  <2> QED
    BY <2>3, <2>4, <2>6
<1>8. CASE IsPruned(c)
  BY <1>8 DEF IsPruned, EmptyRow, HasRow, OutboxActive, Terminal
<1> QED
  BY <1>0, <1>3, <1>4, <1>5, <1>6, <1>7, <1>8 DEF RowShape

\* Only these two operations stage a row.
LEMMA StagedByWhom ==
    ASSUME IInv, ControlPlane, NEW d \in Command,
           rows[d].state = "absent", rows'[d].state # "absent"
    PROVE  \/ d[2] = 0
           \/ \E b \in Command : /\ RetryUndelivered(b)
                                 /\ d = <<b[1], b[2] + 1>>
<1>0. rows \in [Command -> Row]
  BY DEF IInv, TypeOK, OutboxTypeOK
<1>1. ASSUME NEW i \in Incident, Stage(i) PROVE d[2] = 0
  BY <1>0, <1>1 DEF Stage, StagePrompt
<1>2. ASSUME NEW c \in Command, Retry(c)
      PROVE  RetryUndelivered(c) /\ d = <<c[1], c[2] + 1>>
  <2>1. /\ RetryUndelivered(c) /\ rows[c].state = "failed"
        /\ rows' = [rows EXCEPT ![<<c[1], c[2] + 1>>] = Staged,
                                ![c] = Dismissed(@)]
    BY <1>2 DEF Retry, RetryUndelivered, Retryable
  <2> QED
    BY <1>0, <2>1
<1>3. ASSUME NEW c \in Command, Refuse(c) \/ Cancel(c) \/ Dismiss(c) \/ MarkSent(c)
      PROVE  FALSE
  <2>1. rows[c].state # "absent"
    BY <1>3 DEF Refuse, RefuseDue, Cancel, CancelPending, Dismiss,
                DismissTerminal, MarkSent, Due, Active, OutboxActive
  <2>2. d # c
    BY <2>1
  <2>3. rows'[d] = rows[d]
    BY <1>0, <1>3, <2>2
       DEF Refuse, RefuseDue, RecordReceipt, Cancel, CancelPending, Dismiss,
           DismissTerminal, MarkSent
  <2> QED
    BY <2>3
<1>4. CASE Sweep
  BY <1>0, <1>4 DEF Sweep, Maintain, Maintained, OutboxActive, Terminal
<1>5. CASE Stop
  BY <1>0, <1>5 DEF Stop, StopRows, Active, OutboxActive
<1>6. CASE ReceiveReceipt
  <2>1. rows' = [rows EXCEPT ![Head(up).c] = Applied(@, Head(up))]
    BY <1>6 DEF ReceiveReceipt, RecordReceipt
  <2>2. Head(up).c # d => rows'[d] = rows[d]
    BY <1>0, <2>1
  <2>3. Head(up).c = d => rows'[d] = Applied(rows[d], Head(up))
    BY <1>0, <2>1
  <2>4. Applied(rows[d], Head(up)) = rows[d]
    BY DEF Applied, Ignores
  <2> QED
    BY <2>2, <2>3, <2>4
<1> QED
  BY <1>1, <1>2, <1>3, <1>4, <1>5, <1>6 DEF ControlPlane, Flush, FlushFails

LEMMA ControlPlaneRetries ==
    ASSUME IInv, EvidenceInv, ControlPlane
    PROVE  RetriesAreSafe'
<1>1. SUFFICES ASSUME NEW c \in Command, NEW d \in Command,
                      c[1] = d[1], c[2] < d[2], rows'[d].state # "absent"
               PROVE  rows'[c].state # "absent" /\ Unsent(c)'
  BY DEF RetriesAreSafe
<1>2. SUFFICES rows[c].state # "absent" /\ Unsent(c)
  BY ControlPlaneKeeps DEF Unsent, Stored
<1>3. CASE rows[d].state # "absent"
  BY <1>1, <1>3 DEF EvidenceInv, RetriesAreSafe
<1>4. CASE rows[d].state = "absent"
  <2>0. c \in Incident \X (0..MaxRetry) /\ d \in Incident \X (0..MaxRetry)
    BY OutboxAssumption
  <2>1. d[2] # 0
    BY <1>1, <2>0, OutboxAssumption
  <2>2. PICK b \in Command : RetryUndelivered(b) /\ d = <<b[1], b[2] + 1>>
    BY <1>1, <1>4, <2>1, StagedByWhom
  <2>3. rows[b].state = "failed" /\ rows[b].code = "retryable"
    BY <2>2 DEF RetryUndelivered, Retryable
  <2>4. rows[b].state # "absent" /\ Unsent(b)
    BY <2>3 DEF EvidenceInv, RowsBacked, HasRow, Terminal, Backed
  <2>5. b \in Incident \X (0..MaxRetry)
    BY OutboxAssumption
  <2>6. c[1] = b[1] /\ (c[2] = b[2] \/ c[2] < b[2])
    BY <1>1, <2>0, <2>2, <2>5, OutboxAssumption
  <2>7. CASE c[2] = b[2]
    <3>1. c = b
      BY <2>0, <2>5, <2>6, <2>7
    <3> QED
      BY <2>4, <3>1
  <2>8. CASE c[2] < b[2]
    BY <2>4, <2>6, <2>8 DEF EvidenceInv, RetriesAreSafe
  <2> QED
    BY <2>6, <2>7, <2>8
<1> QED
  BY <1>3, <1>4

LEMMA ControlPlaneEvidence ==
    ASSUME IInv, IInv', EvidenceInv, ControlPlane
    PROVE  /\ DeliveryLeavesEvidence' /\ TurnEvidence' /\ RecordsBacked'
           /\ ReceiptsBacked' /\ RowsBacked' /\ RetriesAreSafe'
<1>1. /\ UNCHANGED <<now, records, turn, userLog, delivered>>
      /\ \A c \in Command : rows[c].state # "absent" =>
            deadline'[c] = deadline[c]
      /\ \A c \in Command :
            rows[c].state \notin {"absent", "pending"} =>
               rows'[c].state \notin {"absent", "pending"}
  BY ControlPlaneKeeps
<1>2. ASSUME NEW c \in Command PROVE Evident(c)'
  <2>0. Evident(c)
    BY AllEvident DEF EvidenceInv
  <2>1. CASE rows[c].state = "absent"
    <3>1. ~Stored(c) /\ turn[c] = "idle" /\ delivered[c] = 0
      BY <2>1 DEF IInv, PendingIsUntouched
    <3>2. ~Stored(c)' /\ turn'[c] = "idle" /\ delivered'[c] = 0
      BY <1>1, <3>1 DEF Stored
    <3> QED
      BY <3>2 DEF Evident, Stored, Terminal
  <2>2. CASE rows[c].state # "absent"
    BY <1>1, <2>0, <2>2 DEF Evident, Backed, Unsent, Limit, Stored
  <2> QED
    BY <2>1, <2>2
<1>3. ReceiptsBacked'
  <2>1. Said' \subseteq Said /\ Said \subseteq Receipt
    BY ControlPlaneSaid, SaidType DEF IInv
  <2>2. ASSUME NEW m \in Said PROVE Told(m)'
    <3>1. Told(m) /\ m.c \in Command
      BY <2>1, <2>2, EachTold DEF EvidenceInv, Receipt
    <3> QED
      BY <1>1, <3>1 DEF Told, Backed, Unsent, Limit, Stored
  <2> QED
    BY <2>1, <2>2 DEF ReceiptsBacked, Said
<1>4. RowsBacked'
  BY ControlPlaneRowsBacked DEF RowsBacked
<1>5. RetriesAreSafe'
  BY ControlPlaneRetries
<1> QED
  BY <1>2, <1>3, <1>4, <1>5
     DEF Evident, DeliveryLeavesEvidence, TurnEvidence, RecordsBacked

LEMMA InitEvidence == Init => EvidenceInv
<1> SUFFICES ASSUME Init PROVE EvidenceInv
  OBVIOUS
<1>1. \A c \in Command :
         /\ records[c] = NoRecord /\ rows[c] = EmptyRow("absent")
         /\ turn[c] = "idle" /\ delivered[c] = 0
  BY DEF Init, OutboxInit, JournalInit
<1>2. \A c \in Command :
         ~Stored(c) /\ records[c].state \notin Terminal
         /\ rows[c].state = "absent" /\ ~HasRow(c)
  <2>1. NoRecord.state = "none" /\ EmptyRow("absent").state = "absent"
    BY DEF NoRecord, EmptyRow
  <2> QED
    BY <1>1, <2>1 DEF Stored, HasRow, Terminal, OutboxActive
<1>3. ReceiptsBacked
  BY DEF Init, ReceiptsBacked
<1> QED
  BY <1>1, <1>2, <1>3
     DEF EvidenceInv, DeliveryLeavesEvidence, FinalReceiptGetsThrough,
         TurnEvidence, RecordsBacked, RowsBacked, RetriesAreSafe

LEMMA NextEvidence ==
    ASSUME IInv, IInv', EvidenceInv, [Next]_vars
    PROVE  EvidenceInv'
<1>1. /\ DeliveryLeavesEvidence' /\ TurnEvidence' /\ RecordsBacked'
      /\ ReceiptsBacked' /\ RowsBacked' /\ RetriesAreSafe'
  BY OthersEvidence, ControlPlaneEvidence
\* The bound on a row's revision is what lets a final receipt through.
<1>2. FinalReceiptGetsThrough'
  <2> SUFFICES ASSUME NEW c \in Command,
                      records'[c].state \in Terminal,
                      rows'[c].state \in OutboxActive \cup {"uncertain"}
               PROVE  records'[c].revision >= rows'[c].revision
    BY DEF FinalReceiptGetsThrough
  <2>1. Stored(c)' /\ Limit(c)' = records'[c].revision
    BY DEF Stored, Limit, Terminal
  <2>2. HasRow(c)'
    BY DEF HasRow, Terminal
  <2> QED
    BY <1>1, <2>1, <2>2 DEF RowsBacked, Backed
<1> QED
  BY <1>1, <1>2 DEF EvidenceInv

\* Evidence of every delivery outlives every crash and every lost frame; a
\* row, a receipt or a record that says "completed" speaks of a prompt that
\* was delivered, and one that may be retried of a prompt that never will
\* be; the runner's final receipt is never too old for the row it settles.
THEOREM EvidenceHolds == Spec => []EvidenceInv
<1>1. Init => EvidenceInv
  BY InitEvidence
<1>2. IInv /\ IInv' /\ EvidenceInv /\ [Next]_vars => EvidenceInv'
  BY NextEvidence
<1> QED
  BY <1>1, <1>2, Invariance, PTL DEF Spec

\* A row's rank and revision never fall, and a terminal row only resolves
\* its uncertainty, whatever receipts arrive late, twice or out of order.
THEOREM RowsForward == Spec => RowsMoveForward
<1>1. IInv /\ EvidenceInv /\ [Next]_vars => [RowMovesForward]_vars
  BY StepForward DEF EvidenceInv
<1> QED
  BY <1>1, Invariance, EvidenceHolds, PTL DEF Spec, RowsMoveForward

-----------------------------------------------------------------------------
(* The protocol implements AtMostOnceDelivery: nothing else gives a prompt *)
(* to the provider than Submit, which is its Give; a transaction of the    *)
(* control plane is its Judge; every other step stutters.                  *)

LEMMA VerdictType ==
    ASSUME TypeOK, NEW c \in Command
    PROVE  Verdict(c) \in Abstract!Verdicts
BY DEF Verdict, Terminal, Abstract!Verdicts

LEMMA MayBecomeIs ==
    ASSUME NEW c \in Command
    PROVE  /\ Verdict(c) = "open" =>
                /\ {"open", "failed", "uncertain"} \subseteq Abstract!MayBecome(c)
                /\ delivered[c] = 1 => "completed" \in Abstract!MayBecome(c)
           /\ Verdict(c) = "uncertain" =>
                /\ {"uncertain", "failed", "closed"}
                      \subseteq Abstract!MayBecome(c)
                /\ delivered[c] = 1 => "completed" \in Abstract!MayBecome(c)
           /\ Verdict(c) \notin {"open", "uncertain"} =>
                {Verdict(c), "closed"} \subseteq Abstract!MayBecome(c)
BY DEF Abstract!MayBecome

LEMMA SameVerdict ==
    ASSUME NEW c \in Command
    PROVE  Verdict(c) \in Abstract!MayBecome(c)
<1>1. CASE Verdict(c) \in {"open", "uncertain"}
  BY <1>1, MayBecomeIs
<1>2. CASE Verdict(c) \notin {"open", "uncertain"}
  BY <1>2, MayBecomeIs
<1> QED
  BY <1>1, <1>2

LEMMA JudgedVerdict ==
    ASSUME IInv, EvidenceInv, RowsBacked', UNCHANGED delivered,
           NEW c \in Command, RowShape(c)
    PROVE  Verdict(c)' \in Abstract!MayBecome(c)
<1>0. /\ rows[c] \in Row /\ delivered[c] \in Nat /\ delivered[c] <= 1
      /\ rows[c].state \in RowStates
  BY DEF IInv, TypeOK, OutboxTypeOK, AtMostOnce, Row
<1>1. CASE rows'[c].state = rows[c].state
  <2>1. Verdict(c)' = Verdict(c)
    BY <1>1 DEF Verdict
  <2> QED
    BY <2>1, SameVerdict
<1>2. CASE IsStaged(c) \/ IsMarked(c)
  <2>1. Verdict(c) = "open" /\ Verdict(c)' = "open"
    BY <1>0, <1>2 DEF IsStaged, Staged, IsMarked, Row, Verdict, Terminal
  <2> QED
    BY <2>1, MayBecomeIs
<1>3. CASE IsEnded(c)
  <2>1. Verdict(c) = "open"
    BY <1>3 DEF IsEnded, Active, OutboxActive, Verdict, Terminal
  <2>2. Verdict(c)' \in {"failed", "uncertain"}
    BY <1>3 DEF IsEnded, Ended, EndedState, Verdict, Terminal
  <2> QED
    BY <2>1, <2>2, MayBecomeIs
<1>4. CASE IsPruned(c)
  <2>1. Verdict(c) \in Terminal /\ Verdict(c)' = "closed"
    BY <1>4 DEF IsPruned, EmptyRow, Verdict, Terminal
  <2>2. CASE Verdict(c) = "uncertain"
    BY <2>1, <2>2, MayBecomeIs
  <2>3. CASE Verdict(c) # "uncertain"
    BY <2>1, <2>3, MayBecomeIs DEF Terminal
  <2> QED
    BY <2>2, <2>3
<1>5. CASE IsApplied(c) /\ rows'[c].state # rows[c].state
  <2>1. PICK m \in Said : rows'[c] = Applied(rows[c], m)
    BY <1>5 DEF IsApplied
  <2>2. ~Ignores(rows[c], m) /\ rows'[c].state = m.state /\ m \in Receipt
    BY <1>5, <2>1, SaidType DEF Applied, IInv
  <2>3. m.state \in RunnerStates /\ m.state # "pruned"
    BY <2>2 DEF Receipt, RunnerStates, Terminal
  <2>4. m.state = "completed" => delivered[c] = 1
    <3>1. SUFFICES ASSUME m.state = "completed" PROVE delivered[c] > 0
      BY <1>0
    <3>2. HasRow(c)' /\ rows'[c].state = "completed"
      BY <2>2, <3>1 DEF HasRow, Terminal
    <3> QED
      BY <3>2 DEF RowsBacked, Backed
  <2>5. \/ /\ rows[c].state \in Terminal
           /\ rows[c].state = "uncertain" /\ m.state \in {"completed", "failed"}
        \/ rows[c].state \notin Terminal /\ rows[c].state # "pruned"
    BY <2>2 DEF Ignores, Refines
  <2>6. Verdict(c) \in {"open", "uncertain"}
        /\ (Verdict(c) = "uncertain" => m.state \in {"completed", "failed"})
    BY <2>5 DEF Verdict, Terminal
  <2>7. Verdict(c)' = IF m.state \in Terminal THEN m.state ELSE "open"
    BY <2>2, <2>3 DEF Verdict
  <2>8. CASE Verdict(c) = "open"
    BY <2>4, <2>7, <2>8, MayBecomeIs DEF Terminal
  <2>9. CASE Verdict(c) = "uncertain"
    BY <2>4, <2>6, <2>7, <2>9, MayBecomeIs DEF Terminal
  <2> QED
    BY <2>6, <2>8, <2>9
<1>6. CASE IsDismissed(c)
  BY <1>1, <1>6 DEF IsDismissed, Dismissed
<1> QED
  BY <1>1, <1>2, <1>3, <1>4, <1>5, <1>6 DEF RowShape

\* The provider has nothing of any attempt at the prompt yet.
LEMMA FirstOfItsPrompt ==
    ASSUME IInv, EvidenceInv, NEW c \in Command, turn[c] = "started",
           NEW d \in Command, d[1] = c[1]
    PROVE  delivered[d] = 0
<1>0. /\ c \in Incident \X (0..MaxRetry) /\ d \in Incident \X (0..MaxRetry)
      /\ delivered[d] \in Nat
  BY OutboxAssumption DEF IInv, TypeOK
<1>1. rows[c].state # "absent"
  BY DEF IInv, PendingIsUntouched
<1>2. c = d \/ d[2] < c[2] \/ c[2] < d[2]
  BY <1>0, OutboxAssumption
<1>3. CASE c = d
  BY <1>3 DEF IInv, FenceInv
<1>4. CASE d[2] < c[2]
  BY <1>1, <1>4 DEF EvidenceInv, RetriesAreSafe, Unsent
<1>5. CASE c[2] < d[2]
  <2>1. SUFFICES ASSUME delivered[d] > 0 PROVE FALSE
    BY <1>0
  <2>2. rows[d].state # "absent"
    BY <2>1 DEF IInv, PendingIsUntouched
  <2>3. Unsent(c)
    BY <1>5, <2>2 DEF EvidenceInv, RetriesAreSafe
  <2> QED
    BY <2>3 DEF Unsent
<1> QED
  BY <1>2, <1>3, <1>4, <1>5

LEMMA SubmitGives ==
    ASSUME IInv, EvidenceInv, NEW c \in Command, Submit(c)
    PROVE  Abstract!Give(c) \/ UNCHANGED Abstract!promise
<1>1. /\ turn[c] = "started" /\ rows' = rows
      /\ delivered \in [Command -> Nat]
  BY DEF Submit, Turn, RunnerOnly, outboxVars, IInv, TypeOK
<1>2. PICK took \in {0, 1} :
         delivered' = [delivered EXCEPT ![c] = @ + took]
  BY DEF Submit
<1>3. UNCHANGED [d \in Command |-> Verdict(d)]
  BY <1>1 DEF Verdict
<1>4. \A d \in Command : d[1] = c[1] => delivered[d] = 0
  BY <1>1, FirstOfItsPrompt
<1>5. CASE took = 0
  <2>1. delivered' = delivered
    BY <1>1, <1>2, <1>5
  <2> QED
    BY <1>3, <2>1 DEF Abstract!promise
<1>6. CASE took = 1
  <2>0. delivered[c] = 0
    BY <1>4
  <2>1. delivered' = [delivered EXCEPT ![c] = 1]
    BY <1>1, <1>2, <1>6, <2>0
  <2> QED
    BY <1>3, <1>4, <2>1 DEF Abstract!Give, Abstract!SamePrompt
<1> QED
  BY <1>5, <1>6

LEMMA DeliveredOnlyBySubmit ==
    ASSUME [Next]_vars
    PROVE  delivered' = delivered \/ \E c \in Command : Submit(c)
BY DEF Next, ControlPlane, Runner, Environment, vars, Stage, Retry, Refuse,
       Sweep, Cancel, Dismiss, Flush, FlushFails, Stop, ReceiveReceipt,
       CPOnly, AnswerCommand, Claimed, AnsweredFromJournal, JournalFull,
       ExpiredInFlight, CommandBusy, CommandThrows, ReceiveStop, SessionStep,
       Republish, AdmitReplay, RefuseAdmission, Admit, AdmitThrows,
       RetainForSignIn, RejectQueued, BeginTurn, FailPreparing,
       PublishUserEvent, MarkStarted, MarkStartedThrows, CancelStarted,
       EndTurn, AbandonTurn, Finish, Thrown, Disconnect, Register, Crash,
       ClockTick, Start, LeaseLapses, sessionVars

LEMMA StepKeepsPromise ==
    ASSUME IInv, EvidenceInv, EvidenceInv', [Next]_vars
    PROVE  Abstract!PromiseNext \/ UNCHANGED Abstract!promise
<1>1. CASE \E c \in Command : Submit(c)
  BY <1>1, SubmitGives DEF Abstract!PromiseNext
<1>2. CASE delivered' = delivered /\ ControlPlane
  <2>1. \A c \in Command : Verdict(c)' \in Abstract!MayBecome(c)
    <3>1. TAKE c \in Command
    <3>2. RowShape(c)
      BY <1>2, ControlPlaneKeeps
    <3> QED
      BY <1>2, <3>2, JudgedVerdict DEF EvidenceInv
  <2>2. \A c \in Command : Verdict(c)' \in Abstract!Verdicts
    BY DEF Verdict, Terminal, Abstract!Verdicts
  <2>3. Abstract!Judge
    BY <1>2, <2>1, <2>2 DEF Abstract!Judge
  <2> QED
    BY <2>3 DEF Abstract!PromiseNext
<1>3. CASE delivered' = delivered /\ ~ControlPlane
  <2>1. rows' = rows
    BY <1>3, RowsLeft DEF outboxVars
  <2> QED
    BY <1>3, <2>1 DEF Abstract!promise, Verdict
<1> QED
  BY <1>1, <1>2, <1>3, DeliveredOnlyBySubmit

\* For any prompts, retries, processes and bounds the whole path from
\* stagePrompt to recordSessionPromptCommandReceipt keeps the promise of
\* AtMostOnceDelivery: no prompt is given to the provider twice, its retries
\* included, "completed" is only said of a prompt it was given, and a verdict
\* is final unless it was "uncertain".
THEOREM PromiseKept == Spec => KeepsPromise
<1>1. Init => Abstract!Promised
  <2> SUFFICES ASSUME Init PROVE Abstract!Promised
    OBVIOUS
  <2>1. EmptyRow("absent").state = "absent"
    BY DEF EmptyRow
  <2>2. \A c \in Command : Verdict(c) = "open"
    BY <2>1 DEF Init, OutboxInit, Verdict, Terminal
  <2> QED
    BY <2>2 DEF Init, Abstract!Promised
<1>2. IInv /\ EvidenceInv /\ EvidenceInv' /\ [Next]_vars
        => [Abstract!PromiseNext]_(Abstract!promise)
  BY StepKeepsPromise
<1> QED
  BY <1>1, <1>2, Invariance, EvidenceHolds, PTL
     DEF Spec, KeepsPromise, Abstract!PromiseSpec
=============================================================================
