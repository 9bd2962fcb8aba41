------------------------ MODULE JournalClients_proofs ------------------------
(***************************************************************************)
(* Proofs about JournalClients, for any commands, processes, deadlines and *)
(* bounds.  Every step leaves a command alone, writes its record through   *)
(* one process, or accepts it; the invariant and the action properties     *)
(* follow from those three shapes.                                         *)
(***************************************************************************)
EXTENDS JournalClients, TLAPS

-----------------------------------------------------------------------------
(* The shapes.                                                             *)

\* A process that keeps its handle on c, or loses it, and its work.
Bystander(q, c) ==
    /\ handles'[q][c] \in {handles[q][c], 0}
    /\ <<q, c>> \in working' <=> <<q, c>> \in working

Remembered(c) ==
    /\ c \in known => c \in known'
    /\ c \in known' => c \in known \/ Stored(c)
    /\ Stored(c) /\ records'[c] # records[c] => c \in known'

\* The record stays or has expired and is pruned.
Left(c) ==
    /\ \/ records'[c] = records[c]
       \/ Stored(c) /\ records[c].expiresAt < now /\ records'[c] = NoRecord
    /\ \A q \in Proc : Bystander(q, c)
    /\ submitted'[c] = submitted[c]

\* p writes the next revision of a record that has not ended.
Written(p, c) ==
    /\ Stored(c) /\ records[c].state \notin Terminal
    /\ records'[c].state \in RunnerStates
    /\ records'[c].revision > records[c].revision
    /\ records'[c].expiresAt = records[c].expiresAt
    /\ \A q \in Proc \ {p} : Bystander(q, c)
    /\ handles'[p][c] \in {0, handles[p][c], records'[c].revision}
    /\ submitted'[c] <= 1
    /\ submitted'[c] > 0 => records'[c].state \in {"started"} \cup Terminal
    /\ handles'[p][c] = records'[c].revision =>
         /\ records'[c].state \notin Terminal
         /\ records'[c].state = "started" <=> <<p, c>> \in working'
         /\ <<p, c>> \in working' => submitted'[c] = 1
    /\ WireState(records[c]) = "started" =>
         /\ records'[c].state \in {"started"} \cup Terminal
         /\ WireState(records'[c]) = records'[c].state

\* p records a command for the first time.
New(p, c) ==
    /\ ~Stored(c) /\ c \notin known
    /\ records'[c] = Accepted(p, Deadline[c])
    /\ \A q \in Proc \ {p} : Bystander(q, c)
    /\ handles'[p][c] \in {handles[p][c], 1}
    /\ handles'[p][c] = 1 => <<p, c>> \notin working'
    /\ submitted'[c] = submitted[c]

CommandStep(c) ==
    /\ Remembered(c)
    /\ Left(c) \/ \E p \in Proc : Written(p, c) \/ New(p, c)

-----------------------------------------------------------------------------
(* What the shapes preserve.                                               *)

LEMMA ShapeKeepsRecorded ==
    ASSUME JournalInv, TypeOK', NEW c \in Command, CommandStep(c), now' >= now
    PROVE  /\ submitted'[c] <= 1
           /\ submitted'[c] > 0 =>
                ~Stored(c)' \/ records'[c].state \in {"started"} \cup Terminal
<1> USE DEF JournalInv, AtMostOneSubmission, SubmissionIsRecorded, Stored
<1>1. CASE Left(c)
  BY <1>1 DEF Left, NoRecord
<1>2. CASE \E p \in Proc : Written(p, c)
  BY <1>2 DEF Written
<1>3. CASE \E p \in Proc : New(p, c)
  <2>1. submitted[c] = 0
    BY <1>3 DEF New, RecordsAreKept, TypeOK
  <2> QED
    BY <1>3, <2>1 DEF New
<1> QED
  BY <1>1, <1>2, <1>3 DEF CommandStep

LEMMA ShapeKeepsRecords ==
    ASSUME JournalInv, TypeOK', NEW c \in Command, CommandStep(c), now' >= now
    PROVE  /\ IF Stored(c)' THEN records'[c].expiresAt = Deadline[c]
                            ELSE records'[c] = NoRecord
           /\ c \in known' /\ ~Stored(c)' => Deadline[c] < now'
           /\ submitted'[c] > 0 => Stored(c)' \/ c \in known'
<1> USE DEF JournalInv, RecordsAreKept, Stored
<1>1. /\ now \in Nat /\ now' \in Nat /\ Deadline[c] \in Nat
      /\ submitted[c] \in Nat /\ Remembered(c)
  BY DeadlineAssumption DEF TypeOK, CommandStep
<1>2. CASE Left(c)
  <2>1. CASE records'[c] = records[c]
    BY <1>1, <1>2, <2>1 DEF Left, Remembered
  <2>2. CASE Stored(c) /\ records[c].expiresAt < now /\ records'[c] = NoRecord
    BY <1>1, <1>2, <2>2 DEF Left, Remembered, NoRecord
  <2> QED
    BY <1>2, <2>1, <2>2 DEF Left
<1>3. CASE \E p \in Proc : Written(p, c)
  BY <1>3 DEF Written, RunnerStates, Terminal
<1>4. CASE \E p \in Proc : New(p, c)
  BY <1>4 DEF New, Accepted
<1> QED
  BY <1>2, <1>3, <1>4 DEF CommandStep

LEMMA ShapeKeepsHandles ==
    ASSUME JournalInv, TypeOK', NEW c \in Command, CommandStep(c), now' >= now,
           NEW p \in Proc
    PROVE  /\ Stored(c)' => handles'[p][c] <= records'[c].revision
           /\ handles'[p][c] > 0 => Stored(c)' \/ c \in known'
           /\ Current(p, c)' =>
                /\ records'[c].state \notin Terminal
                /\ records'[c].state = "started" <=> <<p, c>> \in working'
                /\ <<p, c>> \in working' => submitted'[c] = 1
<1> USE DEF JournalInv, HandlesAreHonest, Stored
<1>1. /\ handles[p][c] \in Nat /\ handles'[p][c] \in Nat
      /\ records[c] \in Record /\ records'[c] \in Record
      /\ records[c].revision \in Nat /\ records'[c].revision \in Nat
  BY DEF TypeOK, JournalTypeOK, Record
<1>2. CASE Left(c)
  <2>1. Bystander(p, c)
    BY <1>2 DEF Left
  <2>2. CASE records'[c] = records[c]
    BY <1>1, <1>2, <2>1, <2>2
       DEF Left, Bystander, Current, CommandStep, Remembered
  <2>3. CASE Stored(c) /\ records[c].expiresAt < now /\ records'[c] = NoRecord
    BY <1>1, <1>2, <2>1, <2>3
       DEF Left, Bystander, Current, CommandStep, Remembered, NoRecord
  <2> QED
    BY <1>2, <2>2, <2>3 DEF Left
<1>3. ASSUME NEW q \in Proc, Written(q, c)
      PROVE  /\ Stored(c)' /\ handles'[p][c] <= records'[c].revision
             /\ Current(p, c)' =>
                  /\ records'[c].state \notin Terminal
                  /\ records'[c].state = "started" <=> <<p, c>> \in working'
                  /\ <<p, c>> \in working' => submitted'[c] = 1
  <2>1. Stored(c)'
    BY <1>3 DEF Written, RunnerStates, Terminal
  <2>2. CASE p = q
    BY <1>1, <1>3, <2>1, <2>2 DEF Written, Current
  <2>3. CASE p # q
    <3>1. Bystander(p, c)
      BY <1>3, <2>3 DEF Written
    <3> QED
      BY <1>1, <1>3, <2>1, <3>1 DEF Written, Current, Bystander
  <2> QED
    BY <2>1, <2>2, <2>3
<1>4. ASSUME NEW q \in Proc, New(q, c)
      PROVE  /\ Stored(c)' /\ handles'[p][c] <= records'[c].revision
             /\ Current(p, c)' =>
                  /\ records'[c].state \notin Terminal
                  /\ records'[c].state = "started" <=> <<p, c>> \in working'
                  /\ <<p, c>> \in working' => submitted'[c] = 1
  <2>1. /\ records'[c].state = "accepted" /\ records'[c].revision = 1
        /\ Stored(c)'
    BY <1>4 DEF New, Accepted
  <2>2. handles[p][c] = 0
    <3>1. ~(handles[p][c] > 0)
      BY <1>4 DEF New
    <3> QED
      BY <1>1, <3>1
  <2>3. CASE p = q
    BY <1>1, <1>4, <2>1, <2>2, <2>3 DEF New, Current, Terminal
  <2>4. CASE p # q
    BY <1>1, <1>4, <2>1, <2>2, <2>4 DEF New, Current, Terminal, Bystander
  <2> QED
    BY <2>1, <2>3, <2>4
<1> QED
  BY <1>2, <1>3, <1>4 DEF CommandStep

LEMMA ShapesPreserve ==
    ASSUME JournalInv, TypeOK', now' >= now, \A c \in Command : CommandStep(c)
    PROVE  JournalInv'
<1>1. AtMostOneSubmission' /\ SubmissionIsRecorded'
  BY ShapeKeepsRecorded DEF AtMostOneSubmission, SubmissionIsRecorded
<1>2. RecordsAreKept'
  BY ShapeKeepsRecords DEF RecordsAreKept
<1>3. HandlesAreHonest'
  BY ShapeKeepsHandles DEF HandlesAreHonest
<1> QED
  BY <1>1, <1>2, <1>3 DEF JournalInv

-----------------------------------------------------------------------------
(* Steps and their shapes.                                                 *)

Shaped == TypeOK' /\ now' >= now /\ \A c \in Command : CommandStep(c)

\* What a step on c by p does to everything else.
Elsewhere(p, c) ==
    /\ \A d \in Command \ {c} : records'[d] \in {records[d], Pruned[d]}
    /\ \A q \in Proc, d \in Command :
         q # p \/ d # c => handles'[q][d] = handles[q][d]
    /\ \A q \in Proc, d \in Command :
         q # p \/ d # c => (<<q, d>> \in working' <=> <<q, d>> \in working)
    /\ \A d \in Command \ {c} : submitted'[d] = submitted[d]
    /\ Remember /\ now' = now

LEMMA ElsewhereShaped ==
    ASSUME JournalInv, TypeOK', NEW p \in Proc, NEW c \in Command,
           Elsewhere(p, c), Left(c) \/ Written(p, c) \/ New(p, c)
    PROVE  Shaped
<1>1. now' >= now
  BY DEF Elsewhere, JournalInv, TypeOK
<1>2. ASSUME NEW d \in Command PROVE Remembered(d)
  BY DEF Elsewhere, Remembered, Remember
<1>3. ASSUME NEW d \in Command, d # c PROVE Left(d)
  BY <1>3 DEF Elsewhere, Left, Bystander, Pruned
<1> QED
  BY <1>1, <1>2, <1>3 DEF Shaped, CommandStep

\* A step that writes rec to c's record and leaves p with revision r.
Puts(p, c, rec, r) ==
    /\ records' = [records EXCEPT ![c] = rec]
    /\ Hold(p, c, r)
    /\ UNCHANGED proc /\ lapsed' \subseteq Proc

LEMMA PutType ==
    ASSUME JournalInv, NEW p \in Proc, NEW c \in Command,
           NEW rec \in Record, NEW r \in Nat, Puts(p, c, rec, r)
    PROVE  /\ JournalTypeOK' /\ records'[c] = rec /\ handles'[p][c] = r
           /\ \A d \in Command \ {c} : records'[d] = records[d]
           /\ \A q \in Proc, d \in Command :
                q # p \/ d # c => handles'[q][d] = handles[q][d]
<1>1. JournalTypeOK
  BY DEF JournalInv, TypeOK
<1>2. records' \in [Command -> Record]
  BY <1>1 DEF Puts, JournalTypeOK
<1>3. handles' \in [Proc -> [Command -> Nat]]
  BY <1>1 DEF Puts, Hold, JournalTypeOK
<1> QED
  BY <1>1, <1>2, <1>3 DEF Puts, Hold, JournalTypeOK

\* What happens to work and memory when rec is put.
LEMMA PutShaped ==
    ASSUME JournalInv, NEW p \in Proc, NEW c \in Command,
           NEW rec \in Record, NEW r \in Nat, Puts(p, c, rec, r),
           working' \ {<<p, c>>} = working \ {<<p, c>>},
           submitted' \in [Command -> Nat],
           \A d \in Command \ {c} : submitted'[d] = submitted[d],
           Remember, now' = now,
           records'[c] = rec /\ handles'[p][c] = r
             => Written(p, c) \/ Left(c)
    PROVE  Shaped
<1>1. TypeOK'
  <2>1. working' \subseteq Proc \X Command
    BY DEF JournalInv, TypeOK
  <2>2. known' \subseteq Command
    BY DEF Remember, JournalInv, TypeOK
  <2> QED
    BY <2>1, <2>2, PutType DEF JournalInv, TypeOK
<1>2. \A q \in Proc, d \in Command :
         q # p \/ d # c => (<<q, d>> \in working' <=> <<q, d>> \in working)
  OBVIOUS
<1>3. Elsewhere(p, c)
  BY <1>2, PutType DEF Elsewhere
<1> QED
  BY <1>1, <1>3, PutType, ElsewhereShaped

\* The next revision of a record is a record.
LEMMA NextType ==
    ASSUME JournalInv, NEW p \in Proc, NEW c \in Command,
           NEW to \in RunnerStates, NEW code \in Codes,
           NEW userEvent \in BOOLEAN, NEW steering \in BOOLEAN
    PROVE  Next_(p, c, to, code, userEvent, steering) \in Record
BY DEF JournalInv, TypeOK, JournalTypeOK, Record, Next_

LEMMA SteeringType ==
    ASSUME JournalInv, NEW c \in Command
    PROVE  records[c].steering \in BOOLEAN /\ records[c].revision \in Nat
BY DEF JournalInv, TypeOK, JournalTypeOK, Record

LEMMA StateNames ==
    /\ {"accepted", "queued", "started", "completed", "failed", "uncertain"}
         = RunnerStates
    /\ Terminal = {"completed", "failed", "uncertain"}
    /\ {"none", "retryable", "other"} = Codes
BY DEF RunnerStates, Terminal, Codes

\* Whose work has begun has a record that says so.
LEMMA NotYetSubmitted ==
    ASSUME JournalInv, NEW c \in Command, Stored(c),
           records[c].state \in {"accepted", "queued"}
    PROVE  submitted[c] = 0
<1>1. submitted[c] \in Nat
  BY DEF JournalInv, TypeOK
<1>2. ~(submitted[c] > 0)
  BY StateNames DEF JournalInv, SubmissionIsRecorded
<1> QED
  BY <1>1, <1>2

-----------------------------------------------------------------------------
(* The operations on a handle.                                             *)

\* What Current says, and what the invariant adds to it.
LEMMA CurrentSays ==
    ASSUME JournalInv, NEW p \in Proc, NEW c \in Command, Current(p, c)
    PROVE  /\ Stored(c) /\ records[c].state \in RunnerStates \ Terminal
           /\ records[c].state = "started" <=> <<p, c>> \in working
           /\ <<p, c>> \in working => submitted[c] = 1
           /\ <<p, c>> \notin working => submitted[c] = 0
<1>1. /\ Stored(c) /\ records[c].state \notin Terminal
      /\ records[c].state = "started" <=> <<p, c>> \in working
      /\ <<p, c>> \in working => submitted[c] = 1
  BY DEF JournalInv, HandlesAreHonest, Current
<1>2. records[c].state \in RunnerStates
  BY <1>1 DEF JournalInv, TypeOK, JournalTypeOK, Record, Stored
<1>3. <<p, c>> \notin working => submitted[c] = 0
  BY <1>1, <1>2, NotYetSubmitted, StateNames
<1> QED
  BY <1>1, <1>2, <1>3

LEMMA AdvancePuts ==
    ASSUME JournalInv, NEW p \in Proc, NEW c \in Command, NEW to, NEW code,
           NEW userEvent, NEW steering,
           Advance(p, c, to, code, userEvent, steering)
    PROVE  Puts(p, c, Next_(p, c, to, code, userEvent, steering),
                records[c].revision + 1)
BY DEF Advance, Puts, JournalInv, TypeOK, JournalTypeOK

LEMMA QueuedStep ==
    ASSUME JournalInv, NEW p \in Proc, NEW c \in Command, CallQueued(p, c)
    PROVE  Shaped
<1>1. PICK code \in {"none", "retryable"} : Queued(p, c, code)
  BY DEF CallQueued
<1> DEFINE rec == Next_(p, c, "queued", code, FALSE, records[c].steering)
           r == records[c].revision + 1
<1>2. /\ Current(p, c) /\ Puts(p, c, rec, r)
  BY <1>1, AdvancePuts DEF Queued, Advance
<1>3. /\ rec \in Record /\ r \in Nat /\ rec.revision = r
      /\ rec.state = "queued" /\ rec.expiresAt = records[c].expiresAt
      /\ r > records[c].revision
  <2>1. \A to \in RunnerStates, cd \in Codes, ue \in BOOLEAN,
             st \in BOOLEAN : Next_(p, c, to, cd, ue, st) \in Record
    BY NextType
  <2>2. rec \in Record
    BY <2>1, SteeringType, StateNames
  <2> QED
    BY <2>2, SteeringType DEF Next_
<1>4. /\ <<p, c>> \notin working /\ Remember
      /\ UNCHANGED <<now, submitted, working>>
  BY DEF CallQueued, Quietly
<1> HIDE DEF rec, r
<1>5. ASSUME records'[c] = rec, handles'[p][c] = r
      PROVE  Written(p, c)
  <2>1. \A q \in Proc \ {p} : Bystander(q, c)
    BY <1>2, <1>3, <1>4, PutType DEF Bystander
  <2>2. /\ Stored(c) /\ records[c].state \notin Terminal
        /\ submitted[c] = 0 /\ records[c].state # "started"
    BY <1>2, <1>4, CurrentSays
  <2> QED
    BY <1>3, <1>4, <1>5, <2>1, <2>2, StateNames DEF Written, WireState
<1> QED
  BY <1>2, <1>3, <1>4, <1>5, PutShaped DEF JournalInv, TypeOK

LEMMA StartedStep ==
    ASSUME JournalInv, NEW p \in Proc, NEW c \in Command, CallStarted(p, c)
    PROVE  Shaped
<1>1. PICK event \in BOOLEAN : Started(p, c, event)
  BY DEF CallStarted
<1> DEFINE rec == Next_(p, c, "started", "none", event, FALSE)
           r == records[c].revision + 1
<1>2. /\ Current(p, c) /\ Puts(p, c, rec, r)
  BY <1>1, AdvancePuts DEF Started, Advance
<1>3. /\ rec \in Record /\ r \in Nat /\ rec.revision = r
      /\ rec.state = "started" /\ rec.expiresAt = records[c].expiresAt
      /\ r > records[c].revision /\ rec.steering = FALSE
  <2>1. \A to \in RunnerStates, cd \in Codes, ue \in BOOLEAN,
             st \in BOOLEAN : Next_(p, c, to, cd, ue, st) \in Record
    BY NextType
  <2>2. rec \in Record
    BY <2>1, SteeringType, StateNames
  <2> QED
    BY <2>2, SteeringType DEF Next_
<1>4. /\ <<p, c>> \notin working /\ Remember /\ now' = now
      /\ working' = working \cup {<<p, c>>}
      /\ submitted' = [submitted EXCEPT ![c] = @ + 1]
  BY DEF CallStarted, HandOver
<1> HIDE DEF rec, r
<1>5. /\ Stored(c) /\ records[c].state \notin Terminal /\ submitted[c] = 0
  BY <1>2, <1>4, CurrentSays
<1>6. /\ submitted' \in [Command -> Nat] /\ submitted'[c] = 1
      /\ \A d \in Command \ {c} : submitted'[d] = submitted[d]
  BY <1>4, <1>5 DEF JournalInv, TypeOK
<1>7. ASSUME records'[c] = rec, handles'[p][c] = r
      PROVE  Written(p, c)
  <2>1. \A q \in Proc \ {p} : Bystander(q, c)
    BY <1>2, <1>3, <1>4, PutType DEF Bystander
  <2> QED
    BY <1>3, <1>4, <1>5, <1>6, <1>7, <2>1, StateNames
       DEF Written, WireState
<1> QED
  BY <1>2, <1>3, <1>4, <1>6, <1>7, PutShaped

LEMMA ConfirmStep ==
    ASSUME JournalInv, NEW p \in Proc, NEW c \in Command,
           ConfirmSteering(p, c)
    PROVE  Shaped
<1> DEFINE rec == Next_(p, c, "started", "none", TRUE, FALSE)
           r == records[c].revision + 1
<1>2. /\ Current(p, c) /\ Puts(p, c, rec, r)
  BY AdvancePuts DEF ConfirmSteering, Started, Advance
<1>3. /\ rec \in Record /\ r \in Nat /\ rec.revision = r
      /\ rec.state = "started" /\ rec.expiresAt = records[c].expiresAt
      /\ r > records[c].revision /\ rec.steering = FALSE
  <2>1. \A to \in RunnerStates, cd \in Codes, ue \in BOOLEAN,
             st \in BOOLEAN : Next_(p, c, to, cd, ue, st) \in Record
    BY NextType
  <2>2. rec \in Record
    BY <2>1, SteeringType, StateNames
  <2> QED
    BY <2>2, SteeringType DEF Next_
<1>4. /\ <<p, c>> \in working /\ Remember
      /\ UNCHANGED <<now, submitted, working>>
  BY DEF ConfirmSteering, Quietly
<1> HIDE DEF rec, r
<1>5. ASSUME records'[c] = rec, handles'[p][c] = r
      PROVE  Written(p, c)
  <2>1. \A q \in Proc \ {p} : Bystander(q, c)
    BY <1>2, <1>3, <1>4, PutType DEF Bystander
  <2>2. /\ Stored(c) /\ records[c].state \notin Terminal
        /\ submitted[c] = 1
    BY <1>2, <1>4, CurrentSays
  <2> QED
    BY <1>3, <1>4, <1>5, <2>1, <2>2, StateNames DEF Written, WireState
<1> QED
  BY <1>2, <1>3, <1>4, <1>5, PutShaped DEF JournalInv, TypeOK

LEMMA SteeringStep ==
    ASSUME JournalInv, NEW p \in Proc, NEW c \in Command,
           CallBeginSteering(p, c)
    PROVE  Shaped
<1> DEFINE rec == Next_(p, c, "started", "none", FALSE, TRUE)
           r == records[c].revision + 1
<1>2. /\ Current(p, c) /\ Puts(p, c, rec, r) /\ records[c].state = "queued"
  BY AdvancePuts DEF CallBeginSteering, BeginSteering, Advance
<1>3. /\ rec \in Record /\ r \in Nat /\ rec.revision = r
      /\ rec.state = "started" /\ rec.expiresAt = records[c].expiresAt
      /\ r > records[c].revision
  <2>1. \A to \in RunnerStates, cd \in Codes, ue \in BOOLEAN,
             st \in BOOLEAN : Next_(p, c, to, cd, ue, st) \in Record
    BY NextType
  <2>2. rec \in Record
    BY <2>1, SteeringType, StateNames
  <2> QED
    BY <2>2, SteeringType DEF Next_
<1>4. /\ <<p, c>> \notin working /\ Remember /\ now' = now
      /\ working' = working \cup {<<p, c>>}
      /\ submitted' = [submitted EXCEPT ![c] = @ + 1]
  BY DEF CallBeginSteering, HandOver
<1> HIDE DEF rec, r
<1>5. /\ Stored(c) /\ records[c].state \notin Terminal /\ submitted[c] = 0
      /\ WireState(records[c]) # "started"
  BY <1>2, <1>4, CurrentSays DEF WireState
<1>6. /\ submitted' \in [Command -> Nat] /\ submitted'[c] = 1
      /\ \A d \in Command \ {c} : submitted'[d] = submitted[d]
  BY <1>4, <1>5 DEF JournalInv, TypeOK
<1>7. ASSUME records'[c] = rec, handles'[p][c] = r
      PROVE  Written(p, c)
  <2>1. \A q \in Proc \ {p} : Bystander(q, c)
    BY <1>2, <1>3, <1>4, PutType DEF Bystander
  <2> QED
    BY <1>3, <1>4, <1>5, <1>6, <1>7, <2>1, StateNames DEF Written
<1> QED
  BY <1>2, <1>3, <1>4, <1>6, <1>7, PutShaped

LEMMA RejectedStep ==
    ASSUME JournalInv, NEW p \in Proc, NEW c \in Command,
           CallSteeringRejected(p, c)
    PROVE  Shaped
<1> DEFINE rec == Next_(p, c, "queued", "none", FALSE, FALSE)
           r == records[c].revision + 1
<1>2. /\ Current(p, c) /\ Puts(p, c, rec, r)
      /\ records[c].state = "started" /\ records[c].steering
  BY AdvancePuts DEF CallSteeringRejected, SteeringRejected, Advance
<1>3. /\ rec \in Record /\ r \in Nat /\ rec.revision = r
      /\ rec.state = "queued" /\ rec.expiresAt = records[c].expiresAt
      /\ r > records[c].revision
  <2>1. \A to \in RunnerStates, cd \in Codes, ue \in BOOLEAN,
             st \in BOOLEAN : Next_(p, c, to, cd, ue, st) \in Record
    BY NextType
  <2>2. rec \in Record
    BY <2>1, SteeringType, StateNames
  <2> QED
    BY <2>2, SteeringType DEF Next_
<1>4. /\ <<p, c>> \in working /\ Remember /\ now' = now
      /\ working' = working \ {<<p, c>>}
      /\ submitted' = [submitted EXCEPT ![c] = @ - 1]
  BY DEF CallSteeringRejected
<1> HIDE DEF rec, r
<1>5. /\ Stored(c) /\ records[c].state \notin Terminal /\ submitted[c] = 1
      /\ WireState(records[c]) = "queued"
  BY <1>2, <1>4, CurrentSays DEF WireState
<1>6. /\ submitted' \in [Command -> Nat] /\ submitted'[c] = 0
      /\ \A d \in Command \ {c} : submitted'[d] = submitted[d]
  BY <1>4, <1>5 DEF JournalInv, TypeOK
<1>7. ASSUME records'[c] = rec, handles'[p][c] = r
      PROVE  Written(p, c)
  <2>1. \A q \in Proc \ {p} : Bystander(q, c)
    BY <1>2, <1>3, <1>4, PutType DEF Bystander
  <2> QED
    BY <1>3, <1>4, <1>5, <1>6, <1>7, <2>1, StateNames DEF Written
<1> QED
  BY <1>2, <1>3, <1>4, <1>6, <1>7, PutShaped

-----------------------------------------------------------------------------
(* Operations that end a command or throw.  They give the handle up, so    *)
(* what they write is nobody's: it only has to be a legal next record.     *)

LEMMA GivenUpStep ==
    ASSUME JournalInv, NEW p \in Proc, NEW c \in Command,
           Current(p, c), NEW rec \in Record,
           rec.state \in RunnerStates, rec.expiresAt = records[c].expiresAt,
           rec.revision > records[c].revision,
           rec.state \notin {"started"} \cup Terminal => <<p, c>> \notin working,
           records[c].state = "started" =>
              rec.state \in Terminal \/ <<p, c>> \notin working,
           Puts(p, c, rec, 0), Quietly
    PROVE  Shaped
<1>1. Remember /\ UNCHANGED <<now, submitted, working>>
  BY DEF Quietly
<1>2. ASSUME records'[c] = rec, handles'[p][c] = 0
      PROVE  Written(p, c)
  <2>1. \A q \in Proc \ {p} : Bystander(q, c)
    BY <1>1, PutType DEF Bystander
  <2>2. /\ Stored(c) /\ records[c].state \notin Terminal
        /\ submitted[c] <= 1
        /\ records[c].state = "started" => rec.state \in Terminal
        /\ submitted[c] > 0 => rec.state \in {"started"} \cup Terminal
    BY CurrentSays DEF JournalInv, AtMostOneSubmission
  <2>3. handles'[p][c] # records'[c].revision
    BY <1>2, SteeringType DEF Record
  <2> QED
    BY <1>1, <1>2, <2>1, <2>2, <2>3, StateNames DEF Written, WireState
<1> QED
  BY <1>1, <1>2, PutShaped DEF JournalInv, TypeOK

\* A throw that wrote nothing.
LEMMA DroppedStep ==
    ASSUME JournalInv, NEW p \in Proc, NEW c \in Command,
           UNCHANGED <<records, proc, lapsed>>, Hold(p, c, 0), Quietly
    PROVE  Shaped
<1>1. Puts(p, c, records[c], 0)
  BY DEF Puts, JournalInv, TypeOK, JournalTypeOK
<1>2. records[c] \in Record
  BY DEF JournalInv, TypeOK, JournalTypeOK
<1>3. Remember /\ UNCHANGED <<now, submitted, working>>
  BY DEF Quietly
<1>4. ASSUME handles'[p][c] = 0 PROVE Left(c)
  <2>1. \A q \in Proc : Bystander(q, c)
    BY <1>1, <1>2, <1>3, <1>4, PutType DEF Bystander
  <2> QED
    BY <1>3, <2>1 DEF Left
<1> QED
  BY <1>1, <1>2, <1>3, <1>4, PutShaped DEF JournalInv, TypeOK

LEMMA SettleStep ==
    ASSUME JournalInv, NEW p \in Proc, NEW c \in Command, CallSettle(p, c)
    PROVE  Shaped
<1>1. PICK to \in Terminal, code \in {"none", "other"} :
           Settle(p, c, to, code) \/ SettleThrows(p, c, to, code)
  BY DEF CallSettle
<1> DEFINE rec == Next_(p, c, to, code, FALSE, records[c].steering)
<1>2. /\ rec \in Record /\ rec.state = to
      /\ rec.expiresAt = records[c].expiresAt
      /\ rec.revision > records[c].revision
  <2>1. to \in RunnerStates /\ code \in Codes /\ FALSE \in BOOLEAN
    BY StateNames
  <2>2. rec \in Record
    BY <2>1, SteeringType, NextType
  <2> QED
    BY <2>2, SteeringType DEF Next_
<1>3. Quietly
  BY DEF CallSettle
<1>4. \/ Current(p, c) /\ Puts(p, c, rec, 0)
      \/ UNCHANGED <<records, proc, lapsed>> /\ Hold(p, c, 0)
  BY <1>1 DEF Settle, SettleThrows, Puts, JournalInv, TypeOK, JournalTypeOK
<1> HIDE DEF rec
<1> QED
  BY <1>1, <1>2, <1>3, <1>4, GivenUpStep, DroppedStep, StateNames

LEMMA ThrowStep ==
    ASSUME JournalInv, NEW p \in Proc, NEW c \in Command,
           NEW to \in {"queued", "started"}, Throw(p, c, to, FALSE, FALSE),
           <<p, c>> \notin working, Quietly
    PROVE  Shaped
<1> DEFINE rec  == Next_(p, c, to, "none", FALSE, FALSE)
           fail == Next_(p, c, "failed", "other", FALSE, records[c].steering)
<1>1. \A s \in RunnerStates, k \in Codes, ue \in BOOLEAN, st \in BOOLEAN :
          Next_(p, c, s, k, ue, st) \in Record
  BY NextType
<1>2. /\ rec \in Record /\ rec.state = to
      /\ rec.expiresAt = records[c].expiresAt
      /\ rec.revision > records[c].revision
  <2>1. rec \in Record
    BY <1>1, SteeringType, StateNames
  <2> QED
    BY <2>1, SteeringType DEF Next_
<1>3. /\ fail \in Record /\ fail.state = "failed"
      /\ fail.expiresAt = records[c].expiresAt
      /\ fail.revision > records[c].revision
  <2>1. fail \in Record
    BY <1>1, SteeringType, StateNames
  <2> QED
    BY <2>1, SteeringType DEF Next_
<1>4. \/ Current(p, c) /\ (Puts(p, c, rec, 0) \/ Puts(p, c, fail, 0))
      \/ UNCHANGED <<records, proc, lapsed>> /\ Hold(p, c, 0)
  BY DEF Throw, Puts, JournalInv, TypeOK, JournalTypeOK
<1> HIDE DEF rec, fail
<1>5. CASE Current(p, c) /\ Puts(p, c, rec, 0)
  BY <1>2, <1>5, GivenUpStep, StateNames
<1>6. CASE Current(p, c) /\ Puts(p, c, fail, 0)
  BY <1>3, <1>6, GivenUpStep, StateNames
<1> QED
  BY <1>4, <1>5, <1>6, DroppedStep

LEMMA PutBackType ==
    ASSUME NEW rec \in Record
    PROVE  LET back == [rec EXCEPT !.state = "queued", !.steering = FALSE,
                                   !.revision = @ + 1, !.code = "none"]
           IN  /\ back \in Record /\ back.state = "queued"
               /\ back.revision = rec.revision + 1
               /\ back.expiresAt = rec.expiresAt
<1>1. /\ "queued" \in RunnerStates \cup {"none"} /\ "none" \in Codes
      /\ rec.revision + 1 \in Nat
  BY StateNames DEF Record
<1> QED
  BY <1>1 DEF Record

\* The caught throw of a steering attempt: put back, or fenced for good.
LEMMA SteeringThrowsStep ==
    ASSUME JournalInv, NEW p \in Proc, NEW c \in Command,
           BeginSteeringThrows(p, c), <<p, c>> \notin working, Quietly
    PROVE  Shaped
<1>1. PICK published \in BOOLEAN, recovered \in BOOLEAN, kept \in BOOLEAN :
         LET base == IF published
                     THEN Next_(p, c, "started", "none", FALSE, TRUE)
                     ELSE records[c]
             back == [base EXCEPT !.state = "queued", !.steering = FALSE,
                                  !.revision = @ + 1, !.code = "none"]
         IN /\ kept => recovered
            /\ records' = [records EXCEPT
                              ![c] = IF recovered THEN back ELSE base]
            /\ Hold(p, c, IF kept THEN back.revision ELSE 0)
  BY DEF BeginSteeringThrows
<1> DEFINE fence == Next_(p, c, "started", "none", FALSE, TRUE)
           base == IF published THEN fence ELSE records[c]
           back == [base EXCEPT !.state = "queued", !.steering = FALSE,
                                !.revision = @ + 1, !.code = "none"]
           r == back.revision
<1>2. /\ Current(p, c) /\ UNCHANGED <<proc, lapsed>>
      /\ records[c].state = "queued"
  BY DEF BeginSteeringThrows
<1>3. /\ fence \in Record /\ fence.state = "started"
      /\ fence.expiresAt = records[c].expiresAt
      /\ fence.revision > records[c].revision
  <2>1. \A s \in RunnerStates, k \in Codes, ue \in BOOLEAN, st \in BOOLEAN :
             Next_(p, c, s, k, ue, st) \in Record
    BY NextType
  <2>2. fence \in Record
    BY <2>1, StateNames
  <2> QED
    BY <2>2, SteeringType DEF Next_
<1>4. /\ base \in Record /\ base.expiresAt = records[c].expiresAt
      /\ base.revision >= records[c].revision
  <2>1. records[c] \in Record
    BY DEF JournalInv, TypeOK, JournalTypeOK
  <2>2. CASE published
    <3>1. fence.revision \in Nat /\ records[c].revision \in Nat
      BY <1>3, SteeringType DEF Record
    <3>2. base = fence
      BY <2>2
    <3> HIDE DEF fence, base
    <3> QED
      BY <1>3, <3>1, <3>2
  <2>3. CASE ~published
    BY <2>1, <2>3, SteeringType
  <2> QED
    BY <2>2, <2>3
<1>5. /\ back \in Record /\ back.state = "queued" /\ back.revision = r
      /\ back.expiresAt = records[c].expiresAt /\ r \in Nat
      /\ r > records[c].revision
  <2> HIDE DEF base
  <2>1. /\ back \in Record /\ back.state = "queued"
        /\ back.revision = base.revision + 1
        /\ back.expiresAt = base.expiresAt
    BY <1>4, PutBackType
  <2>2. base.revision \in Nat /\ records[c].revision \in Nat
    BY <1>4, SteeringType DEF Record
  <2> QED
    BY <1>4, <2>1, <2>2
<1>6. Remember /\ UNCHANGED <<now, submitted, working>>
  BY DEF Quietly
<1>7. CASE recovered /\ kept
  <2>1. Puts(p, c, back, r)
    BY <1>1, <1>2, <1>7 DEF Puts, JournalInv, TypeOK, JournalTypeOK
  <2> HIDE DEF base, back, r
  <2>2. ASSUME records'[c] = back, handles'[p][c] = r
        PROVE  Written(p, c)
    <3>1. \A q \in Proc \ {p} : Bystander(q, c)
      BY <2>1, <1>5, <1>6, PutType DEF Bystander
    <3>2. /\ Stored(c) /\ records[c].state \notin Terminal
          /\ submitted[c] = 0
      BY <1>2, CurrentSays
    <3> QED
      BY <1>2, <1>5, <1>6, <2>2, <3>1, <3>2, StateNames
         DEF Written, WireState
  <2> QED
    BY <1>5, <1>6, <2>1, <2>2, PutShaped DEF JournalInv, TypeOK
<1>8. CASE ~recovered /\ ~kept /\ published
  <2>1. Puts(p, c, fence, 0)
    BY <1>1, <1>2, <1>8 DEF Puts, JournalInv, TypeOK, JournalTypeOK
  <2> HIDE DEF fence
  <2> QED
    BY <1>2, <1>3, <2>1, GivenUpStep, StateNames
<1>9. CASE ~recovered /\ ~kept /\ ~published
  <2>1. records' = records /\ Hold(p, c, 0)
    BY <1>1, <1>9 DEF JournalInv, TypeOK, JournalTypeOK
  <2> QED
    BY <1>2, <2>1, DroppedStep
<1>10. CASE recovered /\ ~kept
  <2>1. Puts(p, c, back, 0)
    BY <1>1, <1>2, <1>10 DEF Puts, JournalInv, TypeOK, JournalTypeOK
  <2> HIDE DEF base, back, r
  <2> QED
    BY <1>2, <1>5, <2>1, GivenUpStep, StateNames
<1> QED
  BY <1>1, <1>7, <1>8, <1>9, <1>10

LEMMA ThrowsStep ==
    ASSUME JournalInv, NEW p \in Proc, NEW c \in Command, CallThrows(p, c)
    PROVE  Shaped
<1>1. <<p, c>> \notin working /\ Quietly
  BY DEF CallThrows
<1>2. CASE \E to \in {"queued", "started"} : Throw(p, c, to, FALSE, FALSE)
  BY <1>1, <1>2, ThrowStep
<1>3. CASE BeginSteeringThrows(p, c)
  BY <1>1, <1>3, SteeringThrowsStep
<1> QED
  BY <1>2, <1>3 DEF CallThrows

-----------------------------------------------------------------------------
(* Claims.                                                                 *)

LEMMA RoomType ==
    ASSUME JournalInv
    PROVE  /\ Pruned \in [Command -> Record]
           /\ AfterRoom \in [Command -> Record]
           /\ \A d \in Command : AfterRoom[d] \in {records[d], Pruned[d]}
<1>1. NoRecord \in Record
  BY DEF NoRecord, Record, Codes
<1> QED
  BY <1>1 DEF Pruned, AfterRoom, JournalInv, TypeOK, JournalTypeOK

\* A step that at most prunes and drops handles.
LEMMA QuietShaped ==
    ASSUME JournalInv, JournalTypeOK', Remember,
           UNCHANGED <<now, submitted, working>>,
           \A d \in Command : records'[d] \in {records[d], Pruned[d]},
           \A q \in Proc, d \in Command : handles'[q][d] \in {handles[q][d], 0}
    PROVE  Shaped
<1>1. TypeOK' /\ now' >= now
  BY DEF JournalInv, TypeOK, Remember
<1>2. ASSUME NEW d \in Command PROVE Left(d) /\ Remembered(d)
  BY DEF Left, Bystander, Pruned, Remembered, Remember
<1> QED
  BY <1>1, <1>2 DEF Shaped, CommandStep

\* The first record of a command: it was never recorded before.
LEMMA AcceptStep ==
    ASSUME JournalInv, NEW p \in Proc, NEW c \in Command,
           Fresh(Deadline[c]), Accept(p, c, Deadline[c]), Heartbeat(p),
           UNCHANGED <<proc, now, submitted>>, Remember,
           \/ Hold(p, c, 1) /\ working' = working \ {<<p, c>>}
           \/ UNCHANGED <<handles, working>>
    PROVE  Shaped
<1>0. JournalTypeOK /\ TypeOK
  BY DEF JournalInv, TypeOK
<1>1. ~Stored(c) /\ c \notin known
  <2>1. Deadline[c] \in Nat /\ now \in Nat
    BY <1>0, DeadlineAssumption DEF TypeOK
  <2> QED
    BY <2>1 DEF Accept, Fresh, JournalInv, RecordsAreKept
<1>2. Accepted(p, Deadline[c]) \in Record
  BY DeadlineAssumption, StateNames DEF Accepted, Record
<1>3. /\ records' \in [Command -> Record]
      /\ records'[c] = Accepted(p, Deadline[c])
      /\ \A d \in Command \ {c} : records'[d] \in {records[d], Pruned[d]}
  BY <1>2, RoomType DEF Accept
<1>4. /\ handles' \in [Proc -> [Command -> Nat]]
      /\ handles'[p][c] \in {handles[p][c], 1}
      /\ \A q \in Proc, d \in Command :
           q # p \/ d # c => handles'[q][d] = handles[q][d]
  BY <1>0 DEF Hold, JournalTypeOK
<1>5. /\ working' \subseteq Proc \X Command
      /\ \A q \in Proc, d \in Command :
           q # p \/ d # c => (<<q, d>> \in working' <=> <<q, d>> \in working)
  BY <1>0 DEF TypeOK
<1>6. handles'[p][c] = 1 => <<p, c>> \notin working'
  <2>1. handles[p][c] = 0
    <3>1. ~(handles[p][c] > 0)
      BY <1>1 DEF JournalInv, HandlesAreHonest
    <3> QED
      BY <1>0, <3>1 DEF JournalTypeOK
  <2> QED
    BY <2>1
<1>7. TypeOK'
  BY <1>0, <1>3, <1>4, <1>5
     DEF TypeOK, JournalTypeOK, Heartbeat, Remember
<1>8. Elsewhere(p, c)
  BY <1>3, <1>4, <1>5 DEF Elsewhere
<1>9. New(p, c)
  BY <1>1, <1>3, <1>4, <1>5, <1>6 DEF New, Bystander
<1> QED
  BY <1>7, <1>8, <1>9, ElsewhereShaped

\* A claim that takes a record over, or ends it, by its next revision.
LEMMA TakenStep ==
    ASSUME JournalInv, NEW p \in Proc, NEW c \in Command,
           NEW to \in RunnerStates,
           \/ to = "accepted" /\ records[c].state \in {"accepted", "queued"}
           \/ to = "uncertain" /\ records[c].state = "started",
           records' = [records EXCEPT ![c] =
               Next_(p, c, to, "none", FALSE, records[c].steering)],
           Heartbeat(p), UNCHANGED <<proc, now, submitted>>, Remember,
           \/ /\ to = "accepted" /\ Hold(p, c, records[c].revision + 1)
              /\ working' = working \ {<<p, c>>}
           \/ UNCHANGED <<handles, working>>
    PROVE  Shaped
<1> DEFINE rec == Next_(p, c, to, "none", FALSE, records[c].steering)
<1>0. JournalTypeOK /\ TypeOK
  BY DEF JournalInv, TypeOK
<1>1. /\ rec \in Record /\ rec.state = to
      /\ rec.expiresAt = records[c].expiresAt
      /\ rec.revision = records[c].revision + 1
      /\ rec.revision > records[c].revision
  <2>1. \A k \in Codes, ue \in BOOLEAN, st \in BOOLEAN :
             Next_(p, c, to, k, ue, st) \in Record
    BY NextType
  <2>2. rec \in Record
    BY <2>1, SteeringType, StateNames
  <2> QED
    BY <2>2, SteeringType DEF Next_
<1>2. /\ handles[p][c] \in Nat /\ rec.revision \in Nat
      /\ records[c].revision \in Nat
  BY <1>0, <1>1, SteeringType DEF JournalTypeOK, Record
<1>3. PICK r \in {handles[p][c], rec.revision} :
         /\ Hold(p, c, r)
         /\ r = rec.revision /\ r # handles[p][c] =>
              to = "accepted" /\ working' = working \ {<<p, c>>}
  <2>1. CASE UNCHANGED <<handles, working>>
    <3>1. Hold(p, c, handles[p][c])
      BY <1>0, <2>1 DEF Hold, JournalTypeOK
    <3> QED
      BY <3>1
  <2>2. CASE /\ to = "accepted" /\ Hold(p, c, records[c].revision + 1)
             /\ working' = working \ {<<p, c>>}
    BY <1>1, <2>2
  <2> QED
    BY <2>1, <2>2
<1>4. Puts(p, c, rec, r)
  BY <1>0, <1>3 DEF Puts, Heartbeat, TypeOK, JournalTypeOK
<1>5. /\ Stored(c) /\ records[c].state \notin Terminal
      /\ handles[p][c] <= records[c].revision
  BY StateNames DEF Stored, JournalInv, HandlesAreHonest
<1>6. /\ submitted[c] <= 1
      /\ submitted[c] > 0 => to \in {"started"} \cup Terminal
  BY <1>5, NotYetSubmitted, StateNames
     DEF JournalInv, AtMostOneSubmission
<1> HIDE DEF rec
<1>8. working' \ {<<p, c>>} = working \ {<<p, c>>}
  OBVIOUS
<1>9. r \in Nat
  BY <1>2, <1>3
<1>7. ASSUME records'[c] = rec, handles'[p][c] = r
      PROVE  Written(p, c)
  <2>1. \A q \in Proc \ {p} : Bystander(q, c)
    <3>1. \A q \in Proc \ {p} : handles'[q][c] = handles[q][c]
      BY <1>0, <1>3 DEF Hold, JournalTypeOK
    <3> QED
      BY <1>8, <3>1 DEF Bystander
  <2>2. handles'[p][c] = rec.revision =>
          to = "accepted" /\ <<p, c>> \notin working'
    BY <1>1, <1>2, <1>3, <1>5, <1>7
  <2>3. WireState(records[c]) = "started" => to = "uncertain"
    BY DEF WireState
  <2>4. to = "uncertain" => WireState(rec) = to
    BY <1>1 DEF WireState
  <2>5. r \in {0, handles[p][c], rec.revision} /\ UNCHANGED submitted
    BY <1>3
  <2>6. /\ submitted'[c] <= 1
        /\ submitted'[c] > 0 => to \in {"started"} \cup Terminal
    BY <1>6, <2>5
  <2>7. handles'[p][c] = rec.revision =>
          to \notin Terminal /\ to # "started" /\ <<p, c>> \notin working'
    BY <2>2, StateNames
  <2>8. WireState(records[c]) = "started" =>
          to \in {"started"} \cup Terminal /\ WireState(rec) = to
    BY <2>3, <2>4, StateNames
  <2> QED
    BY <1>1, <1>5, <1>7, <2>1, <2>5, <2>6, <2>7, <2>8 DEF Written
<1> QED
  BY <1>0, <1>1, <1>4, <1>7, <1>8, <1>9, PutShaped DEF TypeOK

LEMMA ClaimStep ==
    ASSUME JournalInv, NEW p \in Proc, NEW c \in Command,
           Claim(p, c) \/ Decline(p, c)
    PROVE  Shaped
<1> USE DEF Delivered, JournalInv, TypeOK
<1>1. CASE Claim(p, c)
  <2>1. CASE ClaimNew(p, c, Deadline[c])
    BY <1>1, <2>1, AcceptStep DEF Claim, ClaimNew
  <2>2. CASE ClaimReclaim(p, c, Deadline[c])
    BY <1>1, <2>2, TakenStep, StateNames DEF Claim, ClaimReclaim, Reclaim
  <2> QED
    BY <1>1, <2>1, <2>2 DEF Claim
<1>2. CASE Decline(p, c)
  <2>1. CASE ClaimLost(p, c, Deadline[c])
    BY <1>2, <2>1, TakenStep, StateNames DEF Decline, ClaimLost, Lose
  <2>2. CASE \/ ClaimFull(p, c, Deadline[c])
             \/ ClaimDuplicate(p, c, Deadline[c])
    BY <1>2, <2>2, RoomType, QuietShaped
       DEF Decline, ClaimFull, ClaimDuplicate, Heartbeat, JournalTypeOK
  <2>3. CASE ClaimThrows(p, c, Deadline[c])
    <3>1. CASE Accept(p, c, Deadline[c])
      BY <1>2, <2>3, <3>1, AcceptStep DEF Decline, ClaimThrows
    <3>2. CASE Reclaim(p, c)
      BY <1>2, <2>3, <3>2, TakenStep, StateNames
         DEF Decline, ClaimThrows, Reclaim
    <3>3. CASE Lose(p, c)
      BY <1>2, <2>3, <3>3, TakenStep, StateNames
         DEF Decline, ClaimThrows, Lose
    <3>4. CASE records' = AfterRoom
      BY <1>2, <2>3, <3>4, RoomType, QuietShaped
         DEF Decline, ClaimThrows, Heartbeat, JournalTypeOK
    <3> QED
      BY <2>3, <3>1, <3>2, <3>3, <3>4 DEF ClaimThrows
  <2> QED
    BY <1>2, <2>1, <2>2, <2>3 DEF Decline
<1> QED
  BY <1>1, <1>2

-----------------------------------------------------------------------------
(* Processes, leases and the clock.                                        *)

LEMMA LifeStep ==
    ASSUME JournalInv, NEW p \in Proc,
           Open(p) \/ Die(p) \/ Lapse(p) \/ Beat(p), Quietly
    PROVE  Shaped
<1>1. JournalTypeOK
  BY DEF JournalInv, TypeOK
<1>2. \A d \in Command : records'[d] \in {records[d], Pruned[d]}
  BY DEF Open, Die, Lapse, Beat
<1>3. \A q \in Proc, d \in Command : handles'[q][d] \in {handles[q][d], 0}
  BY <1>1 DEF Open, Die, Lapse, Beat, JournalTypeOK
<1>4. /\ records' \in [Command -> Record]
      /\ handles' \in [Proc -> [Command -> Nat]]
  BY <1>1, RoomType DEF Open, Die, Lapse, Beat, JournalTypeOK
<1>5. proc' \in [Proc -> {"unborn", "live", "dead"}] /\ lapsed' \subseteq Proc
  BY <1>1 DEF Open, Die, Lapse, Beat, Heartbeat, JournalTypeOK
<1>6. JournalTypeOK'
  BY <1>4, <1>5 DEF JournalTypeOK
<1> QED
  BY <1>2, <1>3, <1>6, QuietShaped DEF Quietly

LEMMA TickStep == ASSUME JournalInv, ClockTick PROVE Shaped
<1>1. TypeOK' /\ now' >= now
  BY DEF ClockTick, Tick, JournalInv, TypeOK, JournalTypeOK, journalVars
<1>2. ASSUME NEW d \in Command PROVE Left(d) /\ Remembered(d)
  BY DEF ClockTick, journalVars, Left, Bystander, Remembered
<1> QED
  BY <1>1, <1>2 DEF Shaped, CommandStep

LEMMA NextShaped == ASSUME JournalInv, Next PROVE Shaped
<1>1. CASE ClockTick
  BY <1>1, TickStep
<1>2. ASSUME NEW p \in Proc, ProcessStep(p) PROVE Shaped
  <2>1. ASSUME NEW c \in Command,
               \/ Claim(p, c) \/ Decline(p, c)
               \/ CallQueued(p, c) \/ CallStarted(p, c)
               \/ ConfirmSteering(p, c) \/ CallBeginSteering(p, c)
               \/ CallSteeringRejected(p, c) \/ CallSettle(p, c)
               \/ CallThrows(p, c)
        PROVE  Shaped
    BY <2>1, ClaimStep, QueuedStep, StartedStep, ConfirmStep, SteeringStep,
       RejectedStep, SettleStep, ThrowsStep
  <2>2. CASE (Open(p) \/ Die(p) \/ Lapse(p) \/ Beat(p)) /\ Quietly
    BY <2>2, LifeStep
  <2> QED
    BY <1>2, <2>1, <2>2 DEF ProcessStep
<1> QED
  BY <1>1, <1>2 DEF Next

-----------------------------------------------------------------------------
(* The theorems.                                                           *)

LEMMA InitInv == Init => JournalInv
<1> SUFFICES ASSUME Init PROVE JournalInv
  OBVIOUS
<1> USE DEF Init, JournalInit
<1>1. NoRecord \in Record /\ NoRecord.state = "none"
  BY DEF NoRecord, Record, Codes
<1>2. TypeOK
  BY <1>1 DEF TypeOK, JournalTypeOK
<1>3. AtMostOneSubmission /\ SubmissionIsRecorded
  BY DEF AtMostOneSubmission, SubmissionIsRecorded
<1>4. HandlesAreHonest /\ RecordsAreKept
  BY <1>1 DEF HandlesAreHonest, RecordsAreKept, Current, Stored
<1> QED
  BY <1>2, <1>3, <1>4 DEF JournalInv

LEMMA NextInv == JournalInv /\ [Next]_vars => JournalInv'
<1>1. ASSUME JournalInv, Next PROVE JournalInv'
  <2>1. Shaped
    BY <1>1, NextShaped
  <2> QED
    BY <1>1, <2>1, ShapesPreserve DEF Shaped
<1>2. ASSUME JournalInv, UNCHANGED vars PROVE JournalInv'
  BY <1>2 DEF JournalInv, TypeOK, JournalTypeOK, AtMostOneSubmission,
              SubmissionIsRecorded, HandlesAreHonest, RecordsAreKept,
              Current, Stored, vars, journalVars
<1> QED
  BY <1>1, <1>2

\* Work is handed to a provider at most once, is on disk while it is in its
\* hands, and handles and records say where it is: the journal's contract
\* with any client, over stalls, crashes, prunes and throwing writes.
THEOREM JournalHolds == Spec => []JournalInv
BY InitInv, NextInv, PTL DEF Spec

\* A record that ended is never written again (transitionAllowed, claim).
THEOREM OutcomesLast == Spec => OutcomesAreKept
<1>1. ASSUME JournalInv, Next PROVE OutcomeIsKept
  <2>1. \A c \in Command : CommandStep(c)
    BY <1>1, NextShaped DEF Shaped
  <2>2. ASSUME NEW c \in Command, records[c].state \in Terminal
        PROVE  records'[c] = records[c] \/ records'[c] = NoRecord
    BY <2>1, <2>2, StateNames DEF CommandStep, Left, Written, New, Stored
  <2> QED
    BY <2>2 DEF OutcomeIsKept
<1>2. JournalInv /\ [Next]_vars => [OutcomeIsKept]_vars
  BY <1>1
<1> QED
  BY <1>2, JournalHolds, PTL DEF Spec, OutcomesAreKept

\* A pruned command is never taken up again (claim's test of expiresAt
\* against prune's).
THEOREM ForgottenForGood == Spec => ForgottenStaysRefused
<1>1. ASSUME JournalInv, Next PROVE ForgottenIsRefused
  <2>1. \A c \in Command : CommandStep(c)
    BY <1>1, NextShaped DEF Shaped
  <2>2. ASSUME NEW c \in Command, c \in known, ~Stored(c)
        PROVE  records'[c] = NoRecord
    BY <1>1, <2>1, <2>2
       DEF CommandStep, Left, Written, New, JournalInv, RecordsAreKept
  <2> QED
    BY <2>2 DEF ForgottenIsRefused
<1>2. JournalInv /\ [Next]_vars => [ForgottenIsRefused]_vars
  BY <1>1
<1> QED
  BY <1>2, JournalHolds, PTL DEF Spec, ForgottenStaysRefused

\* What the wire called started stays started until it ends or is pruned
\* (receipt's mask of the crash fence).
THEOREM StartedIsFinal == Spec => StartedStaysSaid
<1>1. ASSUME JournalInv, Next PROVE StartedIsNotUnsaid
  <2>1. \A c \in Command : CommandStep(c)
    BY <1>1, NextShaped DEF Shaped
  <2>2. ASSUME NEW c \in Command, WireState(records[c]) = "started"
        PROVE  WireState(records'[c]) \in {"started", "none"} \cup Terminal
    <3>1. Stored(c)
      BY <2>2 DEF WireState, Stored
    <3>2. WireState(NoRecord) = "none"
      BY DEF WireState, NoRecord
    <3> QED
      BY <2>1, <2>2, <3>1, <3>2 DEF CommandStep, Left, Written, New
  <2> QED
    BY <2>2 DEF StartedIsNotUnsaid
<1>2. JournalInv /\ [Next]_vars => [StartedIsNotUnsaid]_vars
  BY <1>1
<1> QED
  BY <1>2, JournalHolds, PTL DEF Spec, StartedStaysSaid
=============================================================================
