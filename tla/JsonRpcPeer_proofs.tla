------------------------- MODULE JsonRpcPeer_proofs -------------------------
(***************************************************************************)
(* Proofs about JsonRpcPeer, for any requests, deadlines, line limit and   *)
(* sizes of records: how requests end, how the agent's output is cut into  *)
(* records, and the order in which they take effect.                       *)
(***************************************************************************)
EXTENDS JsonRpcPeer, SequenceTheorems, FiniteSetTheorems, TLAPS

Outcome == {"new", "pending", "notSent", "transport", "timeout", "discarded",
            "answer", "mixed up"}

\* What is on its way to the agent, and what the agent writes.
Message ==
    [kind : {"request"}, id : Nat, of : Req] \cup [kind : {"reply"}]

AgentRecord ==
    [kind : {"response"}, id : Nat, of : Req, size : Sizes]
        \cup [kind : {"note", "call"}, size : Sizes]

\* The types of the tables and channels.
Typed ==
    /\ nextId \in Nat \ {0}
    /\ pending = [i \in DOMAIN pending |-> pending[i]]
    /\ DOMAIN pending \subseteq 1 .. nextId - 1
    /\ out \in [Req -> Outcome]
    /\ closed \in BOOLEAN /\ mid \in BOOLEAN
    /\ stdin \in Seq(Message)
    /\ inbox \subseteq [id : Nat, of : Req]
    /\ records \in Seq(AgentRecord)
    /\ stdout \in Seq(BOOLEAN)
    /\ buffer \in [bytes : Nat, discarding : BOOLEAN, reading : Nat]
    /\ micro \in Seq(Nat) /\ seen \in Seq(Nat)
    /\ written \subseteq Req

\* Each waiting request has one entry of the table.
OneEntry ==
    /\ \A i \in DOMAIN pending :
         pending[i] \in Req /\ out[pending[i]] = "pending"
    /\ \A r \in Req :
         out[r] = "pending" => \E i \in DOMAIN pending : pending[i] = r
    /\ \A i, j \in DOMAIN pending : pending[i] = pending[j] => i = j

\* Every message of an id is about the request that has or had that id.
Genuine(m) ==
    /\ m.id < nextId /\ m.of \in written
    /\ m.id \in DOMAIN pending => pending[m.id] = m.of

MessagesMatch ==
    /\ \A k \in DOMAIN stdin : stdin[k].kind = "request" => Genuine(stdin[k])
    /\ \A q \in inbox : Genuine(q)
    /\ \A n \in DOMAIN records :
         records[n].kind = "response" => Genuine(records[n])

\* What was written is a request that was made.
WrittenWasMade == \A r \in written : out[r] \notin {"new", "notSent"}

\* As many requests were made as ids were given.
IdsCounted == nextId <= Cardinality({r \in Req : out[r] # "new"}) + 1

\* The requests, from the table to the agent and back.
RequestInv ==
    /\ OneEntry /\ MessagesMatch /\ WrittenWasMade /\ IdsCounted
    /\ NothingParked /\ AnswersMatch

-----------------------------------------------------------------------------
(* The table.                                                              *)

LEMMA EmptyTable ==
    ASSUME NEW f, f = [i \in DOMAIN f |-> f[i]]
    PROVE  f = <<>> <=> DOMAIN f = {}
OBVIOUS

LEMMA Emptied == DOMAIN <<>> = {} /\ <<>> = [i \in {} |-> <<>>[i]]
OBVIOUS

\* The table loses some of its entries, and those requests end.
Released(ids, how) ==
    /\ pending' = Without(ids)
    /\ out' = Rejected(ids, how)

\* How a waiting request may end.
Ends == {"transport", "timeout", "discarded", "answer"}

LEMMA ReleasedEntries ==
    ASSUME Typed, OneEntry, NEW ids, NEW how, ids \subseteq DOMAIN pending,
           how \in Ends, Released(ids, how)
    PROVE  /\ pending' = [i \in DOMAIN pending' |-> pending'[i]]
           /\ DOMAIN pending' = DOMAIN pending \ ids
           /\ \A i \in DOMAIN pending' : pending'[i] = pending[i]
           /\ out' \in [Req -> Outcome]
           /\ \A r \in Req : out'[r] = out[r]
                               \/ (out[r] = "pending" /\ out'[r] = how)
           /\ OneEntry'
<1>1. /\ DOMAIN pending' = DOMAIN pending \ ids
      /\ \A i \in DOMAIN pending' : pending'[i] = pending[i]
      /\ pending' = [i \in DOMAIN pending' |-> pending'[i]]
  BY DEF Released, Without
<1>2. \A r \in Req : out'[r] = IF \E i \in ids : pending[i] = r
                                 THEN how ELSE out[r]
  BY DEF Released, Rejected
<1>3. out' \in [Req -> Outcome]
  BY DEF Released, Rejected, Typed, Outcome, Ends
<1>4. \A r \in Req : out'[r] = out[r] \/ (out[r] = "pending" /\ out'[r] = how)
  BY <1>2 DEF OneEntry
<1>5. OneEntry'
  <2>1. ASSUME NEW i \in DOMAIN pending'
        PROVE  pending'[i] \in Req /\ out'[pending'[i]] = "pending"
    BY <1>1, <1>2, <2>1 DEF OneEntry
  <2>2. ASSUME NEW r \in Req, out'[r] = "pending"
        PROVE  \E i \in DOMAIN pending' : pending'[i] = r
    BY <1>1, <1>2, <2>2 DEF OneEntry, Ends
  <2> QED
    BY <1>1, <2>1, <2>2 DEF OneEntry
<1> QED
  BY <1>1, <1>3, <1>4, <1>5

\* A message stays genuine while its id is not given again.
LEMMA StaysGenuine ==
    ASSUME NEW m, m.id \in Nat, Genuine(m), Typed, nextId' \in Nat,
           nextId <= nextId', written \subseteq written',
           \A i \in DOMAIN pending' :
             i < nextId => i \in DOMAIN pending /\ pending'[i] = pending[i]
    PROVE  Genuine(m)'
BY DEF Genuine, Typed

\* The requests when entries of the table are released, and nothing else.
LEMMA ReleasedKeeps ==
    ASSUME Typed, RequestInv, NEW ids, NEW how, ids \subseteq DOMAIN pending,
           how \in Ends, Released(ids, how), closed' \in BOOLEAN,
           closed' => closed \/ ids = DOMAIN pending,
           UNCHANGED <<nextId, written>>
    PROVE  /\ OneEntry' /\ WrittenWasMade' /\ IdsCounted' /\ NothingParked'
           /\ AnswersMatch'
           /\ \A m : m.id \in Nat /\ Genuine(m) => Genuine(m)'
<1>0. /\ OneEntry
      /\ DOMAIN pending' \subseteq DOMAIN pending
  BY ReleasedEntries DEF RequestInv
<1>1. /\ pending' = [i \in DOMAIN pending' |-> pending'[i]]
      /\ DOMAIN pending' = DOMAIN pending \ ids
      /\ \A i \in DOMAIN pending' : pending'[i] = pending[i]
      /\ out' \in [Req -> Outcome]
      /\ \A r \in Req : out'[r] = out[r]
                          \/ (out[r] = "pending" /\ out'[r] = how)
      /\ OneEntry'
  BY <1>0, ReleasedEntries
<1>2. WrittenWasMade'
  BY <1>1 DEF RequestInv, WrittenWasMade, Typed, Ends
<1>3. IdsCounted'
  <2>1. {r \in Req : out'[r] # "new"} = {r \in Req : out[r] # "new"}
    BY <1>1 DEF Ends
  <2> QED
    BY <2>1 DEF RequestInv, IdsCounted
<1>4. NothingParked'
  <2> SUFFICES ASSUME closed' PROVE pending' = <<>>
    BY DEF NothingParked
  <2>1. DOMAIN pending' = {}
    BY <1>1, Emptied DEF RequestInv, NothingParked
  <2> QED
    BY <1>1, <2>1, EmptyTable
<1>5. AnswersMatch'
  BY <1>1 DEF RequestInv, AnswersMatch, Ends
<1>6. ASSUME NEW m, m.id \in Nat, Genuine(m)
      PROVE  Genuine(m)'
  BY <1>1, <1>6 DEF Genuine
<1> QED
  BY <1>1, <1>2, <1>3, <1>4, <1>5, <1>6

-----------------------------------------------------------------------------
(* Steps about the table.                                                  *)

\* The part of the types that a step on the table can disturb.
LEMMA TypedAfter ==
    ASSUME Typed, nextId' \in Nat \ {0}, nextId <= nextId',
           pending' = [i \in DOMAIN pending' |-> pending'[i]],
           DOMAIN pending' \subseteq 1 .. nextId' - 1,
           out' \in [Req -> Outcome], closed' \in BOOLEAN,
           stdin' \in Seq(Message), written' \subseteq Req,
           inbox' \subseteq [id : Nat, of : Req],
           records' \in Seq(AgentRecord), stdout' \in Seq(BOOLEAN),
           buffer' \in [bytes : Nat, discarding : BOOLEAN, reading : Nat],
           mid' \in BOOLEAN, micro' \in Seq(Nat), seen' \in Seq(Nat)
    PROVE  Typed'
BY DEF Typed

\* The messages stay where they are, and genuine.
LEMMA MessagesStay ==
    ASSUME Typed, MessagesMatch, UNCHANGED <<stdin, inbox, records>>,
           \A m : m.id \in Nat /\ Genuine(m) => Genuine(m)'
    PROVE  MessagesMatch'
<1>1. ASSUME NEW k \in DOMAIN stdin, stdin[k].kind = "request"
      PROVE  stdin[k].id \in Nat /\ Genuine(stdin[k])
  <2>1. stdin[k] \in Message
    BY ElementOfSeq, LenProperties DEF Typed
  <2> QED
    BY <1>1, <2>1 DEF MessagesMatch, Message
<1>2. ASSUME NEW n \in DOMAIN records, records[n].kind = "response"
      PROVE  records[n].id \in Nat /\ Genuine(records[n])
  <2>1. records[n] \in AgentRecord
    BY ElementOfSeq, LenProperties DEF Typed
  <2> QED
    BY <1>2, <2>1 DEF MessagesMatch, AgentRecord
<1>3. \A q \in inbox : q.id \in Nat /\ Genuine(q)
  BY DEF MessagesMatch, Typed
<1>4. ASSUME NEW k \in DOMAIN stdin', stdin'[k].kind = "request"
      PROVE  Genuine(stdin[k])'
  BY <1>1, <1>4
<1>5. ASSUME NEW n \in DOMAIN records', records'[n].kind = "response"
      PROVE  Genuine(records[n])'
  BY <1>2, <1>5
<1>6. ASSUME NEW q \in inbox' PROVE Genuine(q)'
  BY <1>3, <1>6
<1> QED
  BY <1>4, <1>5, <1>6 DEF MessagesMatch

\* What the table and the messages are together.
TableInv == Typed /\ RequestInv

readerVars == <<stdout, records, buffer, mid, micro, seen>>

\* The types of what the peer reads.
ReaderTyped ==
    /\ stdout \in Seq(BOOLEAN)
    /\ buffer \in [bytes : Nat, discarding : BOOLEAN, reading : Nat]
    /\ mid \in BOOLEAN /\ micro \in Seq(Nat) /\ seen \in Seq(Nat)

LEMMA ReaderStays ==
    ASSUME Typed, UNCHANGED readerVars
    PROVE  ReaderTyped' /\ records' = records
BY DEF Typed, ReaderTyped, readerVars

LEMMA RefusedStep ==
    ASSUME TableInv, NEW r \in Req, RequestRefused(r)
    PROVE  TableInv'
<1>1. /\ out[r] = "new" /\ out' = [out EXCEPT ![r] = "notSent"]
      /\ UNCHANGED <<nextId, pending, closed, written, stdin, stdout, inbox,
                     records, buffer, mid, micro, dispatched, seen>>
  BY DEF RequestRefused, agentVars, readVars
<1>2. Typed'
  <2>1. out' \in [Req -> Outcome]
    BY <1>1 DEF TableInv, Typed, Outcome
  <2> QED
    BY <1>1, <2>1 DEF TableInv, Typed
<1>3. OneEntry'
  BY <1>1 DEF TableInv, RequestInv, OneEntry, Typed
<1>4. MessagesMatch'
  BY <1>1 DEF TableInv, RequestInv, MessagesMatch, Genuine
<1>5. WrittenWasMade'
  <2>1. r \notin written
    BY <1>1 DEF TableInv, RequestInv, WrittenWasMade
  <2> QED
    BY <1>1, <2>1 DEF TableInv, RequestInv, WrittenWasMade, Typed
<1>6. IdsCounted'
  <2> DEFINE made == {s \in Req : out[s] # "new"}
  <2>1. made \subseteq {s \in Req : out'[s] # "new"}
    BY <1>1 DEF TableInv, Typed
  <2>2. IsFiniteSet({s \in Req : out'[s] # "new"})
    BY FS_Subset, ReqAssumption
  <2>3. /\ Cardinality(made) <= Cardinality({s \in Req : out'[s] # "new"})
        /\ Cardinality(made) \in Nat
        /\ Cardinality({s \in Req : out'[s] # "new"}) \in Nat
    BY <2>1, <2>2, FS_Subset, FS_CardinalityType
  <2> QED
    BY <1>1, <2>3 DEF TableInv, RequestInv, IdsCounted, Typed
<1>7. NothingParked' /\ AnswersMatch'
  BY <1>1 DEF TableInv, RequestInv, NothingParked, AnswersMatch, Typed
<1> QED
  BY <1>2, <1>3, <1>4, <1>5, <1>6, <1>7 DEF TableInv, RequestInv

\* A request that is made is counted.
LEMMA MadeIsCounted ==
    ASSUME TableInv, NEW r \in Req, out[r] = "new", nextId' = nextId + 1,
           \A s \in Req : out[s] # "new" => out'[s] # "new",
           out'[r] # "new"
    PROVE  IdsCounted'
<1> DEFINE before == {s \in Req : out[s] # "new"}
<1> DEFINE after == {s \in Req : out'[s] # "new"}
<1>1. before \cup {r} \subseteq after /\ r \notin before
  OBVIOUS
<1>2. IsFiniteSet(after) /\ IsFiniteSet(before)
  BY FS_Subset, ReqAssumption
<1>3. /\ Cardinality(before \cup {r}) = Cardinality(before) + 1
      /\ IsFiniteSet(before \cup {r})
  BY <1>1, <1>2, FS_AddElement
<1>4. /\ Cardinality(before \cup {r}) <= Cardinality(after)
      /\ Cardinality(before) \in Nat /\ Cardinality(after) \in Nat
  BY <1>1, <1>2, FS_Subset, FS_CardinalityType
<1> HIDE DEF before, after
<1>5. nextId <= Cardinality(before) + 1
  BY DEF TableInv, RequestInv, IdsCounted, before
<1>6. nextId' <= Cardinality(after) + 1
  BY <1>3, <1>4, <1>5 DEF TableInv, Typed
<1> QED
  BY <1>6 DEF IdsCounted, after

LEMMA ReleaseStep ==
    ASSUME TableInv, NEW ids, NEW how, ids \subseteq DOMAIN pending,
           how \in Ends, Released(ids, how), closed' \in BOOLEAN,
           closed' => closed \/ ids = DOMAIN pending,
           UNCHANGED <<nextId, written, inbox, records>>, ReaderTyped',
           stdin' = stdin \/ stdin' = <<>>
    PROVE  TableInv'
<1>1. Typed /\ RequestInv /\ OneEntry
  BY DEF TableInv, RequestInv
<1>2. /\ OneEntry' /\ WrittenWasMade' /\ IdsCounted' /\ NothingParked'
      /\ AnswersMatch'
      /\ \A m : m.id \in Nat /\ Genuine(m) => Genuine(m)'
  BY <1>1, ReleasedKeeps
<1>3. /\ pending' = [i \in DOMAIN pending' |-> pending'[i]]
      /\ DOMAIN pending' = DOMAIN pending \ ids
      /\ out' \in [Req -> Outcome]
  BY <1>1, ReleasedEntries
<1>4. stdin' \in Seq(Message)
  BY <1>1, EmptySeq DEF Typed
<1>5. Typed'
  BY <1>1, <1>3, <1>4 DEF Typed, ReaderTyped
<1>6. MessagesMatch'
  <2>1. CASE stdin' = stdin
    BY <1>1, <1>2, <2>1, MessagesStay DEF RequestInv
  <2>2. CASE stdin' = <<>>
    <3>1. ASSUME NEW n \in DOMAIN records, records[n].kind = "response"
          PROVE  Genuine(records[n])'
      <4>1. records[n] \in AgentRecord
        BY <1>1, ElementOfSeq, LenProperties DEF Typed
      <4>2. records[n].id \in Nat /\ Genuine(records[n])
        BY <1>1, <3>1, <4>1 DEF RequestInv, MessagesMatch, AgentRecord
      <4> QED
        BY <1>2, <4>2 DEF Genuine
    <3>2. ASSUME NEW q \in inbox PROVE Genuine(q)'
      BY <1>1, <1>2 DEF RequestInv, MessagesMatch, Typed
    <3> QED
      BY <2>2, <3>1, <3>2, Emptied DEF MessagesMatch
  <2> QED
    BY <2>1, <2>2
<1> QED
  BY <1>2, <1>5, <1>6 DEF TableInv, RequestInv

LEMMA DeadlineStep ==
    ASSUME TableInv, NEW r \in Req, DeadlinePasses(r)
    PROVE  TableInv'
<1> DEFINE ids == {i \in DOMAIN pending : pending[i] = r}
<1>1. /\ Released(ids, "timeout")
      /\ UNCHANGED <<nextId, closed, written, stdin, inbox>>
      /\ UNCHANGED readerVars
  BY DEF DeadlinePasses, Released, agentVars, readVars, readerVars
<1>2. ids \subseteq DOMAIN pending /\ "timeout" \in Ends
      /\ closed' \in BOOLEAN
  BY <1>1 DEF Ends, TableInv, Typed
<1> HIDE DEF ids
<1>3. ReaderTyped' /\ records' = records
  BY <1>1, ReaderStays DEF TableInv
<1> QED
  BY <1>1, <1>2, <1>3, ReleaseStep

LEMMA CloseStep ==
    ASSUME TableInv, FailTransport \/ Dispose
    PROVE  TableInv'
<1>1. /\ Released(DOMAIN pending, "transport") /\ closed' = TRUE
      /\ UNCHANGED <<nextId, written, inbox>> /\ UNCHANGED readerVars
      /\ stdin' = stdin \/ stdin' = <<>>
  <2>1. DOMAIN pending \ DOMAIN pending = {}
    OBVIOUS
  <2>2. Without(DOMAIN pending) = <<>>
    BY <2>1 DEF Without
  <2> QED
    BY <2>2
       DEF FailTransport, Dispose, CloseAll, Failure, Released, agentVars,
           readVars, readerVars
<1>2. "transport" \in Ends /\ closed' \in BOOLEAN
  BY <1>1 DEF Ends
<1>3. ReaderTyped' /\ records' = records
  BY <1>1, ReaderStays DEF TableInv
<1> QED
  BY <1>1, <1>2, <1>3, ReleaseStep

LEMMA RequestStep ==
    ASSUME TableInv, NEW r \in Req, Request(r)
    PROVE  TableInv'
<1> DEFINE m == [kind |-> "request", id |-> nextId, of |-> r]
<1>1. /\ out[r] = "new" /\ ~closed /\ nextId' = nextId + 1
      /\ out' = [out EXCEPT ![r] = "pending"]
      /\ stdin' = Append(stdin, m)
      /\ written' = written \cup {r}
      /\ UNCHANGED <<closed, inbox>> /\ UNCHANGED readerVars
  BY DEF Request, NewId, agentVars, readVars, readerVars
<1>2. /\ pending' = [i \in DOMAIN pending' |-> pending'[i]]
      /\ DOMAIN pending' = DOMAIN pending \cup {nextId}
      /\ pending'[nextId] = r
      /\ \A i \in DOMAIN pending : pending'[i] = pending[i]
  <2>1. nextId \notin DOMAIN pending
    BY DEF TableInv, Typed
  <2>2. pending' = [i \in DOMAIN pending \cup {nextId} |->
                      IF i = nextId THEN r ELSE pending[i]]
    BY DEF Request, NewId
  <2> QED
    BY <2>1, <2>2
<1>3. nextId \in Nat /\ m \in Message
  BY DEF TableInv, Typed, Message
<1> HIDE DEF m
<1>4. /\ stdin' \in Seq(Message) /\ DOMAIN stdin' = 1 .. Len(stdin) + 1
      /\ DOMAIN stdin = 1 .. Len(stdin) /\ Len(stdin) \in Nat
      /\ \A k \in DOMAIN stdin : stdin'[k] = stdin[k]
      /\ stdin'[Len(stdin) + 1] = m
  BY <1>1, <1>3, AppendProperties, LenProperties DEF TableInv, Typed
<1>5. Typed'
  <2>1. out' \in [Req -> Outcome]
    BY <1>1 DEF TableInv, Typed, Outcome
  <2>2. DOMAIN pending' \subseteq 1 .. nextId' - 1 /\ nextId' \in Nat \ {0}
    BY <1>1, <1>2, <1>3 DEF TableInv, Typed
  <2>3. written' \subseteq Req
    BY <1>1 DEF TableInv, Typed
  <2> QED
    BY <1>1, <1>2, <1>4, <2>1, <2>2, <2>3 DEF TableInv, Typed, readerVars
<1>6. \A i \in DOMAIN pending : pending[i] # r
  BY <1>1 DEF TableInv, RequestInv, OneEntry
<1>7. OneEntry'
  <2>1. ASSUME NEW i \in DOMAIN pending'
        PROVE  pending'[i] \in Req /\ out'[pending'[i]] = "pending"
    BY <1>1, <1>2 DEF TableInv, RequestInv, OneEntry, Typed
  <2>2. ASSUME NEW s \in Req, out'[s] = "pending"
        PROVE  \E i \in DOMAIN pending' : pending'[i] = s
    <3>1. CASE s = r
      BY <1>2, <3>1
    <3>2. CASE s # r
      <4>1. out[s] = "pending"
        BY <1>1, <2>2, <3>2 DEF TableInv, Typed
      <4> QED
        BY <1>2, <4>1 DEF TableInv, RequestInv, OneEntry
    <3> QED
      BY <3>1, <3>2
  <2>3. ASSUME NEW i \in DOMAIN pending', NEW j \in DOMAIN pending',
               pending'[i] = pending'[j]
        PROVE  i = j
    BY <1>2, <1>6, <2>3 DEF TableInv, RequestInv, OneEntry
  <2> QED
    BY <2>1, <2>2, <2>3 DEF OneEntry
<1>8. ASSUME NEW x, x.id \in Nat, Genuine(x) PROVE Genuine(x)'
  BY <1>1, <1>2, <1>3, <1>8 DEF Genuine
<1>9. MessagesMatch'
  <2>1. ASSUME NEW k \in DOMAIN stdin', stdin'[k].kind = "request"
        PROVE  Genuine(stdin[k])'
    <3>1. CASE k \in DOMAIN stdin
      <4>1. stdin[k] \in Message /\ stdin'[k] = stdin[k]
        BY <1>4, <3>1, ElementOfSeq DEF TableInv, Typed
      <4>2. stdin[k].id \in Nat /\ Genuine(stdin[k])
        BY <2>1, <3>1, <4>1
           DEF TableInv, RequestInv, MessagesMatch, Message
      <4> QED
        BY <1>8, <4>1, <4>2 DEF Genuine
    <3>2. CASE k \notin DOMAIN stdin
      <4>1. stdin'[k] = m
        BY <1>4, <3>2
      <4> QED
        BY <1>1, <1>2, <1>3, <4>1 DEF Genuine, m
    <3> QED
      BY <3>1, <3>2
  <2>2. ASSUME NEW n \in DOMAIN records', records'[n].kind = "response"
        PROVE  Genuine(records[n])'
    <3>1. records[n] \in AgentRecord /\ records' = records
      BY <1>1, ElementOfSeq, LenProperties DEF TableInv, Typed, readerVars
    <3>2. records[n].id \in Nat /\ Genuine(records[n])
      BY <2>2, <3>1 DEF TableInv, RequestInv, MessagesMatch, AgentRecord
    <3> QED
      BY <1>8, <3>1, <3>2 DEF Genuine
  <2>3. ASSUME NEW q \in inbox' PROVE Genuine(q)'
    <3>1. q.id \in Nat /\ Genuine(q)
      BY <1>1, <2>3 DEF TableInv, RequestInv, MessagesMatch, Typed
    <3> QED
      BY <1>8, <3>1 DEF Genuine
  <2> QED
    BY <2>1, <2>2, <2>3 DEF MessagesMatch
<1>10. WrittenWasMade'
  BY <1>1 DEF TableInv, RequestInv, WrittenWasMade, Typed
<1>11. IdsCounted'
  <2>1. \A s \in Req : out[s] # "new" => out'[s] # "new"
    BY <1>1 DEF TableInv, Typed
  <2>2. out'[r] # "new"
    BY <1>1 DEF TableInv, Typed
  <2> QED
    BY <1>1, <2>1, <2>2, MadeIsCounted
<1>12. NothingParked' /\ AnswersMatch'
  BY <1>1 DEF TableInv, RequestInv, NothingParked, AnswersMatch, Typed
<1> QED
  BY <1>5, <1>7, <1>9, <1>10, <1>11, <1>12 DEF TableInv, RequestInv

LEMMA ThrowsStep ==
    ASSUME TableInv, NEW r \in Req, RequestThrows(r)
    PROVE  TableInv'
<1>1. /\ out[r] = "new" /\ nextId' = nextId + 1
      /\ pending' = <<>> /\ closed' = TRUE
      /\ UNCHANGED <<written, stdin, inbox>> /\ UNCHANGED readerVars
      /\ \A s \in Req : out'[s] =
           IF s = r \/ out[s] = "pending" THEN "transport" ELSE out[s]
      /\ out' \in [Req -> Outcome]
  <2>1. out' = [Rejected(DOMAIN pending, "transport") EXCEPT ![r] =
                  "transport"]
    BY DEF RequestThrows, Failure
  <2>2. \A s \in Req :
          (\E i \in DOMAIN pending : pending[i] = s) <=> out[s] = "pending"
    BY DEF TableInv, RequestInv, OneEntry
  <2>3. \A s \in Req : out'[s] =
           IF s = r \/ out[s] = "pending" THEN "transport" ELSE out[s]
    BY <2>1, <2>2 DEF Rejected
  <2>4. out' \in [Req -> Outcome]
    BY <2>1, <2>3 DEF Rejected, TableInv, Typed, Outcome
  <2> QED
    BY <2>3, <2>4 DEF RequestThrows, agentVars, readVars, readerVars
<1>2. Typed'
  <2>1. nextId' \in Nat \ {0}
    BY <1>1 DEF TableInv, Typed
  <2>2. DOMAIN pending' = {} /\ pending' = [i \in DOMAIN pending' |-> pending'[i]]
    BY <1>1, Emptied
  <2> QED
    BY <1>1, <2>1, <2>2 DEF TableInv, Typed, readerVars
<1>3. OneEntry'
  BY <1>1, Emptied DEF OneEntry
<1>4. \A m : m.id \in Nat /\ Genuine(m) => Genuine(m)'
  BY <1>1, Emptied DEF Genuine, TableInv, Typed
<1>5. MessagesMatch'
  BY <1>1, <1>4, MessagesStay DEF TableInv, RequestInv, readerVars
<1>6. WrittenWasMade'
  BY <1>1 DEF TableInv, RequestInv, WrittenWasMade, Typed
<1>7. IdsCounted'
  BY <1>1, MadeIsCounted
<1>8. NothingParked' /\ AnswersMatch'
  BY <1>1 DEF TableInv, RequestInv, NothingParked, AnswersMatch
<1> QED
  BY <1>2, <1>3, <1>5, <1>6, <1>7, <1>8 DEF TableInv, RequestInv

-----------------------------------------------------------------------------
(* Steps of the agent and of the handlers.                                 *)

\* The requests when only messages move.
LEMMA MessagesMove ==
    ASSUME TableInv, UNCHANGED requestVars, stdin' \in Seq(Message),
           inbox' \subseteq [id : Nat, of : Req],
           records' \in Seq(AgentRecord), ReaderTyped',
           MessagesMatch'
    PROVE  TableInv'
<1>1. UNCHANGED <<nextId, pending, out, closed, written>>
  BY DEF requestVars
<1>2. Typed'
  BY <1>1 DEF TableInv, Typed, ReaderTyped
<1>3. OneEntry' /\ WrittenWasMade' /\ IdsCounted' /\ NothingParked'
      /\ AnswersMatch'
  BY <1>1 DEF TableInv, RequestInv, OneEntry, WrittenWasMade, IdsCounted,
              NothingParked, AnswersMatch
<1> QED
  BY <1>2, <1>3 DEF TableInv, RequestInv

LEMMA AgentReadsStep ==
    ASSUME TableInv, AgentReads
    PROVE  TableInv'
<1>1. /\ stdin # <<>> /\ stdin' = Tail(stdin)
      /\ UNCHANGED requestVars /\ UNCHANGED readerVars
  BY DEF AgentReads, readVars, readerVars
<1>2. UNCHANGED <<nextId, pending, written>>
  BY <1>1 DEF requestVars
<1>3. Typed /\ stdin \in Seq(Message)
  BY DEF TableInv, Typed
<1>4. /\ Head(stdin) \in Message /\ stdin' \in Seq(Message)
      /\ Head(stdin) = stdin[1] /\ 1 \in DOMAIN stdin
      /\ \A k \in DOMAIN stdin' :
           k + 1 \in DOMAIN stdin /\ stdin'[k] = stdin[k + 1]
  BY <1>1, <1>3, HeadTailProperties, LenProperties, EmptySeq
<1>5. ASSUME NEW q \in inbox', q \notin inbox
      PROVE  q \in [id : Nat, of : Req] /\ Genuine(q)
  <2>1. /\ Head(stdin).kind = "request"
        /\ q = [id |-> Head(stdin).id, of |-> Head(stdin).of]
    BY <1>5 DEF AgentReads
  <2>2. Genuine(Head(stdin))
    BY <1>4, <2>1 DEF TableInv, RequestInv, MessagesMatch
  <2>3. Head(stdin).id \in Nat /\ Head(stdin).of \in Req
    BY <1>4, <2>1 DEF Message
  <2> QED
    BY <2>1, <2>2, <2>3 DEF Genuine
<1>6. inbox' \subseteq [id : Nat, of : Req]
  BY <1>5 DEF TableInv, Typed
<1>7. MessagesMatch'
  <2>1. ASSUME NEW k \in DOMAIN stdin', stdin'[k].kind = "request"
        PROVE  Genuine(stdin[k])'
    BY <1>2, <1>4, <2>1 DEF TableInv, RequestInv, MessagesMatch, Genuine
  <2>2. ASSUME NEW q \in inbox' PROVE Genuine(q)'
    BY <1>2, <1>5 DEF TableInv, RequestInv, MessagesMatch, Genuine
  <2>3. ASSUME NEW n \in DOMAIN records', records'[n].kind = "response"
        PROVE  Genuine(records[n])'
    BY <1>1, <1>2, <2>3
       DEF TableInv, RequestInv, MessagesMatch, Genuine, readerVars
  <2> QED
    BY <2>1, <2>2, <2>3 DEF MessagesMatch
<1> QED
  BY <1>1, <1>3, <1>4, <1>6, <1>7, ReaderStays, MessagesMove DEF Typed

-----------------------------------------------------------------------------
(* How the agent's output is cut into records.                             *)

\* Where the records end in what is still to be read: e[n] pieces from here
\* comes the end of record n, and the record being read began before.
Cut(e) ==
    /\ buffer.reading \in 1 .. Len(records) + 1
    /\ e[buffer.reading - 1] <= 0
    /\ \A n \in buffer.reading .. Len(records) :
         e[n] = e[n - 1] + records[n].size /\ e[n] >= 1
    /\ \A m, n \in buffer.reading .. Len(records) : m < n => e[m] < e[n]
    /\ e[Len(records)] = Len(stdout)
    /\ \A k \in 1 .. Len(stdout) :
         stdout[k] <=> \E n \in buffer.reading .. Len(records) : e[n] = k

\* What the buffer keeps of a record that began so many pieces ago.
Keeps(began) ==
    IF buffer.discarding THEN buffer.bytes = 0 /\ began > MaxLine
                         ELSE buffer.bytes = began /\ began <= MaxLine

CutAt(e) == Cut(e) /\ Keeps(0 - e[buffer.reading - 1])

Framed ==
    \E e \in [buffer.reading - 1 .. Len(records) -> Int] : CutAt(e)

LEMMA SizeOfRecord ==
    ASSUME Typed, NEW n \in DOMAIN records
    PROVE  records[n] \in AgentRecord /\ records[n].size \in Nat \ {0}
BY SizeAssumption, ElementOfSeq, LenProperties DEF Typed, AgentRecord

\* The next piece, if there is one, is of the record being read.
LEMMA NextPiece ==
    ASSUME Typed, NEW e \in [buffer.reading - 1 .. Len(records) -> Int],
           Cut(e), stdout # <<>>
    PROVE  /\ buffer.reading \in 1 .. Len(records)
           /\ Head(stdout) \in BOOLEAN
           /\ Head(stdout) => e[buffer.reading] = 1
           /\ ~Head(stdout) => e[buffer.reading] > 1
<1> DEFINE b == buffer.reading
<1> DEFINE l == Len(records)
<1>1. b \in Nat /\ l \in Nat /\ Len(stdout) \in Nat /\ Len(stdout) > 0
  BY LenProperties, EmptySeq DEF Typed
<1>2. b \in 1 .. l + 1 /\ e[l] = Len(stdout)
  BY DEF Cut
<1>3. b # l + 1
  <2> SUFFICES ASSUME b = l + 1 PROVE FALSE
    OBVIOUS
  <2>1. e[l] <= 0
    BY <1>1 DEF Cut
  <2> QED
    BY <1>1, <1>2, <2>1
<1>4. b \in 1 .. l
  BY <1>1, <1>2, <1>3
<1>5. e[b] \in Int /\ e[b] >= 1
  BY <1>1, <1>4 DEF Cut
<1>6. Head(stdout) = stdout[1] /\ 1 \in 1 .. Len(stdout)
      /\ stdout[1] \in BOOLEAN
  BY <1>1, HeadTailProperties, ElementOfSeq DEF Typed
<1>7. stdout[1] <=> \E n \in b .. l : e[n] = 1
  BY <1>6 DEF Cut
<1>8. ASSUME NEW n \in b .. l, e[n] = 1 PROVE e[b] = 1
  <2>1. CASE n = b
    BY <1>8, <2>1
  <2>2. CASE n # b
    <3>0. b \in b .. l /\ b < n
      BY <1>1, <1>4, <2>2
    <3>1. e[b] < e[n]
      BY <3>0 DEF Cut
    <3> QED
      BY <1>5, <1>8, <3>1
  <2> QED
    BY <2>1, <2>2
<1> HIDE DEF b, l
<1>9. stdout[1] <=> e[b] = 1
  BY <1>1, <1>4, <1>7, <1>8
<1>10. e[b] # 1 => e[b] > 1
  BY <1>5
<1>11. Head(stdout) <=> e[b] = 1
  BY <1>6, <1>9
<1>12. ~Head(stdout) => e[b] > 1
  BY <1>10, <1>11
<1>13. Head(stdout) \in BOOLEAN
  BY <1>6
<1> QED
  BY <1>4, <1>11, <1>12, <1>13 DEF b, l

LEMMA PiecesOf ==
    ASSUME NEW size \in Nat \ {0}
    PROVE  /\ Pieces(size) \in Seq(BOOLEAN) /\ Len(Pieces(size)) = size
           /\ \A k \in 1 .. size : Pieces(size)[k] <=> k = size
<1>1. Pieces(size) \in [1 .. size -> BOOLEAN]
  BY DEF Pieces
<1>2. Pieces(size) \in Seq(BOOLEAN)
  BY <1>1, SeqDef
<1>3. Len(Pieces(size)) = size
  <2>1. DOMAIN Pieces(size) = 1 .. size
    BY DEF Pieces
  <2>2. DOMAIN Pieces(size) = 1 .. Len(Pieces(size))
        /\ Len(Pieces(size)) \in Nat
    BY <1>2, LenProperties
  <2> QED
    BY <2>1, <2>2
<1>4. \A k \in 1 .. size : Pieces(size)[k] <=> k = size
  BY Zenon DEF Pieces
<1> QED
  BY <1>2, <1>3, <1>4

\* What the agent writes, at the end of the pipe.
LEMMA WritesKeepCut ==
    ASSUME Typed, Framed, NEW rec \in AgentRecord,
           records' = Append(records, rec),
           stdout' = stdout \o Pieces(rec.size), UNCHANGED buffer
    PROVE  /\ records' \in Seq(AgentRecord) /\ stdout' \in Seq(BOOLEAN)
           /\ Len(records') = Len(records) + 1
           /\ \A n \in 1 .. Len(records) : records'[n] = records[n]
           /\ records'[Len(records) + 1] = rec
           /\ Framed'
<1> DEFINE b == buffer.reading
<1> DEFINE l == Len(records)
<1> DEFINE w == Len(stdout)
<1> DEFINE z == rec.size
<1>1. PICK e \in [b - 1 .. l -> Int] : CutAt(e)
  BY DEF Framed
<1>2. z \in Nat \ {0}
  BY SizeAssumption DEF AgentRecord
<1>3. /\ b \in Nat /\ l \in Nat /\ w \in Nat /\ b \in 1 .. l + 1
      /\ stdout \in Seq(BOOLEAN) /\ records \in Seq(AgentRecord)
  BY <1>1, LenProperties DEF Typed, Cut, CutAt
<1>4. /\ records' \in Seq(AgentRecord) /\ Len(records') = l + 1
      /\ \A n \in 1 .. l : records'[n] = records[n]
      /\ records'[l + 1] = rec
  BY <1>3, AppendProperties
<1>5. /\ Pieces(z) \in Seq(BOOLEAN) /\ Len(Pieces(z)) = z
      /\ \A k \in 1 .. z : Pieces(z)[k] <=> k = z
  BY <1>2, PiecesOf
<1>6. /\ stdout' \in Seq(BOOLEAN) /\ Len(stdout') = w + z
      /\ \A k \in 1 .. w + z :
           stdout'[k] = IF k <= w THEN stdout[k] ELSE Pieces(z)[k - w]
  BY <1>3, <1>5, ConcatProperties
<1>0. PICK f : f = [n \in b - 1 .. l + 1 |-> IF n <= l THEN e[n] ELSE w + z]
  OBVIOUS
<1>7. f \in [b - 1 .. l + 1 -> Int]
  BY <1>0, <1>2, <1>3
<1>8. /\ f[l + 1] = w + z
      /\ \A n \in b - 1 .. l : f[n] = e[n]
  BY <1>0, <1>3
<1>9. /\ e[l] = w /\ e[b - 1] <= 0
      /\ \A n \in b .. l : e[n] = e[n - 1] + records[n].size /\ e[n] >= 1
      /\ \A m, n \in b .. l : m < n => e[m] < e[n]
      /\ \A k \in 1 .. w : stdout[k] <=> \E n \in b .. l : e[n] = k
      /\ Keeps(0 - e[b - 1])
  BY <1>1 DEF CutAt, Cut
<1>10. b' = b
  OBVIOUS
<1> HIDE DEF b, l, w, z
<1>11. \A n \in b .. l + 1 : f[n] = f[n - 1] + records'[n].size /\ f[n] >= 1
  <2> TAKE n \in b .. l + 1
  <2>1. CASE n = l + 1
    <3>1. f[n] = w + z /\ f[n - 1] = w
      BY <1>3, <1>8, <1>9, <2>1
    <3>2. records'[n].size = z
      BY <1>4, <2>1 DEF z
    <3> QED
      BY <1>2, <1>3, <3>1, <3>2
  <2>2. CASE n # l + 1
    <3>1. n \in b .. l /\ n \in b - 1 .. l /\ n - 1 \in b - 1 .. l
          /\ n \in 1 .. l
      BY <1>3, <2>2
    <3>2. f[n] = e[n] /\ f[n - 1] = e[n - 1] /\ records'[n] = records[n]
      BY <1>4, <1>8, <3>1
    <3> QED
      BY <1>9, <3>1, <3>2
  <2> QED
    BY <2>1, <2>2
<1>12. ASSUME NEW n \in b .. l PROVE f[n] <= w /\ f[n] = e[n] /\ e[n] \in Int
  <2>0. n \in b - 1 .. l
    BY <1>3
  <2>1. f[n] = e[n] /\ e[n] \in Int
    BY <1>1, <1>8, <2>0
  <2>2. n = l \/ e[n] < e[l]
    <3>1. l \in b .. l /\ (n = l \/ n < l)
      BY <1>3
    <3> QED
      BY <1>9, <3>1
  <2> QED
    BY <1>3, <1>9, <2>1, <2>2
<1>13. \A m, n \in b .. l + 1 : m < n => f[m] < f[n]
  <2> SUFFICES ASSUME NEW m \in b .. l + 1, NEW n \in b .. l + 1, m < n
               PROVE  f[m] < f[n]
    OBVIOUS
  <2>1. m \in b .. l
    BY <1>3
  <2>2. CASE n = l + 1
    BY <1>2, <1>3, <1>8, <1>12, <2>1, <2>2
  <2>3. CASE n # l + 1
    <3>1. n \in b .. l
      BY <1>3, <2>3
    <3> QED
      BY <1>9, <1>12, <2>1, <3>1
  <2> QED
    BY <2>2, <2>3
<1>14. \A k \in 1 .. w + z :
         stdout'[k] <=> \E n \in b .. l + 1 : f[n] = k
  <2> TAKE k \in 1 .. w + z
  <2>1. CASE k <= w
    <3>1. stdout'[k] = stdout[k] /\ k \in 1 .. w
      BY <1>3, <1>6, <2>1
    <3>2. ASSUME NEW n \in b .. l + 1, f[n] = k
          PROVE  n \in b .. l /\ e[n] = k
      <4>1. n # l + 1
        BY <1>2, <1>3, <1>8, <2>1, <3>2
      <4> QED
        BY <1>3, <1>12, <3>2, <4>1
    <3>3. ASSUME NEW n \in b .. l, e[n] = k
          PROVE  n \in b .. l + 1 /\ f[n] = k
      BY <1>3, <1>12, <3>3
    <3> QED
      BY <1>9, <3>1, <3>2, <3>3
  <2>2. CASE k > w
    <3>1. k - w \in 1 .. z
      BY <1>2, <1>3, <2>2
    <3>2. stdout'[k] <=> k = w + z
      <4>0. ~(k <= w)
        BY <1>3, <2>2
      <4>1. stdout'[k] = Pieces(z)[k - w]
        BY Zenon, <1>6, <4>0
      <4>2. k - w = z <=> k = w + z
        BY <1>2, <1>3
      <4>3. Pieces(z)[k - w] <=> k - w = z
        BY <1>5, <3>1
      <4> QED
        BY <4>1, <4>2, <4>3
    <3>3. ASSUME NEW n \in b .. l + 1, f[n] = k PROVE k = w + z
      BY <1>3, <1>8, <1>12, <2>2, <3>3
    <3>4. l + 1 \in b .. l + 1
      BY <1>3
    <3> QED
      BY <1>8, <3>2, <3>3, <3>4
  <2>3. k <= w \/ k > w
    BY <1>3
  <2> QED
    BY <2>1, <2>2, <2>3
<1>15. /\ f[b - 1] = e[b - 1] /\ b \in 1 .. l + 1 + 1
  BY <1>3, <1>8
<1>16. Keeps(0 - f[b - 1])'
  BY <1>9, <1>15 DEF Keeps, b
<1>17. CutAt(f)'
  BY <1>4, <1>6, <1>8, <1>9, <1>11, <1>13, <1>14, <1>15, <1>16
     DEF CutAt, Cut, b, l, w
<1>18. f \in [b' - 1 .. Len(records') -> Int]
  BY <1>4, <1>7, <1>10 DEF b
<1> QED
  BY <1>4, <1>6, <1>17, <1>18 DEF Framed, b, l

\* What the peer reads of it.
LEMMA ReadsKeepCut ==
    ASSUME Typed, Framed, Read
    PROVE  /\ buffer.reading \in 1 .. Len(records)
           /\ Head(stdout) =>
                (Discards <=> records[buffer.reading].size > MaxLine)
           /\ stdout' \in Seq(BOOLEAN)
           /\ buffer' \in [bytes : Nat, discarding : BOOLEAN, reading : Nat]
           /\ buffer'.reading = IF Head(stdout) THEN buffer.reading + 1
                                                ELSE buffer.reading
           /\ Framed'
<1> DEFINE b == buffer.reading
<1> DEFINE l == Len(records)
<1> DEFINE w == Len(stdout)
<1>1. PICK e \in [b - 1 .. l -> Int] : CutAt(e)
  BY DEF Framed
<1>2. /\ stdout # <<>> /\ stdout' = Tail(stdout) /\ records' = records
      /\ buffer' = IF Head(stdout)
                   THEN [bytes |-> 0, discarding |-> FALSE, reading |-> b + 1]
                   ELSE [bytes |-> IF Discards THEN 0 ELSE buffer.bytes + 1,
                         discarding |-> Discards, reading |-> b]
  BY DEF Read, agentVars
<1>3. /\ b \in Nat /\ l \in Nat /\ w \in Nat
      /\ buffer.bytes \in Nat /\ MaxLine \in Nat /\ MaxLine > 0
  BY LenProperties, SizeAssumption DEF Typed
<1>30. buffer.discarding \in BOOLEAN /\ Discards \in BOOLEAN
  BY DEF Typed, Discards, Overflows
<1>4. b \in 1 .. l
  BY <1>1, <1>2, NextPiece DEF CutAt
<1>40. /\ Head(stdout) \in BOOLEAN
       /\ Head(stdout) => e[b] = 1
       /\ ~Head(stdout) => e[b] > 1
  BY <1>1, <1>2, NextPiece DEF CutAt
<1>5. /\ stdout' \in Seq(BOOLEAN) /\ Len(stdout') = w - 1
      /\ \A k \in 1 .. w - 1 : stdout'[k] = stdout[k + 1]
  BY <1>2, HeadTailProperties DEF Typed
<1>6. /\ e[l] = w /\ e[b - 1] <= 0
      /\ \A n \in b .. l : e[n] = e[n - 1] + records[n].size /\ e[n] >= 1
      /\ \A m, n \in b .. l : m < n => e[m] < e[n]
      /\ \A k \in 1 .. w : stdout[k] <=> \E n \in b .. l : e[n] = k
      /\ Keeps(0 - e[b - 1])
  BY <1>1 DEF CutAt, Cut
<1>7. /\ records[b].size \in Nat /\ e[b] = e[b - 1] + records[b].size
      /\ e[b - 1] \in Int /\ e[b] \in Int
  <2>0. b \in DOMAIN records
    BY <1>4, LenProperties DEF Typed
  <2>1. b \in b .. l /\ b - 1 \in b - 1 .. l /\ b \in b - 1 .. l
    <3> HIDE DEF b, l
    <3> QED
      BY <1>3, <1>4
  <2> QED
    BY <1>1, <1>6, <2>0, <2>1, SizeOfRecord
<1>8. IF buffer.discarding THEN buffer.bytes = 0 /\ 0 - e[b - 1] > MaxLine
      ELSE buffer.bytes = 0 - e[b - 1] /\ 0 - e[b - 1] <= MaxLine
  BY <1>6 DEF Keeps
<1>9. Discards <=> 0 - e[b - 1] + 1 > MaxLine
  <2>1. CASE buffer.discarding
    BY <1>3, <1>7, <1>8, <2>1 DEF Discards
  <2>2. CASE ~buffer.discarding
    BY <1>3, <1>7, <1>8, <2>2 DEF Discards, Overflows
  <2> QED
    BY <2>1, <2>2
<1>10. Head(stdout) => (Discards <=> records[b].size > MaxLine)
  <2>1. e[b] = 1 =>
          (0 - e[b - 1] + 1 > MaxLine <=> records[b].size > MaxLine)
    <3> DEFINE x == e[b - 1]
               y == e[b]
               z == records[b].size
    <3>1. x \in Int /\ z \in Nat /\ MaxLine \in Nat /\ y = x + z
      BY <1>3, <1>7
    <3> HIDE DEF x, y, z
    <3>2. y = 1 => (0 - x + 1 > MaxLine <=> z > MaxLine)
      BY <3>1
    <3> QED
      BY <3>2 DEF x, y, z
  <2> QED
    BY <1>9, <1>40, <2>1
<1>11. buffer' \in [bytes : Nat, discarding : BOOLEAN, reading : Nat]
  <2> HIDE DEF b
  <2>1. CASE Head(stdout)
    <3>1. buffer' = [bytes |-> 0, discarding |-> FALSE, reading |-> b + 1]
      BY <1>2, <2>1
    <3> QED
      BY <1>3, <3>1
  <2>2. CASE ~Head(stdout)
    <3>1. buffer' = [bytes |-> IF Discards THEN 0 ELSE buffer.bytes + 1,
                     discarding |-> Discards, reading |-> b]
      BY <1>2, <2>2
    <3>2. (IF Discards THEN 0 ELSE buffer.bytes + 1) \in Nat
      BY <1>3, <1>30
    <3> QED
      BY <1>3, <1>30, <3>1, <3>2
  <2> QED
    BY <2>1, <2>2
<1>12. b' = IF Head(stdout) THEN b + 1 ELSE b
  BY <1>2
<1> PICK c : c = buffer'.reading
  OBVIOUS
<1>22. (c = b + 1 /\ e[b] = 1) \/ (c = b /\ e[b] > 1)
  BY <1>40, <1>12
<1>23. /\ Head(stdout) => c = b + 1
       /\ ~Head(stdout) => c = b
  BY <1>12
<1>24. buffer'.reading = c
  OBVIOUS
<1> HIDE DEF b, l, w
<1>0. PICK f : f = [n \in c - 1 .. l |-> e[n] - 1]
  OBVIOUS
<1>13. /\ c \in 1 .. l + 1 /\ b <= c
       /\ \A n \in c - 1 .. l : n \in b - 1 .. l
       /\ \A n \in c .. l : n \in b .. l /\ n - 1 \in c - 1 .. l
  BY <1>3, <1>4, <1>22
<1>14. /\ f \in [c - 1 .. l -> Int]
       /\ \A n \in c - 1 .. l : f[n] = e[n] - 1
  BY <1>0, <1>1, <1>13
<1>15. ASSUME NEW n \in c .. l
       PROVE  f[n] = f[n - 1] + records'[n].size /\ f[n] >= 1
  <2>1. /\ n \in b .. l /\ n \in c - 1 .. l /\ n - 1 \in c - 1 .. l
        /\ e[n] \in Int /\ e[n - 1] \in Int
    BY <1>1, <1>3, <1>13
  <2>2. n \in DOMAIN records
    <3>1. DOMAIN records = 1 .. l
      BY LenProperties DEF Typed, l
    <3> QED
      BY <1>3, <1>4, <2>1, <3>1
  <2>3. e[n] = e[n - 1] + records[n].size /\ records[n].size \in Nat
    BY <1>6, <2>1, <2>2, SizeOfRecord
  <2>4. e[n] > 1
    <3>1. CASE n = b
      BY <1>3, <1>13, <1>22, <3>1
    <3>2. CASE n # b
      <4>1. b \in b .. l /\ b < n
        BY <1>3, <1>4, <2>1, <3>2
      <4>2. e[b] < e[n] /\ e[b] >= 1
        BY <1>6, <2>1, <4>1
      <4> QED
        BY <1>7, <2>1, <4>2
    <3> QED
      BY <3>1, <3>2
  <2>5. records' = records
    BY <1>2
  <2>6. f[n] = e[n] - 1 /\ f[n - 1] = e[n - 1] - 1
    BY <1>14, <2>1
  <2> QED
    BY <2>1, <2>3, <2>4, <2>5, <2>6
<1>16. ASSUME NEW m \in c .. l, NEW n \in c .. l, m < n
       PROVE  f[m] < f[n]
  <2>6. m \in b .. l /\ n \in b .. l
    BY <1>13
  <2>7. \A i \in c .. l : i \in c - 1 .. l
    BY <1>3, <1>13
  <2>1. m \in b .. l /\ n \in b .. l /\ m \in c - 1 .. l /\ n \in c - 1 .. l
    BY <2>6, <2>7
  <2>2. e[m] < e[n] /\ e[m] \in Int /\ e[n] \in Int
    BY <1>1, <1>6, <1>13, <1>16, <2>1
  <2>3. f[m] = e[m] - 1 /\ f[n] = e[n] - 1
    BY <1>14, <2>1
  <2> DEFINE x == e[m]
             y == e[n]
  <2>4. x \in Int /\ y \in Int /\ x < y
    BY <2>2
  <2> HIDE DEF x, y
  <2>5. x - 1 < y - 1
    BY <2>4
  <2> QED
    BY <2>3, <2>5 DEF x, y
<1>17. ASSUME NEW k \in 1 .. w - 1
       PROVE  stdout'[k] <=> \E n \in c .. l : f[n] = k
  <2>1. k + 1 \in 1 .. w
    BY <1>3
  <2>2. stdout'[k] <=> \E n \in b .. l : e[n] = k + 1
    BY <1>5, <1>6, <2>1
  <2>3. ASSUME NEW n \in b .. l, e[n] = k + 1
        PROVE  n \in c .. l /\ f[n] = k
    <3>1. c = b \/ (c = b + 1 /\ e[b] = 1)
      BY <1>22
    <3>2. n \in c .. l
      BY <1>3, <2>3, <3>1
    <3>3. n \in c - 1 .. l
      BY <1>3, <1>13, <3>2
    <3> QED
      BY <1>14, <2>3, <3>2, <3>3
  <2>4. ASSUME NEW n \in c .. l, f[n] = k
        PROVE  n \in b .. l /\ e[n] = k + 1
    <3>1. n \in c - 1 .. l /\ n \in b .. l /\ n \in b - 1 .. l
      BY <1>3, <1>13
    <3>2. e[n] \in Int /\ f[n] = e[n] - 1
      BY <1>1, <1>14, <3>1
    <3> QED
      BY <2>4, <3>1, <3>2
  <2> QED
    BY <2>2, <2>3, <2>4
<1>18. /\ f[l] = w - 1 /\ f[c - 1] = e[c - 1] - 1
       /\ e[c - 1] \in Int
  <2>1. l \in c - 1 .. l /\ c - 1 \in c - 1 .. l /\ c - 1 \in b - 1 .. l
    BY <1>3, <1>13
  <2> QED
    BY <1>1, <1>6, <1>14, <2>1
<1>19. f[c - 1] <= 0 /\ Keeps(0 - f[b - 1])'
  <2>1. CASE Head(stdout)
    <3>1. f[c - 1] = 0
      <4>1. c = b + 1 /\ e[b] = 1 /\ c - 1 = b
        <5>1. c = b + 1
          BY <1>23, <2>1
        <5> QED
          BY <1>3, <1>22, <5>1
      <4> QED
        BY <1>18, <4>1
    <3>2. buffer'.bytes = 0 /\ buffer'.discarding = FALSE
      BY <1>2, <2>1
    <3>4. 0 - f[c - 1] = 0
      BY <3>1
    <3>5. 0 <= MaxLine
      BY <1>3
    <3> QED
      BY <1>24, <3>1, <3>2, <3>4, <3>5 DEF Keeps, b
  <2>2. CASE ~Head(stdout)
    <3>1. f[c - 1] = e[b - 1] - 1 /\ f[c - 1] \in Int
      <4>1. c = b
        BY <1>23, <2>2
      <4> QED
        BY <1>18, <4>1
    <3>2. /\ buffer'.bytes = IF Discards THEN 0 ELSE buffer.bytes + 1
          /\ buffer'.discarding = Discards
      BY <1>2, <2>2
    <3>3. 0 - f[c - 1] = 0 - e[b - 1] + 1 /\ f[c - 1] <= 0
      BY <1>6, <1>7, <3>1
    <3>4. CASE Discards
      BY <1>9, <1>24, <3>2, <3>3, <3>4 DEF Keeps, b
    <3>5. CASE ~Discards
      <4>1. buffer.bytes = 0 - e[b - 1]
        BY <1>8, <3>5 DEF Discards
      <4>2. 0 - e[b - 1] + 1 <= MaxLine
        BY <1>3, <1>7, <1>9, <3>5
      <4> QED
        BY <1>24, <3>2, <3>3, <3>5, <4>1, <4>2 DEF Keeps, b
    <3> QED
      BY <3>4, <3>5
  <2> QED
    BY <2>1, <2>2
<1>20. CutAt(f)'
  <2>1. records' = records
    BY <1>2
  <2>2. /\ c \in 1 .. Len(records') + 1 /\ f[c - 1] <= 0
        /\ \A n \in c .. Len(records') :
             f[n] = f[n - 1] + records'[n].size /\ f[n] >= 1
        /\ \A m, n \in c .. Len(records') : m < n => f[m] < f[n]
        /\ f[Len(records')] = Len(stdout')
        /\ \A k \in 1 .. Len(stdout') :
             stdout'[k] <=> \E n \in c .. Len(records') : f[n] = k
    BY <1>5, <1>13, <1>15, <1>16, <1>17, <1>18, <1>19, <2>1 DEF l
  <2> QED
    BY <1>19, <1>24, <2>2 DEF CutAt, Cut, b
<1>21. Framed'
  <2>1. records' = records
    BY <1>2
  <2> QED
    BY <1>14, <1>20, <1>24, <2>1 DEF Framed, l
<1> QED
  BY <1>4, <1>5, <1>10, <1>11, <1>12, <1>21 DEF b, l

-----------------------------------------------------------------------------
(* The order in which records take effect.                                 *)

\* What took effect, then what is due, in the order of the wire.
Ordered ==
    /\ \A i, j \in DOMAIN seen : i < j => seen[i] < seen[j]
    /\ \A i, j \in DOMAIN micro : i < j => micro[i] < micro[j]
    /\ \A i \in DOMAIN seen, j \in DOMAIN micro : seen[i] < micro[j]
    /\ \A i \in DOMAIN seen : seen[i] \in 1 .. buffer.reading - 1
    /\ \A i \in DOMAIN micro : micro[i] \in 1 .. buffer.reading - 1

\* Inductive: the requests, the framing and the order.
IInv ==
    /\ TableInv /\ Framed /\ FitsIffDispatched /\ Ordered
    /\ calls \subseteq DOMAIN records

LEMMA ReadingBound ==
    ASSUME Typed, Framed
    PROVE  /\ buffer.reading \in 1 .. Len(records) + 1
           /\ buffer.bytes \in 0 .. MaxLine
           /\ DOMAIN records = 1 .. Len(records) /\ Len(records) \in Nat
           /\ buffer.reading \in Nat
<1>1. PICK e \in [buffer.reading - 1 .. Len(records) -> Int] : CutAt(e)
  BY DEF Framed
<1>2. buffer.reading \in 1 .. Len(records) + 1
  BY <1>1 DEF CutAt, Cut
<1>3. /\ DOMAIN records = 1 .. Len(records) /\ Len(records) \in Nat
      /\ buffer.reading \in Nat /\ buffer.bytes \in Nat
  BY LenProperties DEF Typed
<1>4. buffer.bytes \in 0 .. MaxLine
  BY <1>1, <1>3, SizeAssumption DEF CutAt, Keeps
<1> QED
  BY <1>2, <1>3, <1>4

\* Nothing is due, or what is due waits for the record just read.
LEMMA DispatchOrdered ==
    ASSUME Typed, Framed, Ordered, NEW n, n = buffer.reading,
           n \in 1 .. Len(records), buffer'.reading = n + 1,
           seen' = seen, micro' = micro \/ micro' = Append(micro, n)
    PROVE  Ordered' /\ micro' \in Seq(Nat)
<1>1. /\ micro \in Seq(Nat) /\ n \in Nat /\ DOMAIN micro = 1 .. Len(micro)
      /\ Len(micro) \in Nat /\ \A i \in DOMAIN seen : seen[i] \in Nat
      /\ \A i \in DOMAIN micro : micro[i] \in Nat
  BY ReadingBound, LenProperties, ElementOfSeq DEF Typed
<1>2. /\ \A i \in DOMAIN seen : seen[i] \in 1 .. n - 1
      /\ \A i \in DOMAIN micro : micro[i] \in 1 .. n - 1
      /\ \A i, j \in DOMAIN seen : i < j => seen[i] < seen[j]
      /\ \A i, j \in DOMAIN micro : i < j => micro[i] < micro[j]
      /\ \A i \in DOMAIN seen, j \in DOMAIN micro : seen[i] < micro[j]
  BY DEF Ordered
<1>3. CASE micro' = micro
  BY <1>1, <1>2, <1>3 DEF Ordered
<1>4. CASE micro' = Append(micro, n)
  <2> DEFINE k == Len(micro)
  <2>1. /\ micro' \in Seq(Nat) /\ Len(micro') = k + 1
        /\ \A i \in 1 .. k : micro'[i] = micro[i]
        /\ micro'[k + 1] = n
    BY <1>1, <1>4, AppendProperties
  <2>2. /\ k \in Nat /\ n \in Nat /\ DOMAIN micro = 1 .. k
        /\ DOMAIN micro' = 1 .. k + 1
    BY <1>1, <2>1, LenProperties
  <2> HIDE DEF k
  <2>8. /\ \A x \in 1 .. n - 1 : x \in 1 .. n /\ x < n
        /\ n \in 1 .. n
    BY <2>2
  <2>9. ASSUME NEW i \in DOMAIN micro'
        PROVE  \/ i = k + 1 /\ micro'[i] = n
               \/ i \in DOMAIN micro /\ micro'[i] = micro[i]
    <3>1. i = k + 1 \/ i \in 1 .. k
      BY <2>2
    <3> QED
      BY <2>1, <2>2, <3>1
  <2>3. ASSUME NEW i \in DOMAIN micro'
        PROVE  micro'[i] \in 1 .. n
    BY <1>2, <2>8, <2>9
  <2>4. ASSUME NEW i \in DOMAIN micro', NEW j \in DOMAIN micro', i < j
        PROVE  micro'[i] < micro'[j]
    <3>1. i \in 1 .. k
      BY <2>2, <2>4
    <3>2. i \in DOMAIN micro /\ micro'[i] = micro[i]
      BY <2>1, <2>2, <3>1
    <3>3. CASE j = k + 1 /\ micro'[j] = n
      BY <1>2, <2>8, <3>2, <3>3
    <3>4. CASE j \in DOMAIN micro /\ micro'[j] = micro[j]
      BY <1>2, <2>4, <3>2, <3>4
    <3> QED
      BY <2>9, <3>3, <3>4
  <2>5. ASSUME NEW i \in DOMAIN seen, NEW j \in DOMAIN micro'
        PROVE  seen[i] < micro'[j]
    <3>1. CASE j = k + 1 /\ micro'[j] = n
      BY <1>2, <2>8, <3>1
    <3>2. CASE j \in DOMAIN micro /\ micro'[j] = micro[j]
      BY <1>2, <3>2
    <3> QED
      BY <2>9, <3>1, <3>2
  <2>6. \A i \in DOMAIN seen : seen[i] \in 1 .. n + 1 - 1
    BY <1>1, <1>2
  <2>7. n + 1 - 1 = n
    BY <1>1
  <2> QED
    BY <1>2, <2>1, <2>3, <2>4, <2>5, <2>6, <2>7 DEF Ordered
<1> QED
  BY <1>3, <1>4

\* The first of what is due takes effect.
LEMMA MicrotaskOrdered ==
    ASSUME Typed, Framed, Ordered, RunMicrotask
    PROVE  /\ Ordered' /\ micro' \in Seq(Nat) /\ seen' \in Seq(Nat)
           /\ Head(micro) \in DOMAIN records
<1>1. /\ micro # <<>> /\ micro' = Tail(micro)
      /\ seen' = Append(seen, Head(micro)) /\ UNCHANGED buffer
  BY DEF RunMicrotask
<1>2. /\ micro \in Seq(Nat) /\ DOMAIN micro = 1 .. Len(micro)
      /\ Len(micro) \in Nat /\ seen \in Seq(Nat)
      /\ DOMAIN seen = 1 .. Len(seen) /\ Len(seen) \in Nat
      /\ buffer.reading \in 1 .. Len(records) + 1
      /\ DOMAIN records = 1 .. Len(records) /\ Len(records) \in Nat
  BY ReadingBound, LenProperties DEF Typed
<1> DEFINE h == micro[1]
<1> DEFINE k == Len(seen)
<1>3. /\ Head(micro) = h /\ h \in Nat /\ 1 \in DOMAIN micro
      /\ micro' \in Seq(Nat) /\ Len(micro') = Len(micro) - 1
      /\ \A i \in 1 .. Len(micro') : micro'[i] = micro[i + 1]
  BY <1>1, <1>2, HeadTailProperties, EmptySeq, ElementOfSeq
<1>4. DOMAIN micro' = 1 .. Len(micro) - 1
  BY <1>3, LenProperties
<1>5. /\ seen' \in Seq(Nat) /\ Len(seen') = k + 1
      /\ \A i \in 1 .. k : seen'[i] = seen[i]
      /\ seen'[k + 1] = h
  BY <1>1, <1>2, <1>3, AppendProperties
<1>6. DOMAIN seen' = 1 .. k + 1
  BY <1>5, LenProperties
<1>7. /\ \A i \in DOMAIN seen : seen[i] \in 1 .. buffer.reading - 1
      /\ \A i \in DOMAIN micro : micro[i] \in 1 .. buffer.reading - 1
      /\ \A i, j \in DOMAIN seen : i < j => seen[i] < seen[j]
      /\ \A i, j \in DOMAIN micro : i < j => micro[i] < micro[j]
      /\ \A i \in DOMAIN seen, j \in DOMAIN micro : seen[i] < micro[j]
  BY DEF Ordered
<1>8. h \in 1 .. buffer.reading - 1
  BY <1>3, <1>7
<1>9. h \in DOMAIN records
  BY <1>2, <1>8
<1> HIDE DEF h, k
<1>10. ASSUME NEW i \in DOMAIN micro'
       PROVE  /\ i + 1 \in DOMAIN micro /\ micro'[i] = micro[i + 1]
              /\ h < micro'[i]
  <2> DEFINE m == Len(micro)
  <2>2. m \in Nat /\ DOMAIN micro = 1 .. m /\ i \in 1 .. m - 1
        /\ Len(micro') = m - 1
    BY <1>2, <1>3, <1>4
  <2> HIDE DEF m
  <2>3. i + 1 \in 1 .. m /\ 1 < i + 1
    BY <2>2
  <2>4. i \in 1 .. Len(micro')
    BY <2>2
  <2>1. i + 1 \in DOMAIN micro /\ 1 < i + 1 /\ micro'[i] = micro[i + 1]
    BY <1>3, <2>2, <2>3, <2>4
  <2> QED
    BY <1>3, <1>7, <2>1 DEF h
<1>11. ASSUME NEW i \in DOMAIN micro', NEW j \in DOMAIN micro', i < j
       PROVE  micro'[i] < micro'[j]
  <2>1. i + 1 < j + 1
    BY <1>4, <1>11
  <2> QED
    BY <1>7, <1>10, <2>1
<1>12. ASSUME NEW i \in DOMAIN seen'
       PROVE  (i \in DOMAIN seen /\ seen'[i] = seen[i] /\ seen[i] < h)
              \/ (i = k + 1 /\ seen'[i] = h)
  <2>1. CASE i = k + 1
    BY <1>5, <2>1
  <2>2. CASE i # k + 1
    <3>1. i \in 1 .. k /\ i \in DOMAIN seen
      BY <1>2, <1>6, <2>2 DEF k
    <3>2. seen[i] < h
      BY <1>3, <1>7, <3>1 DEF h
    <3> QED
      BY <1>5, <3>1, <3>2
  <2> QED
    BY <2>1, <2>2
<1>13. ASSUME NEW i \in DOMAIN seen', NEW j \in DOMAIN seen', i < j
       PROVE  seen'[i] < seen'[j]
  <2>1. i \in DOMAIN seen /\ seen'[i] = seen[i] /\ seen[i] < h
    BY <1>2, <1>6, <1>12, <1>13 DEF k
  <2> QED
    BY <1>7, <1>12, <1>13, <2>1
<1>14. ASSUME NEW i \in DOMAIN seen', NEW j \in DOMAIN micro'
       PROVE  seen'[i] < micro'[j]
  BY <1>7, <1>10, <1>12
<1>15. \A i \in DOMAIN seen' : seen'[i] \in 1 .. buffer.reading - 1
  BY <1>7, <1>8, <1>12
<1>16. \A i \in DOMAIN micro' : micro'[i] \in 1 .. buffer.reading - 1
  BY <1>7, <1>10
<1>17. Ordered'
  BY <1>1, <1>11, <1>13, <1>14, <1>15, <1>16 DEF Ordered
<1> QED
  BY <1>3, <1>5, <1>9, <1>17

-----------------------------------------------------------------------------
(* The steps of the peer.                                                  *)

\* A record of the buffer is read: what happens to the requests.
LEMMA ReadTable ==
    ASSUME IInv, Read, ReaderTyped'
    PROVE  TableInv'
<1> DEFINE b == buffer.reading
<1> DEFINE rec == records[b]
<1>1. /\ UNCHANGED <<nextId, closed, written, stdin, inbox, records>>
      /\ Typed /\ RequestInv /\ TableInv
      /\ closed' \in BOOLEAN
  BY DEF Read, agentVars, IInv, TableInv, Typed
<1>2. CASE UNCHANGED <<pending, out>>
  <2>1. UNCHANGED requestVars
    BY <1>1, <1>2 DEF requestVars
  <2>2. \A m : m.id \in Nat /\ Genuine(m) => Genuine(m)'
    BY <1>1, <1>2 DEF Genuine
  <2>3. MessagesMatch'
    BY <1>1, <2>2, MessagesStay DEF RequestInv
  <2> QED
    BY <1>1, <2>1, <2>3, MessagesMove DEF Typed
<1>3. CASE FailDiscardSensitive
  <2>1. /\ Released(DiscardSensitive, "discarded")
        /\ DiscardSensitive \subseteq DOMAIN pending /\ "discarded" \in Ends
    BY <1>3 DEF FailDiscardSensitive, Released, DiscardSensitive, Ends
  <2> QED
    BY <1>1, <2>1, ReleaseStep
<1>4. CASE Head(stdout) /\ ~Discards /\ Dispatch(b)
  <2>1. b \in DOMAIN records
    BY <1>1, ReadsKeepCut, LenProperties DEF IInv, Typed
  <2>2. CASE rec.kind = "response" /\ rec.id \in DOMAIN pending
    <3>1. rec.of = pending[rec.id]
      BY <1>1, <2>1, <2>2 DEF RequestInv, MessagesMatch, Genuine
    <3>2. Released({rec.id}, "answer")
      BY <1>4, <2>2, <3>1 DEF Dispatch, Settled, Released
    <3>3. {rec.id} \subseteq DOMAIN pending /\ "answer" \in Ends
      BY <2>2 DEF Ends
    <3> QED
      BY <1>1, <3>2, <3>3, ReleaseStep
  <2>3. CASE ~(rec.kind = "response" /\ rec.id \in DOMAIN pending)
    BY <1>2, <1>4, <2>3 DEF Dispatch, Settled
  <2> QED
    BY <2>2, <2>3
<1> QED
  BY <1>2, <1>3, <1>4 DEF Read

LEMMA ReadStep ==
    ASSUME IInv, Read
    PROVE  IInv'
<1> DEFINE b == buffer.reading
<1>1. Typed /\ Framed /\ Ordered /\ FitsIffDispatched
  BY DEF IInv, TableInv
<1>2. /\ b \in 1 .. Len(records)
      /\ Head(stdout) => (Discards <=> records[b].size > MaxLine)
      /\ stdout' \in Seq(BOOLEAN)
      /\ buffer' \in [bytes : Nat, discarding : BOOLEAN, reading : Nat]
      /\ buffer'.reading = IF Head(stdout) THEN b + 1 ELSE b
      /\ Framed'
  BY <1>1, ReadsKeepCut
<1>3. /\ mid' \in BOOLEAN /\ records' = records /\ calls' = calls
  BY DEF Read, agentVars
<1>4. b \in Nat /\ Len(records) \in Nat /\ DOMAIN records = 1 .. Len(records)
  BY <1>1, ReadingBound
<1>7. 1 .. b + 1 - 1 = 1 .. b - 1 \cup {b}
  <2>1. b \in 1 .. Len(records)
    BY <1>2
  <2> HIDE DEF b
  <2> QED
    BY <1>4, <2>1
<1>5. CASE Head(stdout) /\ ~Discards
  <2>1. Dispatch(b)
    BY <1>5 DEF Read, Discards
  <2>2. /\ dispatched' = dispatched \cup {b} /\ seen' = seen
        /\ micro' = micro \/ micro' = Append(micro, b)
    BY <2>1 DEF Dispatch, Deferred
  <2>3. buffer'.reading = b + 1 /\ records[b].size <= MaxLine
    <3>1. ~(records[b].size > MaxLine)
      BY <1>2, <1>5
    <3>2. records[b].size \in Nat /\ MaxLine \in Nat
      BY <1>1, <1>2, <1>4, SizeOfRecord, SizeAssumption
    <3>3. buffer'.reading = b + 1
      BY <1>2, <1>5
    <3> QED
      BY <3>1, <3>2, <3>3
  <2>4. Ordered' /\ micro' \in Seq(Nat)
    BY <1>1, <1>2, <2>2, <2>3, DispatchOrdered
  <2>5. FitsIffDispatched'
    <3>1. dispatched = {n \in 1 .. b - 1 : records[n].size <= MaxLine}
      BY <1>1 DEF FitsIffDispatched
    <3>2. dispatched' =
            {n \in 1 .. b + 1 - 1 : records[n].size <= MaxLine}
      BY <1>7, <2>2, <2>3, <3>1
    <3>3. dispatched' =
            {n \in 1 .. buffer'.reading - 1 : records'[n].size <= MaxLine}
      <4>1. buffer'.reading - 1 = b + 1 - 1
        BY <1>4, <2>3
      <4>2. records' = records
        BY <1>3
      <4> HIDE DEF b
      <4> QED
        BY Zenon, <3>2, <4>1, <4>2
    <3> QED
      BY <3>3 DEF FitsIffDispatched
  <2>6. ReaderTyped'
    BY <1>1, <1>2, <1>3, <2>2, <2>4 DEF ReaderTyped, Typed
  <2>7. TableInv'
    BY <2>6, ReadTable
  <2> QED
    BY <1>2, <1>3, <2>4, <2>5, <2>7 DEF IInv
<1>6. CASE ~(Head(stdout) /\ ~Discards)
  <2>1. UNCHANGED <<micro, dispatched, seen>>
    BY <1>6 DEF Read, Discards
  <2>2. ReaderTyped'
    BY <1>1, <1>2, <1>3, <2>1 DEF ReaderTyped, Typed
  <2>3. TableInv'
    BY <2>2, ReadTable
  <2>4. (buffer'.reading = b + 1 /\ records[b].size > MaxLine)
          \/ buffer'.reading = b
    <3>1. CASE Head(stdout)
      BY <1>2, <1>6, <3>1
    <3>2. CASE ~Head(stdout)
      BY <1>2, <3>2
    <3> QED
      BY <3>1, <3>2
  <2>5. FitsIffDispatched'
    <3>1. dispatched = {n \in 1 .. b - 1 : records[n].size <= MaxLine}
      BY <1>1 DEF FitsIffDispatched
    <3>2. CASE buffer'.reading = b
      BY <1>3, <2>1, <3>1, <3>2 DEF FitsIffDispatched
    <3>3. CASE buffer'.reading = b + 1 /\ records[b].size > MaxLine
      <4>1. records[b].size \in Nat /\ MaxLine \in Nat
        BY <1>1, <1>2, <1>4, SizeOfRecord, SizeAssumption
      <4>2. ~(records[b].size <= MaxLine)
        BY <3>3, <4>1
      <4>3. dispatched =
              {n \in 1 .. b + 1 - 1 : records[n].size <= MaxLine}
        BY <1>7, <3>1, <4>2
      <4>4. dispatched' =
              {n \in 1 .. buffer'.reading - 1 : records'[n].size <= MaxLine}
        <5>1. buffer'.reading - 1 = b + 1 - 1
          BY <1>4, <3>3
        <5>2. records' = records /\ dispatched' = dispatched
          BY <1>3, <2>1
        <5> HIDE DEF b
        <5> QED
          BY Zenon, <4>3, <5>1, <5>2
      <4> QED
        BY <4>4 DEF FitsIffDispatched
    <3> QED
      BY <2>4, <3>2, <3>3
  <2>6. Ordered'
    <3>1. \A x \in 1 .. b - 1 : x \in 1 .. buffer'.reading - 1
      BY <1>4, <2>4
    <3> QED
      BY <1>1, <2>1, <3>1 DEF Ordered
  <2> QED
    BY <1>2, <1>3, <2>3, <2>5, <2>6 DEF IInv
<1> QED
  BY <1>5, <1>6

LEMMA MicrotaskStep ==
    ASSUME IInv, RunMicrotask
    PROVE  IInv'
<1>1. /\ Typed /\ Framed /\ Ordered /\ FitsIffDispatched /\ TableInv
      /\ calls \subseteq DOMAIN records
  BY DEF IInv, TableInv
<1>2. /\ UNCHANGED requestVars
      /\ UNCHANGED <<stdin, stdout, inbox, records, buffer, mid, dispatched>>
      /\ calls' \subseteq calls \cup {Head(micro)}
  BY DEF RunMicrotask, agentVars
<1>3. /\ Ordered' /\ micro' \in Seq(Nat) /\ seen' \in Seq(Nat)
      /\ Head(micro) \in DOMAIN records
  BY <1>1, MicrotaskOrdered
<1>4. ReaderTyped'
  BY <1>1, <1>2, <1>3 DEF ReaderTyped, Typed
<1>5. MessagesMatch'
  BY <1>1, <1>2
     DEF TableInv, RequestInv, MessagesMatch, Genuine, requestVars
<1>6. TableInv'
  BY <1>1, <1>2, <1>4, <1>5, MessagesMove DEF Typed
<1>7. Framed' /\ FitsIffDispatched'
  BY <1>1, <1>2
     DEF Framed, CutAt, Cut, Keeps, FitsIffDispatched
<1> QED
  BY <1>1, <1>2, <1>3, <1>6, <1>7 DEF IInv

-----------------------------------------------------------------------------
(* The other steps leave the reader alone.                                 *)

\* The framing and the order when no record is read or written.
LEMMA ReaderRests ==
    ASSUME IInv, TableInv', calls' \subseteq calls,
           UNCHANGED <<records, stdout, buffer, micro, dispatched, seen>>
    PROVE  IInv'
<1>1. Framed'
  BY DEF IInv, Framed, CutAt, Cut, Keeps
<1>2. FitsIffDispatched' /\ Ordered'
  BY DEF IInv, FitsIffDispatched, Ordered
<1> QED
  BY <1>1, <1>2 DEF IInv

LEMMA RequestsStep ==
    ASSUME IInv,
           \/ \E r \in Req : \/ Request(r) \/ RequestRefused(r)
                             \/ RequestThrows(r) \/ DeadlinePasses(r)
           \/ FailTransport \/ Dispose \/ AgentReads
    PROVE  IInv'
<1>1. TableInv'
  BY RequestStep, RefusedStep, ThrowsStep, DeadlineStep, CloseStep,
     AgentReadsStep DEF IInv
<1>2. UNCHANGED <<records, stdout, buffer, micro, dispatched, seen, calls>>
  BY DEF Request, RequestRefused, RequestThrows, DeadlinePasses,
         FailTransport, Dispose, AgentReads, agentVars, readVars
<1> QED
  BY <1>1, <1>2, ReaderRests

LEMMA HandlerStep ==
    ASSUME IInv, NEW n, HandlerEnds(n)
    PROVE  IInv'
<1>1. /\ UNCHANGED requestVars
      /\ UNCHANGED <<inbox, records, stdout, buffer, mid, micro, dispatched,
                     seen>>
      /\ calls' \subseteq calls
      /\ stdin' = stdin \/ stdin' = Append(stdin, [kind |-> "reply"])
  BY DEF HandlerEnds, agentVars, readVars
<1>2. /\ Typed /\ TableInv /\ stdin \in Seq(Message)
      /\ [kind |-> "reply"] \in Message
  BY DEF IInv, TableInv, Typed, Message
<1>3. UNCHANGED <<nextId, pending, written>>
  BY <1>1 DEF requestVars
<1>4. ReaderTyped'
  BY <1>1, <1>2 DEF Typed, ReaderTyped
<1>5. stdin' \in Seq(Message)
  BY <1>1, <1>2, AppendProperties
<1>6. ASSUME NEW k \in DOMAIN stdin', stdin'[k].kind = "request"
      PROVE  k \in DOMAIN stdin /\ stdin'[k] = stdin[k]
  <2>1. CASE stdin' = stdin
    BY <2>1
  <2>2. CASE stdin' = Append(stdin, [kind |-> "reply"])
    <3>1. /\ DOMAIN stdin = 1 .. Len(stdin) /\ Len(stdin) \in Nat
          /\ DOMAIN stdin' = 1 .. Len(stdin) + 1
          /\ \A i \in 1 .. Len(stdin) : stdin'[i] = stdin[i]
          /\ stdin'[Len(stdin) + 1] = [kind |-> "reply"]
      BY <1>2, <1>5, <2>2, AppendProperties, LenProperties
    <3>2. k # Len(stdin) + 1
      BY <1>6, <3>1
    <3> QED
      BY <3>1, <3>2
  <2> QED
    BY <1>1, <2>1, <2>2
<1>7. MessagesMatch'
  <2>1. ASSUME NEW k \in DOMAIN stdin', stdin'[k].kind = "request"
        PROVE  Genuine(stdin[k])'
    BY <1>2, <1>3, <1>6, <2>1
       DEF TableInv, RequestInv, MessagesMatch, Genuine
  <2>2. /\ \A q \in inbox' : Genuine(q)'
        /\ \A m \in DOMAIN records' :
             records'[m].kind = "response" => Genuine(records[m])'
    BY <1>1, <1>2, <1>3 DEF TableInv, RequestInv, MessagesMatch, Genuine
  <2> QED
    BY <2>1, <2>2 DEF MessagesMatch
<1>8. TableInv'
  BY <1>1, <1>2, <1>4, <1>5, <1>7, MessagesMove DEF Typed
<1> QED
  BY <1>1, <1>8, ReaderRests

\* The agent writes a record, an answer to what it has read or a call.
LEMMA AgentStep ==
    ASSUME IInv, NEW rec \in AgentRecord, AgentWrites(rec),
           inbox' \subseteq inbox,
           rec.kind = "response" => Genuine(rec)
    PROVE  IInv'
<1>1. /\ records' = Append(records, rec)
      /\ stdout' = stdout \o Pieces(rec.size)
      /\ UNCHANGED requestVars
      /\ UNCHANGED <<stdin, buffer, mid, micro, dispatched, calls, seen>>
  BY DEF AgentWrites, readVars
<1>2. Typed /\ TableInv /\ Framed /\ calls \subseteq DOMAIN records
  BY DEF IInv, TableInv
<1>3. UNCHANGED <<nextId, pending, written>>
  BY <1>1 DEF requestVars
<1>4. /\ records' \in Seq(AgentRecord) /\ stdout' \in Seq(BOOLEAN)
      /\ Len(records') = Len(records) + 1
      /\ \A n \in 1 .. Len(records) : records'[n] = records[n]
      /\ records'[Len(records) + 1] = rec
      /\ Framed'
  BY <1>1, <1>2, WritesKeepCut
<1>5. /\ DOMAIN records = 1 .. Len(records) /\ Len(records) \in Nat
      /\ DOMAIN records' = 1 .. Len(records) + 1
      /\ buffer.reading \in 1 .. Len(records) + 1
  BY <1>2, <1>4, ReadingBound, LenProperties
<1>6. ReaderTyped'
  BY <1>1, <1>2, <1>4 DEF Typed, ReaderTyped
<1>7. MessagesMatch'
  <2>1. ASSUME NEW n \in DOMAIN records', records'[n].kind = "response"
        PROVE  Genuine(records[n])'
    <3>1. CASE n = Len(records) + 1
      BY <1>3, <1>4, <2>1, <3>1 DEF Genuine
    <3>2. CASE n # Len(records) + 1
      <4>1. n \in DOMAIN records /\ records'[n] = records[n]
        BY <1>4, <1>5, <3>2
      <4> QED
        BY <1>2, <1>3, <2>1, <4>1
           DEF TableInv, RequestInv, MessagesMatch, Genuine
    <3> QED
      BY <3>1, <3>2
  <2>2. /\ \A q \in inbox' : Genuine(q)'
        /\ \A k \in DOMAIN stdin' :
             stdin'[k].kind = "request" => Genuine(stdin[k])'
    BY <1>1, <1>2, <1>3 DEF TableInv, RequestInv, MessagesMatch, Genuine
  <2> QED
    BY <2>1, <2>2 DEF MessagesMatch
<1>8. TableInv'
  BY <1>1, <1>2, <1>4, <1>6, <1>7, MessagesMove DEF Typed
<1>9. FitsIffDispatched'
  <2>1. \A n \in 1 .. buffer.reading - 1 : records'[n] = records[n]
    BY <1>4, <1>5
  <2>2. dispatched = {n \in 1 .. buffer.reading - 1 :
                        records[n].size <= MaxLine}
    BY DEF IInv, FitsIffDispatched
  <2> QED
    BY <1>1, <2>1, <2>2 DEF FitsIffDispatched
<1>10. Ordered'
  BY <1>1 DEF IInv, Ordered
<1>11. calls' \subseteq DOMAIN records'
  BY <1>1, <1>2, <1>5
<1> QED
  BY <1>4, <1>8, <1>9, <1>10, <1>11 DEF IInv

LEMMA AnswerStep ==
    ASSUME IInv, NEW size \in Sizes, NEW q \in inbox, AgentAnswers(q, size)
    PROVE  IInv'
<1> DEFINE rec == [kind |-> "response", id |-> q.id, of |-> q.of,
                   size |-> size]
<1>1. q \in [id : Nat, of : Req] /\ Genuine(q)
  BY DEF IInv, TableInv, RequestInv, MessagesMatch, Typed
<1>2. rec \in AgentRecord
  BY <1>1 DEF AgentRecord
<1>3. Genuine(rec)
  BY <1>1 DEF Genuine
<1>4. AgentWrites(rec) /\ inbox' \subseteq inbox
  BY DEF AgentAnswers
<1> QED
  BY <1>2, <1>3, <1>4, AgentStep

LEMMA CallsStep ==
    ASSUME IInv, NEW size \in Sizes, NEW kind \in {"note", "call"},
           AgentCalls(kind, size)
    PROVE  IInv'
<1> DEFINE rec == [kind |-> kind, size |-> size]
<1>1. rec \in AgentRecord /\ rec.kind # "response"
  BY DEF AgentRecord
<1>2. AgentWrites(rec) /\ inbox' \subseteq inbox
  BY DEF AgentCalls
<1> QED
  BY <1>1, <1>2, AgentStep

-----------------------------------------------------------------------------
(* The theorems.                                                           *)

LEMMA InitHolds == Init => IInv
<1> SUFFICES ASSUME Init PROVE IInv
  OBVIOUS
<1>1. Typed
  <2>1. /\ nextId = 1 /\ closed \in BOOLEAN /\ mid \in BOOLEAN
        /\ pending = <<>>
    BY DEF Init
  <2>4. pending = [i \in DOMAIN pending |-> pending[i]]
    BY <2>1, Emptied
  <2>5. DOMAIN pending \subseteq 1 .. nextId - 1
    BY <2>1, Emptied
  <2>3. out \in [Req -> Outcome]
    BY DEF Init, Outcome
  <2>2. buffer \in [bytes : Nat, discarding : BOOLEAN, reading : Nat]
    BY DEF Init
  <2> QED
    BY <2>1, <2>2, <2>3, <2>4, <2>5, EmptySeq DEF Init, Typed
<1>2. RequestInv
  <2>1. OneEntry /\ MessagesMatch /\ WrittenWasMade /\ NothingParked
        /\ AnswersMatch
    BY Emptied
       DEF Init, OneEntry, MessagesMatch, WrittenWasMade, NothingParked,
           AnswersMatch
  <2>2. {r \in Req : out[r] # "new"} = {}
    BY DEF Init
  <2>3. IdsCounted
    <3>1. nextId = 1 /\ Cardinality({}) = 0
      BY FS_EmptySet DEF Init
    <3>2. Cardinality({r \in Req : out[r] # "new"}) = 0
      BY <2>2, <3>1
    <3> QED
      BY <3>1, <3>2 DEF IdsCounted
  <2> QED
    BY <2>1, <2>3 DEF RequestInv
<1>3. Framed
  <2>1. PICK e : e = [n \in 0 .. 0 |-> 0]
    OBVIOUS
  <2>2. buffer.reading = 1 /\ Len(records) = 0 /\ Len(stdout) = 0
        /\ buffer.bytes = 0 /\ ~buffer.discarding
    BY EmptySeq DEF Init
  <2>3. e \in [buffer.reading - 1 .. Len(records) -> Int] /\ e[0] = 0
    BY <2>1, <2>2
  <2>4. CutAt(e)
    BY <2>2, <2>3, SizeAssumption DEF CutAt, Cut, Keeps
  <2> QED
    BY <2>3, <2>4 DEF Framed
<1>4. FitsIffDispatched /\ Ordered /\ calls \subseteq DOMAIN records
  BY Emptied DEF Init, FitsIffDispatched, Ordered
<1> QED
  BY <1>1, <1>2, <1>3, <1>4 DEF IInv, TableInv

LEMMA NextHolds == IInv /\ [Next]_vars => IInv'
<1> SUFFICES ASSUME IInv, [Next]_vars PROVE IInv'
  OBVIOUS
<1>1. CASE \/ \E r \in Req : \/ Request(r) \/ RequestRefused(r)
                             \/ RequestThrows(r) \/ DeadlinePasses(r)
           \/ FailTransport \/ Dispose \/ AgentReads
  BY <1>1, RequestsStep
<1>2. CASE Read
  BY <1>2, ReadStep
<1>3. CASE RunMicrotask
  BY <1>3, MicrotaskStep
<1>4. CASE \E n \in calls : HandlerEnds(n)
  BY <1>4, HandlerStep
<1>5. CASE \E size \in Sizes : \E q \in inbox : AgentAnswers(q, size)
  BY <1>5, AnswerStep
<1>6. CASE \E size \in Sizes : \E k \in {"note", "call"} : AgentCalls(k, size)
  BY <1>6, CallsStep
<1>7. CASE UNCHANGED vars
  <2>1. /\ UNCHANGED requestVars
        /\ UNCHANGED <<stdin, inbox, records, stdout, buffer, mid, micro,
                       dispatched, calls, seen>>
    BY <1>7 DEF vars, agentVars, readVars
  <2>2. TableInv'
    <3>1. Typed'
      BY <2>1 DEF IInv, TableInv, Typed, requestVars
    <3>2. OneEntry' /\ MessagesMatch'
      BY <2>1 DEF IInv, TableInv, RequestInv, OneEntry, MessagesMatch,
                  Genuine, requestVars
    <3>3. WrittenWasMade' /\ IdsCounted' /\ NothingParked' /\ AnswersMatch'
      BY <2>1 DEF IInv, TableInv, RequestInv, WrittenWasMade, IdsCounted,
                  NothingParked, AnswersMatch, requestVars
    <3> QED
      BY <3>1, <3>2, <3>3 DEF TableInv, RequestInv
  <2> QED
    BY <2>1, <2>2, ReaderRests
<1> QED
  BY <1>1, <1>2, <1>3, <1>4, <1>5, <1>6, <1>7 DEF Next

\* The peer's tables keep their shape.
LEMMA ShapeHolds == IInv => TypeOK
<1> SUFFICES ASSUME IInv PROVE TypeOK
  OBVIOUS
<1>1. Typed /\ RequestInv /\ OneEntry /\ Framed
  BY DEF IInv, TableInv, RequestInv
<1>2. nextId \in 1 .. Cardinality(Req) + 1
  <2>1. {r \in Req : out[r] # "new"} \subseteq Req
    OBVIOUS
  <2>2. /\ Cardinality({r \in Req : out[r] # "new"}) <= Cardinality(Req)
        /\ Cardinality({r \in Req : out[r] # "new"}) \in Nat
        /\ Cardinality(Req) \in Nat
    BY <2>1, ReqAssumption, FS_Subset, FS_CardinalityType
  <2> QED
    BY <1>1, <2>2 DEF RequestInv, IdsCounted, Typed
<1>3. Pending = {r \in Req : out[r] = "pending"}
  BY <1>1 DEF Pending, OneEntry
<1> QED
  BY <1>1, <1>2, <1>3, ReadingBound DEF TypeOK, Typed, IInv

\* No request that was written is called unsent.
LEMMA UnsentIsTrue == IInv => NotSentIsTrue
BY DEF IInv, TableInv, RequestInv, WrittenWasMade, MessagesMatch, Genuine,
       NotSentIsTrue

\* Requests of the peer (request, requestInternal, failTransport, dispose and
\* dispatch in jsonrpc.ts): none waits on a transport that is gone, each is
\* answered by its own response only, and none that was written is called
\* unsent, whatever order answers, deadlines and failures come in.
THEOREM PeerHolds == Spec => []PeerInv
<1>1. IInv => PeerInv
  BY ShapeHolds, UnsentIsTrue DEF PeerInv, IInv, TableInv, RequestInv
<1> QED
  BY <1>1, InitHolds, NextHolds, PTL DEF Spec

\* Framing (BoundedNdjsonBuffer.push): exactly the records that fit the limit
\* are dispatched, however the stream is cut into chunks and whatever was
\* discarded before.  It needs to be known where the records end in what is
\* still to be read, and how much of the current one was read.
THEOREM FramingHolds == Spec => []FitsIffDispatched
<1>1. IInv => FitsIffDispatched
  BY DEF IInv
<1> QED
  BY <1>1, InitHolds, NextHolds, PTL DEF Spec

\* Records take effect in the order of the wire (the comment on dispatch in
\* jsonrpc.ts): what took effect precedes what is due, and both precede what
\* is still to be read.
THEOREM WireOrderHolds == Spec => []WireOrder
<1>1. IInv => WireOrder
  <2> SUFFICES ASSUME IInv, NEW i \in 2 .. Len(seen)
               PROVE  seen[i - 1] < seen[i]
    BY DEF WireOrder
  <2>1. DOMAIN seen = 1 .. Len(seen) /\ Len(seen) \in Nat
    BY LenProperties DEF IInv, TableInv, Typed
  <2>2. i - 1 \in DOMAIN seen /\ i \in DOMAIN seen /\ i - 1 < i
    BY <2>1
  <2> QED
    BY <2>2 DEF IInv, Ordered
<1> QED
  BY <1>1, InitHolds, NextHolds, PTL DEF Spec
=============================================================================
