---------------------------- MODULE JsonRpcPeer ----------------------------
(***************************************************************************)
(* The runner's JSON-RPC peer over an agent process's stdio                *)
(* (runner/src/jsonrpc.ts) and the framing under it                        *)
(* (runner/src/bounded-ndjson.ts).                                         *)
(*                                                                         *)
(* Data events, timers and stream errors are events of the loop.  What a   *)
(* record sets off (the continuation of a request, a handler) runs later,  *)
(* from the microtask queue, when the whole chunk has been read.           *)
(***************************************************************************)
EXTENDS Naturals, Sequences, FiniteSets, SequencesExt

CONSTANTS
    Req,         \* requests the runner makes
    Timed,       \* those with a deadline
    Sensitive,   \* those with failOnDiscardedRecord
    MaxLine,     \* maxLineBytes, in pieces of a record
    Sizes,       \* sizes of the agent's records
    MaxRecords   \* bound: records the agent writes

VARIABLES
    nextId,      \* the peer's counter
    pending,     \* the pending table: id -> request
    out,         \* how each request was settled
    closed,      \* the peer's closed flag
    stdin,       \* messages on their way to the agent
    inbox,       \* what the agent has read and not answered
    stdout,      \* pieces of records on their way to the peer
    records,     \* the records the agent has written, in order
    buffer,      \* BoundedNdjsonBuffer: bytes, discarding, record number
    mid,         \* a chunk is being read
    micro,       \* the microtask queue
    calls,       \* incoming requests whose handler is running
    written,     \* history: requests written to stdin
    dispatched,  \* history: numbers of the records dispatched
    seen         \* history: record numbers in the order they took effect

agentVars == <<inbox, records>>
requestVars == <<nextId, pending, out, closed, written>>
readVars == <<buffer, mid, micro, dispatched>>
vars == <<requestVars, stdin, stdout, agentVars, readVars, calls, seen>>

Id == 1 .. Cardinality(Req)
Num == 1 .. MaxRecords

ASSUME ReqAssumption ==
    IsFiniteSet(Req) /\ Timed \subseteq Req /\ Sensitive \subseteq Req
ASSUME SizeAssumption ==
    MaxLine \in Nat \ {0} /\ Sizes \subseteq Nat \ {0} /\ MaxRecords \in Nat

Init ==
    /\ nextId = 1 /\ pending = <<>>
    /\ out = [r \in Req |-> "new"]
    /\ closed = FALSE
    /\ stdin = <<>> /\ inbox = {}
    /\ stdout = <<>> /\ records = <<>>
    /\ buffer = [bytes |-> 0, discarding |-> FALSE, reading |-> 1]
    /\ mid = FALSE /\ micro = <<>>
    /\ calls = {}
    /\ written = {} /\ dispatched = {} /\ seen = <<>>

\* The event loop takes the next event.
Idle == ~mid /\ micro = <<>>

Pending == {pending[i] : i \in DOMAIN pending}

Without(ids) == [i \in DOMAIN pending \ ids |-> pending[i]]

Rejected(ids, how) ==
    [r \in Req |-> IF \E i \in ids : pending[i] = r THEN how ELSE out[r]]

-----------------------------------------------------------------------------
(* Requests.                                                               *)

\* Fault: the number of waiting requests serves as the next id.
NewId_Reused == Cardinality(DOMAIN pending) + 1

NewId == nextId

\* requestInternal, refused: closed, or a deadline already passed.
RequestRefused(r) ==
    /\ Idle /\ out[r] = "new"
    /\ closed \/ r \in Timed
    /\ out' = [out EXCEPT ![r] = "notSent"]
    /\ UNCHANGED <<nextId, pending, closed, written, stdin, stdout, agentVars,
                   readVars, calls, seen>>

\* requestInternal: pending first, then written.
Request(r) ==
    /\ Idle /\ out[r] = "new" /\ ~closed
    /\ nextId' = nextId + 1
    /\ pending' = [i \in DOMAIN pending \cup {NewId} |->
                     IF i = NewId THEN r ELSE pending[i]]
    /\ out' = [out EXCEPT ![r] = "pending"]
    /\ stdin' = Append(stdin, [kind |-> "request", id |-> NewId, of |-> r])
    /\ written' = written \cup {r}
    /\ UNCHANGED <<closed, stdout, agentVars, readVars, calls, seen>>

\* The deadline timer.
DeadlinePasses(r) ==
    /\ Idle /\ r \in Timed \cap Pending
    /\ \E ids \in {{i \in DOMAIN pending : pending[i] = r}} :
         /\ pending' = Without(ids)
         /\ out' = Rejected(ids, "timeout")
    /\ UNCHANGED <<nextId, closed, written, stdin, stdout, agentVars, readVars,
                   calls, seen>>

\* Fault: a request caught by the failure is called unsent.
Failure_Unsent == "notSent"

\* How a request ends that was waiting when the transport went.
Failure == "transport"

CloseAll ==
    /\ pending' = <<>> /\ out' = Rejected(DOMAIN pending, Failure)
    /\ closed' = TRUE

\* failTransport: stdin's error event.  What was written may have been read.
FailTransport ==
    /\ Idle /\ ~closed
    /\ CloseAll
    /\ UNCHANGED <<nextId, written, stdin, stdout, agentVars, readVars, calls,
                   seen>>

\* Fault: the transport fails before the request is in the table.
RequestThrows_Parks(r) ==
    /\ Idle /\ out[r] = "new" /\ ~closed
    /\ nextId' = nextId + 1
    /\ pending' = (nextId :> r) /\ closed' = TRUE
    /\ out' = [Rejected(DOMAIN pending, Failure) EXCEPT ![r] = "pending"]
    /\ UNCHANGED <<written, stdin, stdout, agentVars, readVars, calls, seen>>

\* request, when stdin.write throws: failTransport from within.
RequestThrows(r) ==
    /\ Idle /\ out[r] = "new" /\ ~closed
    /\ nextId' = nextId + 1
    /\ pending' = <<>> /\ closed' = TRUE
    /\ out' = [Rejected(DOMAIN pending, Failure) EXCEPT ![r] = Failure]
    /\ UNCHANGED <<written, stdin, stdout, agentVars, readVars, calls, seen>>

\* dispose, when the driver lets the process go or it exited.
Dispose ==
    /\ Idle /\ ~closed
    /\ CloseAll
    /\ stdin' = <<>>
    /\ UNCHANGED <<nextId, written, stdout, agentVars, readVars, calls, seen>>

-----------------------------------------------------------------------------
(* BoundedNdjsonBuffer.push, one piece at a time, and dispatch.            *)

\* failDiscardSensitive: the record may have been the answer of each.
DiscardSensitive ==
    {i \in DOMAIN pending : pending[i] \in Sensitive}

\* Fault: the discarded record is only logged.
FailDiscardSensitive_Logs == UNCHANGED <<pending, out>>

FailDiscardSensitive ==
    /\ pending' = Without(DiscardSensitive)
    /\ out' = Rejected(DiscardSensitive, "discarded")

\* Fault: the table keeps a request that was answered.
Settled_Keeps(rec) ==
    /\ out' = IF rec.id \in DOMAIN pending THEN Rejected({rec.id}, "answer")
                                           ELSE out
    /\ UNCHANGED pending

\* A response settles its request, if it still waits.
Settled(rec) ==
    IF rec.id \in DOMAIN pending
      THEN /\ pending' = Without({rec.id})
           /\ out' = Rejected({rec.id},
                              IF rec.of = pending[rec.id] THEN "answer"
                                                          ELSE "mixed up")
      ELSE UNCHANGED <<pending, out>>

\* Fault: a notification's handler is called at once.
Deferred_Calls(n, rec) ==
    /\ micro' = IF rec.kind = "note" THEN micro ELSE Append(micro, n)
    /\ seen' = IF rec.kind = "note" THEN Append(seen, n) ELSE seen

\* Continuations, handlers of notifications and of requests all wait for
\* the microtask queue.
Deferred(n, rec) ==
    /\ micro' = IF rec.kind = "response" /\ rec.id \notin DOMAIN pending
                  THEN micro ELSE Append(micro, n)
    /\ UNCHANGED seen

Dispatch(n) ==
    /\ dispatched' = dispatched \cup {n}
    /\ Deferred(n, records[n])
    /\ IF records[n].kind = "response" THEN Settled(records[n])
                                       ELSE UNCHANGED <<pending, out>>

\* Fault: a record of exactly the limit does not fit.
Overflows_AtLimit == ~buffer.discarding /\ buffer.bytes + 1 >= MaxLine

Overflows == ~buffer.discarding /\ buffer.bytes + 1 > MaxLine

\* Fault: the rest of an oversized record is not skipped.
Discards_Once == Overflows

Discards == buffer.discarding \/ Overflows

\* One piece of stdout.  The last piece of a record ends with the newline.
Read ==
    /\ stdout # <<>> /\ (mid \/ micro = <<>>)
    /\ stdout' = Tail(stdout)
    /\ mid' \in BOOLEAN /\ (mid' => Len(stdout) > 1)
    /\ buffer' = IF Head(stdout)
                   THEN [bytes |-> 0, discarding |-> FALSE,
                         reading |-> buffer.reading + 1]
                   ELSE [bytes |-> IF Discards THEN 0 ELSE buffer.bytes + 1,
                         discarding |-> Discards,
                         reading |-> buffer.reading]
    /\ IF Overflows
         THEN FailDiscardSensitive /\ UNCHANGED <<micro, dispatched, seen>>
         ELSE IF Head(stdout) /\ ~Discards THEN Dispatch(buffer.reading)
         ELSE UNCHANGED <<pending, out, micro, dispatched, seen>>
    /\ UNCHANGED <<nextId, closed, written, stdin, agentVars, calls>>

\* A microtask: the record takes effect.  A handler of an incoming request
\* starts, and ends some time later.
RunMicrotask ==
    /\ ~mid /\ micro # <<>>
    /\ micro' = Tail(micro)
    /\ seen' = Append(seen, Head(micro))
    /\ calls' = IF records[Head(micro)].kind = "call"
                  THEN calls \cup {Head(micro)} ELSE calls
    /\ UNCHANGED <<requestVars, stdin, stdout, agentVars, buffer, mid,
                   dispatched>>

\* The handler's result, or its error, is written unless the peer is closed.
HandlerEnds(n) ==
    /\ Idle /\ n \in calls
    /\ calls' = calls \ {n}
    /\ stdin' = IF closed THEN stdin ELSE Append(stdin, [kind |-> "reply"])
    /\ UNCHANGED <<requestVars, stdout, agentVars, readVars, seen>>

-----------------------------------------------------------------------------
(* The agent process: any order, any size.                                 *)

AgentReads ==
    /\ stdin # <<>>
    /\ stdin' = Tail(stdin)
    /\ inbox' = IF Head(stdin).kind = "request"
                  THEN inbox \cup {[id |-> Head(stdin).id, of |-> Head(stdin).of]}
                  ELSE inbox
    /\ UNCHANGED <<requestVars, stdout, records, readVars, calls, seen>>

Pieces(size) == [k \in 1 .. size |-> k = size]

AgentWrites(rec) ==
    /\ Len(records) < MaxRecords
    /\ records' = Append(records, rec)
    /\ stdout' = stdout \o Pieces(rec.size)
    /\ UNCHANGED <<requestVars, stdin, readVars, calls, seen>>

AgentAnswers(q, size) ==
    /\ q \in inbox
    /\ inbox' = inbox \ {q}
    /\ AgentWrites([kind |-> "response", id |-> q.id, of |-> q.of,
                    size |-> size])

\* The bound leaves room for the answers the agent owes.
Room ==
    Cardinality({n \in DOMAIN records : records[n].kind # "response"})
      < MaxRecords - Cardinality(Req)

AgentCalls(kind, size) ==
    /\ Room
    /\ AgentWrites([kind |-> kind, size |-> size])
    /\ UNCHANGED inbox

-----------------------------------------------------------------------------
Next ==
    \/ \E r \in Req : \/ Request(r) \/ RequestRefused(r) \/ RequestThrows(r)
                      \/ DeadlinePasses(r)
    \/ FailTransport \/ Dispose
    \/ Read \/ RunMicrotask \/ \E n \in calls : HandlerEnds(n)
    \/ AgentReads
    \/ \E size \in Sizes : \/ \E q \in inbox : AgentAnswers(q, size)
                           \/ \E k \in {"note", "call"} : AgentCalls(k, size)

Spec == Init /\ [][Next]_vars

\* The event loop serves its events and the agent answers what it reads.
Fairness ==
    /\ WF_vars(Read) /\ WF_vars(RunMicrotask) /\ WF_vars(AgentReads)
    /\ \A r \in Req : SF_vars(DeadlinePasses(r))
    /\ \A i \in Id, r \in Req :
         WF_vars(\E size \in Sizes : AgentAnswers([id |-> i, of |-> r], size))

FairSpec == Spec /\ Fairness

-----------------------------------------------------------------------------
(* Properties.                                                             *)

\* The shape of the tables.
TypeOK ==
    /\ nextId \in 1 .. Cardinality(Req) + 1
    /\ DOMAIN pending \subseteq 1 .. nextId - 1
    /\ Pending = {r \in Req : out[r] = "pending"}
    /\ buffer.bytes \in 0 .. MaxLine /\ buffer.reading <= Len(records) + 1
    /\ calls \subseteq DOMAIN records

\* "Otherwise the pending promise would be stored and never settle": no
\* request waits on a transport that is gone.
NothingParked == closed => pending = <<>>

\* A request is only ever answered by its own response: one that comes
\* after its request timed out settles nothing else.
AnswersMatch == \A r \in Req : out[r] # "mixed up"

\* "the agent provably never saw it": a refusal that callers take as safe
\* to retry was never written.
NotSentIsTrue ==
    \A r \in Req : out[r] = "notSent" =>
        r \notin written /\ \A q \in inbox : q.of # r

\* Requests end as what happened to them: none is left on a dead transport,
\* none gets another's answer, none that was written is called unsent.
PeerInv == TypeOK /\ NothingParked /\ AnswersMatch /\ NotSentIsTrue

\* Framing: what was read through its newline was dispatched if it fits and
\* discarded if it does not; parsing resumes with the next record.
FitsIffDispatched ==
    dispatched = {n \in 1 .. buffer.reading - 1 : records[n].size <= MaxLine}

\* "Preserve wire ordering relative to request continuations even when
\* several NDJSON frames arrive in one stream chunk."
WireOrder == \A i \in 2 .. Len(seen) : seen[i - 1] < seen[i]

\* A request with a deadline, or one that fails on a discarded record, does
\* not wait for ever, whatever the size of its answer.
RequestsSettle ==
    \A r \in Timed \cup Sensitive : out[r] = "pending" ~> out[r] # "pending"
=============================================================================
