-------------------------- MODULE RunnerFrameQueue --------------------------
(***************************************************************************)
(* The control plane's queue of one runner connection                      *)
(* (control-plane/src/runner-frame-queue.ts) and the socket route that     *)
(* feeds it (control-plane/src/index.ts).                                  *)
(*                                                                         *)
(* Frames arrive on the event loop while one drain loop hands them to an   *)
(* asynchronous handler.  Between two awaits everything is synchronous, so *)
(* a step of this specification is the code between two awaits: it pipes   *)
(* the record q of the queue's fields through the private methods in the   *)
(* order the code calls them.                                              *)
(***************************************************************************)
EXTENDS Integers, Sequences, FiniteSets, FiniteSetsExt, Functions

CONSTANTS
    Kind,            \* kinds of frame that are queued
    Register,        \* the registration frame
    Wide,            \* kinds about the runner as a whole: runnerWide
    Batchable,       \* kinds that may share a handler call: batchable
    Stages,          \* kinds for which prepare returns a value to be released
    SizeOf,          \* bytes of a frame of each kind
    FrameLimit,      \* 4096: limits.frames, and the headroom over an inventory
    ByteLimit,       \* limits.bytes, twice the largest legal frame
    PressureCap,     \* 1024 in updatePressure
    RunLimit,        \* RUNTIME_UPDATE_RUN_LIMIT
    Inventories,     \* advertised snapshot counts
    MaxFrames        \* bound: frames the queue accepts

VARIABLES
    q,            \* the fields of RunnerFrameQueue
    drain,        \* where drain() is suspended
    run,          \* the frames its handler has in hand
    sock,         \* the WebSocket
    attached,     \* this socket speaks for its runner
    accepted,     \* number of frames ever accepted: the next one's identity
    handled,      \* history: identities handed to a handler, in order
    discarded     \* history: how often each frame's prepared value was released

vars == <<q, drain, run, sock, attached, accepted, handled, discarded>>

ASSUME KindAssumption ==
    /\ Register \in Wide
    /\ Wide \subseteq Kind /\ Batchable \subseteq Kind /\ Stages \subseteq Kind

ASSUME LimitAssumption ==
    /\ FrameLimit \in Nat \ {0} /\ PressureCap \in Nat /\ RunLimit \in Nat \ {0}
    /\ ByteLimit \in Nat \ {0} /\ MaxFrames \in Nat
    /\ Inventories \subseteq Nat
    /\ SizeOf \in [Kind -> Nat]
    /\ \A k \in Kind : 2 * SizeOf[k] <= ByteLimit

FrameId == 1 .. MaxFrames

Frame == [id : FrameId, kind : Kind, prepared : BOOLEAN]

Ids(frames) == [i \in DOMAIN frames |-> frames[i].id]

Holding(frames) ==
    {frames[i].id : i \in {j \in DOMAIN frames : frames[j].prepared}}

(* The bytes of some frames one by one, so that their sum is a count.      *)
Units(frames) ==
    UNION {{frames[i].id} \X (1 .. SizeOf[frames[i].kind]) : i \in DOMAIN frames}

Bytes(frames) == Cardinality(Units(frames))

Init ==
    /\ q = [pending |-> <<>>, bytes |-> 0, closed |-> FALSE,
            pressured |-> FALSE, paused |-> FALSE, reserve |-> 0,
            frames |-> FrameLimit, preparedCount |-> 0,
            handlingRunnerWide |-> FALSE, asked |-> <<>>]
    /\ drain = "idle"
    /\ run = <<>>
    /\ sock = "open"
    /\ attached = FALSE
    /\ accepted = 0
    /\ handled = <<>>
    /\ discarded = [i \in FrameId |-> 0]

-----------------------------------------------------------------------------
(* The private methods, as functions of the queue's fields.  q.paused is   *)
(* the socket's own state, q.asked a history of the calls of prepare and   *)
(* whether they returned a value.                                          *)

(* Fault: a socket that is closing is left paused.                         *)
Obeys_OpenOnly(sk, paused) == sk = "open"

(* setRunnerReceivePressure: only an open socket is paused, but one whose  *)
(* close handshake is under way may still be resumed.                      *)
Obeys(sk, paused) ==
    \/ sk = "open"
    \/ ~paused /\ sk \in {"closing", "terminated"}

HighFrames(s) ==
    s.reserve + Max({1, Min({PressureCap, (s.frames - s.reserve) \div 2})})

(* Fault: reads pause only once the byte limit is reached.                 *)
UnderPressure_AtTheLimit(s) ==
    /\ ~s.closed
    /\ Len(s.pending) >= HighFrames(s) \/ s.bytes >= ByteLimit

UnderPressure(s) ==
    /\ ~s.closed
    /\ IF s.pressured
       THEN 2 * Len(s.pending) > HighFrames(s) \/ 8 * s.bytes > ByteLimit
       ELSE Len(s.pending) >= HighFrames(s) \/ 4 * s.bytes >= ByteLimit

UpdatePressure(s, sk) ==
    LET paused == UnderPressure(s)
    IN  [s EXCEPT !.pressured = paused,
                  !.paused = IF paused # s.pressured /\ Obeys(sk, paused)
                             THEN paused ELSE @]

(* prepareAhead: in arrival order, up to and including the first           *)
(* runner-wide frame.                                                      *)
PreparedTo(s) ==
    Max({n \in s.preparedCount .. Len(s.pending) :
            \A i \in Max({1, s.preparedCount}) .. n - 1 : s.pending[i].kind \notin Wide})

Prepare(s) ==
    LET to == PreparedTo(s)
        Returns(i) == s.pending[i].kind \in Stages
    IN  [s EXCEPT !.pending =
                      [i \in DOMAIN @ |->
                          IF i \in s.preparedCount + 1 .. to /\ Returns(i)
                          THEN [@[i] EXCEPT !.prepared = TRUE] ELSE @[i]],
                  !.preparedCount = to,
                  !.asked = @ \o [n \in 1 .. to - s.preparedCount |->
                      [id |-> s.pending[s.preparedCount + n].id,
                       value |-> Returns(s.preparedCount + n)]]]

(* Fault: prepares while a runner-wide frame is being handled.             *)
PrepareAhead_PastWide(s) == Prepare(s)

PrepareAhead(s) == IF s.handlingRunnerWide THEN s ELSE Prepare(s)

(* The frames taken for one handler call: one, or a run of batchable       *)
(* frames known to carry no prepared value.                                *)
JoinsRun(f) == f.kind \in Batchable /\ ~f.prepared

RunLength(s) ==
    Max({n \in 1 .. Min({RunLimit, Len(s.pending)}) :
            n = 1 \/ (n <= s.preparedCount /\ \A i \in 1 .. n : JoinsRun(s.pending[i]))})

(* Fault: the prepared prefix is not shortened with the queue.             *)
TakeNext_KeepsCount(s, n) ==
    [s EXCEPT !.pending = SubSeq(@, n + 1, Len(@)),
              !.bytes = @ - Bytes(SubSeq(s.pending, 1, n))]

(* Fault: the bytes of a taken frame stay counted.                         *)
TakeNext_KeepsBytes(s, n) ==
    [s EXCEPT !.pending = SubSeq(@, n + 1, Len(@)),
              !.preparedCount = Max({0, @ - n})]

TakeNext(s, n) ==
    [s EXCEPT !.pending = SubSeq(@, n + 1, Len(@)),
              !.preparedCount = Max({0, @ - n}),
              !.bytes = @ - Bytes(SubSeq(s.pending, 1, n))]

Push(s, k) ==
    [s EXCEPT !.pending = Append(@, [id |-> accepted + 1, kind |-> k, prepared |-> FALSE]),
              !.bytes = @ + SizeOf[k]]

(* Fault: the queue is emptied but stays open.                             *)
Dropped_StaysOpen(s, sk) ==
    UpdatePressure([s EXCEPT !.pending = <<>>, !.preparedCount = 0, !.bytes = 0], sk)

Dropped(s, sk) ==
    UpdatePressure([s EXCEPT !.closed = TRUE, !.pending = <<>>,
                             !.preparedCount = 0, !.bytes = 0], sk)

-----------------------------------------------------------------------------
(* What the steps share.                                                   *)

AnyWide(frames) == \E i \in DOMAIN frames : frames[i].kind \in Wide

(* drain() from the top of its loop with a frame waiting, up to the await  *)
(* of the handler.                                                         *)
BeginRun(s) ==
    \E ready \in {PrepareAhead(s)} : \E n \in {RunLength(ready)} :
    \E taken \in {SubSeq(ready.pending, 1, n)} :
    \E rest \in {TakeNext(ready, n)} : \E left \in {UpdatePressure(rest, sock)} :
    \E wide \in {[left EXCEPT !.handlingRunnerWide = AnyWide(taken)]} :
        /\ run' = taken
        /\ handled' = handled \o Ids(taken)
        /\ drain' = "handling"
        /\ q' = PrepareAhead(wide)

Discard(ids) ==
    discarded' = [i \in FrameId |-> discarded[i] + IF i \in ids THEN 1 ELSE 0]

(* Fault: the values prepared for dropped frames are not released.         *)
Close_KeepsStaged(s, sk, also) ==
    /\ q' = Dropped(s, sk)
    /\ Discard(also)

(* close(): releases what was prepared for the frames it drops; `also` are *)
(* the values a returning handler releases itself.                         *)
Close(s, sk, also) ==
    /\ q' = Dropped(s, sk)
    /\ Discard(Holding(SubSeq(s.pending, 1, s.preparedCount)) \cup also)

(* onFailure: terminates the socket.                                       *)
Terminate == sock' = IF sock = "closed" THEN sock ELSE "terminated"

(* A run of several frames is given to the handler without its prepared    *)
(* values; a single frame's value is released when its handler ends.       *)
InHand == IF Len(run) = 1 THEN Holding(run) ELSE {}

-----------------------------------------------------------------------------
(* The socket's message listener.                                          *)

(* A frame passes the listener when the socket speaks for its runner or    *)
(* asks to.                                                                *)
Authorized(k) == sock # "closed" /\ (attached \/ k = Register)

Overflows(s, k) == Len(s.pending) >= s.frames \/ s.bytes + SizeOf[k] > ByteLimit

Enqueue(k) ==
    /\ Authorized(k)
    /\ ~q.closed
    /\ ~Overflows(q, k)
    /\ accepted < MaxFrames
    /\ accepted' = accepted + 1
    /\ \E longer \in {Push(q, k)} : \E loaded \in {UpdatePressure(longer, sock)} :
       \E pushed \in {PrepareAhead(loaded)} :
           IF drain = "idle"
           THEN BeginRun(pushed)
           ELSE q' = pushed /\ UNCHANGED <<drain, run, handled>>
    /\ UNCHANGED <<sock, attached, discarded>>

EnqueueOverflow(k) ==
    /\ Authorized(k)
    /\ ~q.closed
    /\ Overflows(q, k)
    /\ Close(q, sock, {})
    /\ Terminate
    /\ UNCHANGED <<drain, run, attached, accepted, handled>>

-----------------------------------------------------------------------------
(* The drain loop.                                                         *)

(* The registration handler attaches the socket and reserves room for the  *)
(* inventory its acknowledgement invites.                                  *)
ReserveInventory(n) ==
    /\ drain = "handling" /\ run[1].kind = Register /\ sock = "open"
    /\ attached' = TRUE
    /\ q' = [q EXCEPT !.reserve = Max({@, n}),
                      !.frames = Max({@, n + FrameLimit})]
    /\ UNCHANGED <<drain, run, sock, accepted, handled, discarded>>

HandlerReturns ==
    /\ drain = "handling"
    /\ \E ended \in {[q EXCEPT !.handlingRunnerWide = FALSE]} : q' = PrepareAhead(ended)
    /\ Discard(InHand)
    /\ run' = <<>>
    /\ drain' = "yielding"
    /\ UNCHANGED <<sock, attached, accepted, handled>>

HandlerThrows ==
    /\ drain = "handling"
    /\ Close([q EXCEPT !.handlingRunnerWide = FALSE], sock, InHand)
    /\ Terminate
    /\ run' = <<>>
    /\ drain' = "idle"
    /\ UNCHANGED <<attached, accepted, handled>>

(* The setImmediate resolves: round the loop.                              *)
NextTurn ==
    /\ drain = "yielding"
    /\ CASE q.closed -> drain' = "idle" /\ UNCHANGED <<q, run, handled>>
         [] ~q.closed /\ q.pending = <<>> -> drain' = "flushing" /\ UNCHANGED <<q, run, handled>>
         [] OTHER -> BeginRun(q)
    /\ UNCHANGED <<sock, attached, accepted, discarded>>

(* Fault: the loop ends without looking at the queue again.                *)
Flushed_NoRecheck ==
    /\ drain = "flushing"
    /\ drain' = "idle"
    /\ UNCHANGED <<q, run, handled, sock, attached, accepted, discarded>>

(* afterDrain resolves: frames may have arrived while it yielded.          *)
Flushed ==
    /\ drain = "flushing"
    /\ IF q.pending = <<>>
       THEN drain' = "idle" /\ UNCHANGED <<q, run, handled>>
       ELSE BeginRun(q)
    /\ UNCHANGED <<sock, attached, accepted, discarded>>

FlushThrows ==
    /\ drain = "flushing"
    /\ Close(q, sock, {})
    /\ Terminate
    /\ drain' = "idle"
    /\ UNCHANGED <<run, attached, accepted, handled>>

-----------------------------------------------------------------------------
(* The socket.                                                             *)

(* A graceful close: a malformed frame, a revoked credential, a shutdown.  *)
StartClose ==
    /\ sock = "open"
    /\ sock' = "closing"
    /\ UNCHANGED <<q, drain, run, attached, accepted, handled, discarded>>

(* A newer connection of the same runner takes over.                       *)
Replaced ==
    /\ attached
    /\ attached' = FALSE
    /\ UNCHANGED <<q, drain, run, sock, accepted, handled, discarded>>

(* The close event: onGone.                                                *)
Gone ==
    /\ sock' = "closed"
    /\ Close(q, "closed", {})
    /\ attached' = FALSE
    /\ UNCHANGED <<drain, run, accepted, handled>>

(* The peer's close frame is read, which a paused socket cannot do.        *)
PeerAnswersClose == sock = "closing" /\ ~q.paused /\ Gone

SocketDestroyed == sock = "terminated" /\ Gone

ConnectionLost == sock \in {"open", "closing"} /\ Gone

-----------------------------------------------------------------------------
Next ==
    \/ \E k \in Kind : Enqueue(k) \/ EnqueueOverflow(k)
    \/ \E n \in Inventories : ReserveInventory(n)
    \/ HandlerReturns \/ HandlerThrows
    \/ NextTurn \/ Flushed \/ FlushThrows
    \/ StartClose \/ Replaced
    \/ PeerAnswersClose \/ SocketDestroyed \/ ConnectionLost

(* Promises settle: a handler ends, setImmediate fires, the flush returns. *)
(* A peer that can be read answers a close.  Nothing is owed by the peer's *)
(* traffic or the network.                                                 *)
Fairness ==
    /\ WF_vars(HandlerReturns \/ HandlerThrows)
    /\ WF_vars(NextTurn)
    /\ WF_vars(Flushed \/ FlushThrows)
    /\ WF_vars(PeerAnswersClose)
    /\ WF_vars(SocketDestroyed)

Spec == Init /\ [][Next]_vars /\ Fairness

-----------------------------------------------------------------------------
(* The fields of the queue and of the loop have their types.               *)
TypeOK ==
    /\ q.pending \in Seq(Frame) /\ run \in Seq(Frame)
    /\ {q.closed, q.pressured, q.paused, q.handlingRunnerWide, attached} \subseteq BOOLEAN
    /\ q.preparedCount \in 0 .. Len(q.pending)
    /\ q.bytes \in 0 .. ByteLimit /\ q.frames \in Nat /\ q.reserve \in Nat
    /\ drain \in {"idle", "handling", "yielding", "flushing"}
    /\ sock \in {"open", "closing", "terminated", "closed"}
    /\ accepted \in 0 .. MaxFrames
    /\ handled \in Seq(FrameId)
    /\ q.asked \in Seq([id : FrameId, value : BOOLEAN])
    /\ discarded \in [FrameId -> Nat]

(* Frames reach their handlers in arrival order with none skipped, and the *)
(* only frames missing from the queue's tail are those close() dropped:    *)
(* runs, the early return of enqueue and the yields of drain() included.   *)
InArrivalOrder ==
    LET order == handled \o Ids(q.pending)
    IN  /\ order = [i \in 1 .. Len(order) |-> i]
        /\ q.closed \/ Len(order) = accepted

(* prepareAhead never starts the durable write of a frame before every     *)
(* earlier frame about the whole runner has been handled to its end, and   *)
(* no run carries a frame past such a one.                                 *)
NothingPastWide ==
    /\ \A i \in 1 .. q.preparedCount, j \in FrameId :
           j < i => q.pending[j].kind \notin Wide
    /\ \A i \in DOMAIN run :
           run[i].kind \in Wide => i = Len(run) /\ q.preparedCount = 0

(* prepare is called once for each frame, in the order of arrival, and the  *)
(* value it returns is held by exactly one owner, the queued frame or the  *)
(* handler, or has been released exactly once: close(), a throwing         *)
(* handler and frames that arrive after the close leak nothing.            *)
StagedOnce ==
    LET held == Holding(q.pending) \cup Holding(run)
        Returned(i) == i \in DOMAIN q.asked /\ q.asked[i].value
    IN  /\ \A n \in DOMAIN q.asked : q.asked[n].id = n
        /\ \A i \in FrameId :
               discarded[i] = IF Returned(i) /\ i \notin held THEN 1 ELSE 0
        /\ q.closed => q.pending = <<>>

(* What is prepared ahead is prepared in time and released once.           *)
PreparationInv == NothingPastWide /\ StagedOnce

(* A paused socket has frames waiting and a loop that will take them, so   *)
(* that some later updatePressure resumes it.                              *)
PausedOnlyWithWork ==
    q.paused /\ sock # "closed" => q.pending # <<>> /\ drain # "idle"

(* The queue keeps the order of arrival, and its pause keeps a way out.    *)
QueueInv == TypeOK /\ InArrivalOrder /\ PausedOnlyWithWork

(* Reads pause below the hard limits: a frame that arrives on an open      *)
(* socket which is being read always fits, also after an inventory moved   *)
(* the limits, so a runner that honours the pause is never cut off.        *)
RoomWhileReading ==
    sock = "open" /\ ~q.paused /\ ~q.closed => \A k \in Kind : ~Overflows(q, k)

(* A frame that was accepted is handed to its handler unless the queue     *)
(* closes first, whatever the loop was waiting for when it arrived.        *)
FramesAreHandled ==
    \A i \in FrameId : (accepted >= i) ~> (i \in Range(handled) \/ q.closed)

(* A graceful close ends: setRunnerReceivePressure resumes a paused socket *)
(* that is closing, so that the peer's answer is read.                     *)
CloseHandshakeEnds == (sock = "closing") ~> (sock # "closing")
=============================================================================
