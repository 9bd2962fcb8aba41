--------------------------- MODULE OutboundEvents ---------------------------
(***************************************************************************)
(* Webhook deliveries of the control plane (outbound-events.ts, and the    *)
(* tables of db.ts under it): events staged for subscriptions, attempts    *)
(* under a lease, retries, secret rotation, revocation, pauses, shutdown,  *)
(* crashes and the compaction of old receipts.                             *)
(*                                                                         *)
(* Aborting a request settles it in the microtasks that follow, before any *)
(* timer runs: rotation, revocation and shutdown are one step each.        *)
(***************************************************************************)
EXTENDS Naturals, FiniteSets

CONSTANTS
    Sub,           \* subscriptions
    Source,        \* source keys of events
    Large,         \* those whose body exceeds the limit
    PendingLimit,  \* OUTBOUND_EVENT_PENDING_LIMIT
    Concurrency,   \* OUTBOUND_EVENT_MAX_CONCURRENCY
    Retries,       \* length of OUTBOUND_EVENT_RETRY_DELAYS_MS
    PauseAfter,    \* consecutive permanent failures that pause
    MaxRotations, MaxFaults  \* bounds

VARIABLES
    sub,           \* outbound_event_subscriptions
    events,        \* outbound_events: source keys
    row,           \* outbound_event_deliveries, per subscription and source
    due, before,   \* rows whose next_attempt_at has come, and their order
    expired,       \* rows whose lease has expired
    inFlight,      \* running attempts
    tick,          \* activeTick
    faults,        \* bound: crashes, shutdowns and failed writes
    staged,        \* history: how often a recorded source was staged
    tries          \* history: attempts of the row that came to something

queue == <<due, before>>
vars == <<sub, events, row, queue, expired, inFlight, tick, faults, staged,
          tries>>

Delivery == Sub \X Source
Open == {"pending", "retrying", "delivering"}
Status == Open \cup {"none", "delivered", "failed", "dropped"}

ASSUME BoundsAssumption ==
    /\ IsFiniteSet(Sub) /\ IsFiniteSet(Source) /\ Large \subseteq Source
    /\ {PendingLimit, Concurrency, PauseAfter} \subseteq Nat \ {0}
    /\ {Retries, MaxRotations, MaxFaults} \subseteq Nat

\* lease is the last lease of the row, by the one that recorded its outcome.
NoRow == [status |-> "none", attempts |-> 0, lease |-> 0, by |-> 0]

Init ==
    /\ sub = [s \in Sub |-> [state |-> "active", revoked |-> FALSE,
                             secret |-> 0, failures |-> 0]]
    /\ events = {}
    /\ row = [d \in Delivery |-> NoRow]
    /\ due = {} /\ before = {} /\ expired = {}
    /\ inFlight = {} /\ tick = FALSE
    /\ faults = 0
    /\ staged = [d \in Delivery |-> 0]
    /\ tries = [d \in Delivery |-> 0]

Active(s) == sub[s].state = "active" /\ ~sub[s].revoked
OpenOf(s) == {e \in Source : row[<<s, e>>].status \in Open}

\* left stay due, and new fall due after them.
Queued(left, new) ==
    /\ due' = left \cup new
    /\ before' = (before \cap (left \X left)) \cup (left \X new)

-----------------------------------------------------------------------------
(* Staging.                                                                *)

\* Fault: rows that wait for a retry are not counted.
Full_Pending(s) ==
    Cardinality({e \in Source : row[<<s, e>>].status = "pending"})
        >= PendingLimit

Full(s) == Cardinality(OpenOf(s)) >= PendingLimit

\* Fault: the key is not looked up.
IsNew_Always(e) == TRUE

IsNew(e) == e \notin events

\* enqueueOutboundSessionEventInTransaction: a subscription that cannot take
\* the event is paused.
Enqueue(e) ==
    /\ IsNew(e)
    /\ \E s \in Sub : Active(s)
    /\ events' = events \cup {e}
    /\ \E takes \in {{s \in Sub : Active(s) /\ ~Full(s) /\ e \notin Large}} :
         /\ sub' = [s \in Sub |-> IF Active(s) /\ s \notin takes
                                  THEN [sub[s] EXCEPT !.state = "paused"]
                                  ELSE sub[s]]
         /\ \E new \in {takes \X {e}} :
              /\ row' = [d \in Delivery |->
                           IF d \in new
                           THEN [NoRow EXCEPT !.status = "pending"]
                           ELSE row[d]]
              /\ Queued(due, new)
              /\ staged' = [d \in Delivery |->
                              IF d \in new THEN staged[d] + 1 ELSE staged[d]]
              /\ tries' = [d \in Delivery |->
                             IF d \in new THEN 0 ELSE tries[d]]
    /\ UNCHANGED <<expired, inFlight, tick, faults>>

-----------------------------------------------------------------------------
(* Attempts.                                                               *)

\* Fault: a row whose process died stays leased.
Recovered_None == {}

\* The rows whose lease has expired before a receipt was recorded.
Recovered == expired

\* The first n of the rows that may be claimed, those recovered last.
First(claimed, rows, n) ==
    /\ claimed \subseteq rows /\ Cardinality(claimed) <= n
    /\ claimed # rows => Cardinality(claimed) = n
    /\ \A c \in claimed, d \in rows \ claimed :
         <<d, c>> \notin before \cup (due \X Recovered)

\* Fault: what an abandoned tick left running is not counted.
Capacity_Whole == Concurrency

Capacity == Concurrency - Cardinality(inFlight)

\* tick and claimOutboundEventDeliveries.
Tick ==
    /\ ~tick /\ Capacity > 0
    /\ \E claimed \in SUBSET (due \cup Recovered) :
         /\ First(claimed, {d \in due \cup Recovered : Active(d[1])}, Capacity)
         /\ row' = [d \in Delivery |->
              IF d \in claimed
              THEN [row[d] EXCEPT !.status = "delivering", !.by = 0,
                                  !.attempts = @ + 1, !.lease = @ + 1]
              ELSE IF d \in Recovered
              THEN [row[d] EXCEPT !.status = "retrying"]
              ELSE row[d]]
         /\ Queued(due \ claimed, Recovered \ claimed)
         /\ inFlight' = inFlight \cup
              {[d |-> d, lease |-> row[d].lease + 1,
                attempt |-> row[d].attempts + 1,
                secret |-> sub[d[1]].secret, late |-> FALSE] : d \in claimed}
    /\ expired' = expired \ Recovered
    /\ tries' = [d \in Delivery |->
                   IF d \in Recovered THEN tries[d] + 1 ELSE tries[d]]
    /\ tick' = TRUE
    /\ UNCHANGED <<sub, events, faults, staged>>

\* Fault: the lease is not compared.
Holds_Any(a) == row[a.d].status = "delivering"

\* The condition of settleOutboundEventDelivery.
Holds(a) == row[a.d].status = "delivering" /\ row[a.d].lease = a.lease

Settled(a, status) ==
    /\ row' = [row EXCEPT ![a.d].status = status, ![a.d].by = a.lease]
    /\ tries' = [tries EXCEPT ![a.d] = @ + 1]
    /\ expired' = expired \ {a.d}

\* A failure of the subscription, which pauses it or is counted.
Failed(s, pauses) ==
    /\ ~sub[s].revoked
    /\ sub' = [sub EXCEPT
         ![s].failures = IF @ < PauseAfter THEN @ + 1 ELSE @,
         ![s].state = IF pauses \/ sub[s].failures + 1 >= PauseAfter
                      THEN "paused" ELSE @]

\* Retryable: no answer, a timeout or a 5xx.
GivesUp(a, outcome) == outcome = "retryable" /\ a.attempt > Retries

\* deliver from the answer on, when the attempt still holds its lease.
Settle(a, outcome) ==
    /\ Holds(a)
    /\ \/ /\ outcome = "accepted"
          /\ Settled(a, "delivered")
          /\ sub' = [sub EXCEPT ![a.d[1]].failures = 0]
       \/ /\ outcome = "retryable" /\ ~GivesUp(a, outcome)
          /\ Settled(a, "retrying")
          /\ UNCHANGED sub
       \/ /\ outcome \in {"gone", "permanent"} \/ GivesUp(a, outcome)
          /\ Settled(a, "failed")
          /\ Failed(a.d[1], outcome = "gone" \/ GivesUp(a, outcome))

Ends(a) ==
    /\ \/ \E outcome \in {"accepted", "retryable", "gone", "permanent"} :
            Settle(a, outcome)
       \/ ~Holds(a) /\ UNCHANGED <<row, tries, expired, sub>>
    /\ inFlight' = inFlight \ {a}
    /\ UNCHANGED <<events, queue, tick, faults, staged>>

\* The settlement cannot be written: the tick is over, the other attempts
\* go on without it.
SettleThrows(a) ==
    /\ faults < MaxFaults
    /\ faults' = faults + 1
    /\ inFlight' = {[b EXCEPT !.late = @ \/ ~a.late] : b \in inFlight \ {a}}
    /\ tick' = (tick /\ a.late)
    /\ UNCHANGED <<sub, events, row, queue, expired, staged, tries>>

\* A delivery of the event is left.
Recorded(e, old) ==
    \E s \in Sub : <<s, e>> \notin old /\ row[<<s, e>>] # NoRow

\* compactOutboundEventDeliveries: receipts of thirty days, whose attempts
\* are long over, and events with no delivery left.
TickEnds ==
    /\ tick /\ \A a \in inFlight : a.late
    /\ tick' = FALSE
    /\ \E old \in SUBSET {d \in Delivery :
                            /\ row[d].status \notin Open \cup {"none"}
                            /\ \A a \in inFlight : a.d # d} :
         /\ row' = [d \in Delivery |-> IF d \in old THEN NoRow ELSE row[d]]
         /\ events' = {e \in events : Recorded(e, old)}
         /\ staged' = [d \in Delivery |->
                         IF Recorded(d[2], old) THEN staged[d] ELSE 0]
    /\ UNCHANGED <<sub, queue, expired, inFlight, faults, tries>>

\* The retry delay is over.
Due(d) ==
    /\ row[d].status = "retrying" /\ d \notin due
    /\ Queued(due, {d})
    /\ UNCHANGED <<sub, events, row, expired, inFlight, tick, faults, staged,
                   tries>>

LeaseExpires(d) ==
    /\ row[d].status = "delivering" /\ d \notin expired
    /\ expired' = expired \cup {d}
    /\ UNCHANGED <<sub, events, row, queue, inFlight, tick, faults, staged,
                   tries>>

-----------------------------------------------------------------------------
(* Administration, shutdown and crash.                                     *)

AttemptsOf(s) == {a \in inFlight : a.d[1] = s}

\* Fault: an aborted attempt is spent.
Refund_Spent(n) == n

\* A deferred attempt is not consumed.
Refund(n) == n - 1

\* The settlement "deferred" of aborted attempts: due at once.
Deferred(aborted) ==
    \E held \in {{a.d : a \in {b \in aborted : Holds(b)}}} :
        /\ row' = [d \in Delivery |->
             IF d \in held
             THEN [row[d] EXCEPT !.status = "retrying",
                                 !.attempts = Refund(@)]
             ELSE row[d]]
        /\ Queued(due, held)
        /\ expired' = expired \ held
        /\ inFlight' = inFlight \ aborted

\* Fault: requests under way go on with the old key.
Rotated_Not(s) == {}

\* The requests that rotate aborts.
Rotated(s) == AttemptsOf(s)

Rotate(s) ==
    /\ ~sub[s].revoked /\ sub[s].secret < MaxRotations
    /\ Deferred(Rotated(s))
    /\ sub' = [sub EXCEPT ![s].secret = @ + 1]
    /\ UNCHANGED <<events, tick, faults, staged, tries>>

Resume(s) ==
    /\ ~sub[s].revoked
    /\ sub[s].state = "paused" \/ sub[s].failures > 0
    /\ sub' = [sub EXCEPT ![s].state = "active", ![s].failures = 0]
    /\ UNCHANGED <<events, row, queue, expired, inFlight, tick, faults, staged,
                   tries>>

\* Fault: rows that are being delivered are left to their attempt.
Drops_Waiting(status) == status \in {"pending", "retrying"}

Drops(status) == status \in Open

\* revoke: requests are aborted and never settled, open rows dropped.
Revoke(s) ==
    /\ ~sub[s].revoked
    /\ sub' = [sub EXCEPT ![s].revoked = TRUE]
    /\ inFlight' = inFlight \ AttemptsOf(s)
    /\ \E dropped \in {{d \in Delivery : d[1] = s /\ Drops(row[d].status)}} :
         /\ row' = [d \in Delivery |->
                      IF d \in dropped
                      THEN [row[d] EXCEPT !.status = "dropped"]
                      ELSE row[d]]
         /\ Queued(due \ dropped, {})
         /\ expired' = expired \ dropped
    /\ UNCHANGED <<events, tick, faults, staged, tries>>

\* close, and the next start.
Shutdown ==
    /\ inFlight # {} /\ faults < MaxFaults
    /\ faults' = faults + 1
    /\ Deferred(inFlight)
    /\ tick' = FALSE
    /\ UNCHANGED <<sub, events, staged, tries>>

Crash ==
    /\ inFlight # {} /\ faults < MaxFaults
    /\ faults' = faults + 1
    /\ inFlight' = {} /\ tick' = FALSE
    /\ UNCHANGED <<sub, events, row, queue, expired, staged, tries>>

Next ==
    \/ \E e \in Source : Enqueue(e)
    \/ Tick \/ TickEnds \/ Shutdown \/ Crash
    \/ \E a \in inFlight : Ends(a) \/ SettleThrows(a)
    \/ \E d \in Delivery : Due(d) \/ LeaseExpires(d)
    \/ \E s \in Sub : Rotate(s) \/ Resume(s) \/ Revoke(s)

Spec == Init /\ [][Next]_vars

\* Attempts end by their timeout, timers run, time passes.
FairSpec ==
    /\ Spec
    /\ WF_vars(Tick) /\ WF_vars(TickEnds)
    /\ WF_vars(\E a \in inFlight : Ends(a))
    /\ \A d \in Delivery : WF_vars(Due(d)) /\ WF_vars(LeaseExpires(d))

-----------------------------------------------------------------------------
(* Properties.                                                             *)

\* The shape of the tables; the queue holds rows that wait, each in one
\* place, and every new row.
TypeOK ==
    /\ \A d \in Delivery : row[d].status \in Status
    /\ \A d \in due : row[d].status \in {"pending", "retrying"}
    /\ before \subseteq due \X due
    /\ \A p \in before : <<p[2], p[1]>> \notin before
    /\ \A d \in expired : row[d].status = "delivering"
    /\ \A d \in Delivery : row[d].status = "pending" => d \in due
    /\ Cardinality(inFlight) <= Concurrency

\* "At most 100 pending, retrying, or leased deliveries per subscription."
PendingBound == \A s \in Sub : Cardinality(OpenOf(s)) <= PendingLimit

\* "Rotation invalidates the previous key immediately and aborts in-flight
\* requests", and revocation too: whatever is under way bears the current
\* key of a subscription that stands.
KeyIsCurrent ==
    \A a \in inFlight :
        a.secret = sub[a.d[1]].secret /\ ~sub[a.d[1]].revoked

\* Revocation "drops every pending delivery": none is left, or comes back.
RevokedIsEmpty == \A s \in Sub : sub[s].revoked => OpenOf(s) = {}

\* Rotation and revocation take effect at once and for good.
KeyInv == KeyIsCurrent /\ RevokedIsEmpty

\* Attempts are counted when they came to something: rotation and shutdown
\* abort "without consuming a delivery attempt", a crash consumes one.
AttemptsAreTries ==
    \A d \in Delivery : row[d].status \in Open =>
        row[d].attempts
            = tries[d] + (IF row[d].status = "delivering" THEN 1 ELSE 0)

\* A receipt is that of the latest attempt: one that outlived its lease
\* settles nothing.
ReceiptOfLatest ==
    \A d \in Delivery : row[d].status \in {"delivered", "failed"} =>
        row[d].by = row[d].lease

\* What a row says of its attempts is what happened to them.
ReceiptInv == AttemptsAreTries /\ ReceiptOfLatest

\* "A stable source key suppresses duplicate staging when the same runner
\* snapshot or input-request occurrence is observed again": for as long as
\* one delivery of the event is on record.
StagedOnce == \A d \in Delivery : staged[d] <= 1

\* The tables, the queue and the attempts under way agree within the limits.
TableInv == TypeOK /\ PendingBound /\ StagedOnce

\* Every delivery of a subscription that stays active comes to an end,
\* crashes included.
Settles ==
    \A d \in Delivery :
        row[d].status \in Open ~> (row[d].status \notin Open
                                   \/ sub[d[1]].state = "paused")
=============================================================================
