------------------------ MODULE OutboundEvents_proofs ------------------------
(***************************************************************************)
(* Proofs about OutboundEvents, for any finite sets of subscriptions and   *)
(* sources, any limits and any number of faults: the tables agree within   *)
(* their limits, rotation and revocation take effect at once, and a row    *)
(* counts and records the attempts it had.                                 *)
(***************************************************************************)
EXTENDS OutboundEvents, FiniteSetTheorems, FunctionTheorems, TLAPS

Subscription == [state : {"active", "paused"}, revoked : BOOLEAN,
                 secret : Nat, failures : Nat]
Row == [status : Status, attempts : Nat, lease : Nat, by : Nat]
Attempt == [d : Delivery, lease : Nat, attempt : Nat, secret : Nat,
            late : BOOLEAN]

Typed ==
    /\ sub \in [Sub -> Subscription] /\ row \in [Delivery -> Row]
    /\ tries \in [Delivery -> Nat] /\ staged \in [Delivery -> Nat]
    /\ events \subseteq Source
    /\ due \subseteq Delivery /\ expired \subseteq Delivery
    /\ inFlight \subseteq Attempt

\* Rows that wait are in one place of the queue, leased rows in none.
Waiting ==
    /\ \A d \in due : row[d].status \in {"pending", "retrying"}
    /\ before \subseteq due \X due
    /\ \A p \in before : <<p[2], p[1]>> \notin before
    /\ \A d \in expired : row[d].status = "delivering"
    /\ \A d \in Delivery : row[d].status = "pending" => d \in due

\* An open row belongs to a subscription that stands and was tried as often
\* as it says; a receipt is of the last lease; a row has its event on record.
RowTrue(d) ==
    /\ row[d].status \in Open =>
         /\ ~sub[d[1]].revoked
         /\ row[d].attempts
              = tries[d] + (IF row[d].status = "delivering" THEN 1 ELSE 0)
    /\ row[d].status \in {"delivered", "failed"} => row[d].by = row[d].lease
    /\ row[d] # NoRow => d[2] \in events
    /\ staged[d] <= 1 /\ (staged[d] # 0 => d[2] \in events)

Rows == \A d \in Delivery : RowTrue(d)

\* What is under way fits, and bears the key of a subscription that stands.
Attempts ==
    /\ IsFiniteSet(inFlight) /\ Cardinality(inFlight) <= Concurrency
    /\ KeyIsCurrent

\* Inductive.
IInv == Typed /\ Waiting /\ Rows /\ Attempts /\ PendingBound

-----------------------------------------------------------------------------
(* Deliveries, the queue and the bounds.                                   *)

LEMMA Pairs ==
    /\ \A d \in Delivery : d[1] \in Sub /\ d[2] \in Source /\ d = <<d[1], d[2]>>
    /\ \A s \in Sub, e \in Source : <<s, e>> \in Delivery
BY DEF Delivery

LEMMA Words ==
    /\ Open \subseteq Status /\ {"none", "delivered", "failed", "dropped"} \subseteq Status
    /\ NoRow \in Row /\ NoRow.status = "none"
BY DEF Open, Status, NoRow, Row

\* What falls due is queued behind what was.
LEMMA QueuedKeeps ==
    ASSUME before \subseteq due \X due,
           \A p \in before : <<p[2], p[1]>> \notin before,
           NEW left, NEW new, left \cap new = {}, Queued(left, new)
    PROVE  /\ due' = left \cup new
           /\ before' \subseteq due' \X due'
           /\ \A p \in before' : <<p[2], p[1]>> \notin before'
<1>1. /\ due' = left \cup new
      /\ before' = (before \cap (left \X left)) \cup (left \X new)
  BY DEF Queued
<1>2. before' \subseteq due' \X due'
  BY <1>1
<1>3. ASSUME NEW p \in before', <<p[2], p[1]>> \in before'
      PROVE  FALSE
  <2>1. CASE p \in left \X new
    BY <1>1, <1>3, <2>1
  <2>2. CASE p \in before /\ p \in left \X left
    <3>1. <<p[2], p[1]>> \notin left \X new
      BY <2>2
    <3> QED
      BY <1>1, <1>3, <2>2, <3>1
  <2> QED
    BY <1>1, <2>1, <2>2
<1> QED
  BY <1>1, <1>2, <1>3

LEMMA OpenFinite ==
    \A s : IsFiniteSet(OpenOf(s)) /\ Cardinality(OpenOf(s)) \in Nat
<1> TAKE s
<1>1. OpenOf(s) \in SUBSET Source
  BY DEF OpenOf
<1> QED
  BY <1>1, FS_Subset, FS_CardinalityType, BoundsAssumption

\* No row opens: the bound holds as before.
LEMMA BoundKept ==
    ASSUME PendingBound,
           \A d \in Delivery : row'[d].status \in Open => row[d].status \in Open
    PROVE  PendingBound'
<1> SUFFICES ASSUME NEW s \in Sub
             PROVE  Cardinality(OpenOf(s)') <= PendingLimit
  BY DEF PendingBound
<1>1. OpenOf(s)' \in SUBSET OpenOf(s)
  BY Pairs DEF OpenOf
<1>2. /\ IsFiniteSet(OpenOf(s)) /\ Cardinality(OpenOf(s)) \in Nat
      /\ Cardinality(OpenOf(s)) <= PendingLimit
  BY OpenFinite DEF PendingBound
<1>3. /\ IsFiniteSet(OpenOf(s)')
      /\ Cardinality(OpenOf(s)') <= Cardinality(OpenOf(s))
  BY <1>1, <1>2, FS_Subset
<1>4. Cardinality(OpenOf(s)') \in Nat /\ PendingLimit \in Nat
  BY <1>3, FS_CardinalityType, BoundsAssumption
<1> QED
  BY <1>2, <1>3, <1>4

\* Fewer attempts, of subscriptions whose keys stand.
LEMMA FewerAttempts ==
    ASSUME Typed, Attempts, inFlight' \subseteq inFlight,
           \A a \in inFlight' :
             /\ sub'[a.d[1]].secret = sub[a.d[1]].secret
             /\ sub'[a.d[1]].revoked = sub[a.d[1]].revoked
    PROVE  inFlight' \subseteq Attempt /\ Attempts'
<1>1. inFlight' \in SUBSET inFlight /\ IsFiniteSet(inFlight)
  BY DEF Attempts
<1>2. /\ IsFiniteSet(inFlight')
      /\ Cardinality(inFlight') <= Cardinality(inFlight)
  BY <1>1, FS_Subset
<1>3. Cardinality(inFlight') \in Nat /\ Cardinality(inFlight) \in Nat
  BY <1>1, <1>2, FS_CardinalityType
<1>4. Cardinality(inFlight') <= Concurrency
  BY <1>2, <1>3, BoundsAssumption DEF Attempts
<1>5. KeyIsCurrent'
  BY DEF Attempts, KeyIsCurrent
<1> QED
  BY <1>2, <1>4, <1>5 DEF Attempts, Typed

-----------------------------------------------------------------------------
(* Staging.                                                                *)

LEMMA EnqueueStep ==
    ASSUME IInv, NEW e \in Source, Enqueue(e)
    PROVE  IInv'
<1> DEFINE takes == {s \in Sub : Active(s) /\ ~Full(s) /\ e \notin Large}
           new == takes \X {e}
<1>0. /\ takes \subseteq Sub
      /\ \A s \in takes : Active(s) /\ ~Full(s)
      /\ \A d : d \in new <=> d \in takes \X {e}
  OBVIOUS
<1>1. /\ sub' = [s \in Sub |-> IF Active(s) /\ s \notin takes
                               THEN [sub[s] EXCEPT !.state = "paused"]
                               ELSE sub[s]]
      /\ row' = [d \in Delivery |-> IF d \in new
                                    THEN [NoRow EXCEPT !.status = "pending"]
                                    ELSE row[d]]
      /\ Queued(due, new)
      /\ staged' = [d \in Delivery |->
                      IF d \in new THEN staged[d] + 1 ELSE staged[d]]
      /\ tries' = [d \in Delivery |-> IF d \in new THEN 0 ELSE tries[d]]
  BY DEF Enqueue
<1> HIDE DEF takes, new
<1>2. /\ e \notin events /\ events' = events \cup {e}
      /\ expired' = expired /\ inFlight' = inFlight
  BY DEF Enqueue, IsNew
<1> DEFINE fresh == [NoRow EXCEPT !.status = "pending"]
<1>3. /\ fresh \in Row /\ fresh.status = "pending" /\ fresh.attempts = 0
      /\ fresh # NoRow
  BY DEF NoRow, Row, Status, Open
<1> HIDE DEF fresh
<1>4. \A d \in Delivery : row'[d] = IF d \in new THEN fresh ELSE row[d]
  BY <1>1 DEF fresh
<1>5. /\ new \subseteq Delivery
      /\ \A d \in new : d[1] \in takes /\ d[2] = e
  BY <1>0 DEF Delivery
<1>6. \A d \in new : row[d] = NoRow /\ staged[d] = 0
  BY <1>2, <1>5, Pairs DEF IInv, Rows, RowTrue
<1>7. new \cap due = {} /\ new \cap expired = {}
  BY <1>6, Words DEF IInv, Waiting
<1>8. \A s \in Sub : /\ sub'[s] \in Subscription
                     /\ sub'[s].revoked = sub[s].revoked
                     /\ sub'[s].secret = sub[s].secret
  <2> TAKE s \in Sub
  <2>1. sub[s] \in Subscription
    BY DEF IInv, Typed
  <2>2. sub'[s] = [sub[s] EXCEPT !.state = "paused"] \/ sub'[s] = sub[s]
    BY <1>1
  <2> QED
    BY <2>1, <2>2 DEF Subscription
<1>9. \A a \in inFlight : a.d[1] \in Sub
  BY Pairs DEF IInv, Typed, Attempt
<1>10. Attempts' /\ inFlight' \subseteq Attempt
  BY <1>2, <1>8, <1>9, FewerAttempts DEF IInv
<1>11. Typed'
  <2>1. sub' \in [Sub -> Subscription]
    BY <1>1, <1>8
  <2>2. row' \in [Delivery -> Row]
    <3>1. row' = [d \in Delivery |-> row'[d]]
      BY <1>1
    <3> QED
      BY <1>3, <1>4, <3>1 DEF IInv, Typed
  <2>3. staged' \in [Delivery -> Nat] /\ tries' \in [Delivery -> Nat]
    BY <1>1 DEF IInv, Typed
  <2>4. due' \subseteq Delivery
    BY <1>1, <1>5 DEF Queued, IInv, Typed
  <2> QED
    BY <1>2, <1>10, <2>1, <2>2, <2>3, <2>4 DEF IInv, Typed
<1>12. Waiting'
  <2>1. /\ due' = due \cup new
        /\ before' \subseteq due' \X due'
        /\ \A p \in before' : <<p[2], p[1]>> \notin before'
    BY <1>1, <1>7, QueuedKeeps DEF IInv, Waiting
  <2>2. \A d \in due' : row'[d].status \in {"pending", "retrying"}
    BY <1>3, <1>4, <1>5, <2>1 DEF IInv, Waiting, Typed
  <2>3. \A d \in expired : row'[d].status = "delivering"
    BY <1>4, <1>7 DEF IInv, Waiting, Typed
  <2>4. \A d \in Delivery : row'[d].status = "pending" => d \in due'
    BY <1>4, <2>1 DEF IInv, Waiting
  <2> QED
    BY <1>2, <2>1, <2>2, <2>3, <2>4 DEF Waiting
<1>13. Rows'
  <2> SUFFICES ASSUME NEW d \in Delivery PROVE RowTrue(d)'
    BY DEF Rows
  <2>1. /\ sub'[d[1]].revoked = sub[d[1]].revoked
        /\ RowTrue(d) /\ staged[d] \in Nat
    BY <1>8, Pairs DEF IInv, Rows, Typed
  <2>2. CASE d \in new
    <3>1. /\ row'[d] = fresh /\ tries'[d] = 0 /\ staged'[d] = 1
          /\ d[2] \in events'
      BY <1>1, <1>2, <1>4, <1>5, <1>6, <2>2
    <3>2. ~sub[d[1]].revoked
      BY <1>0, <1>5, <2>2 DEF Active
    <3> QED
      BY <1>3, <2>1, <3>1, <3>2 DEF RowTrue
  <2>3. CASE d \notin new
    <3>1. row'[d] = row[d] /\ tries'[d] = tries[d] /\ staged'[d] = staged[d]
      BY <1>1, <1>4, <2>3
    <3> QED
      BY <1>2, <2>1, <3>1 DEF RowTrue
  <2> QED
    BY <2>2, <2>3
<1>14. PendingBound'
  <2> SUFFICES ASSUME NEW s \in Sub
               PROVE  Cardinality(OpenOf(s)') <= PendingLimit
    BY DEF PendingBound
  <2>1. /\ IsFiniteSet(OpenOf(s)) /\ Cardinality(OpenOf(s)) \in Nat
        /\ Cardinality(OpenOf(s)) <= PendingLimit /\ PendingLimit \in Nat
    BY OpenFinite, BoundsAssumption DEF IInv, PendingBound
  <2>2. CASE s \in takes
    <3>1. OpenOf(s)' \in SUBSET (OpenOf(s) \cup {e})
      <4> SUFFICES ASSUME NEW f \in Source, f # e,
                          row'[<<s, f>>].status \in Open
                   PROVE  row[<<s, f>>].status \in Open
        BY DEF OpenOf
      <4>1. <<s, f>> \in Delivery /\ <<s, f>> \notin new
        BY <1>5, Pairs
      <4> QED
        BY <1>4, <4>1
    <3>2. Cardinality(OpenOf(s)) < PendingLimit
      BY <1>0, <2>1, <2>2 DEF Full
    <3>3. /\ IsFiniteSet(OpenOf(s) \cup {e})
          /\ Cardinality(OpenOf(s) \cup {e}) <= Cardinality(OpenOf(s)) + 1
          /\ Cardinality(OpenOf(s) \cup {e}) \in Nat
      <4>1. /\ IsFiniteSet(OpenOf(s) \cup {e})
            /\ \/ Cardinality(OpenOf(s) \cup {e}) = Cardinality(OpenOf(s))
               \/ Cardinality(OpenOf(s) \cup {e}) = Cardinality(OpenOf(s)) + 1
        BY <2>1, FS_AddElement
      <4> QED
        BY <2>1, <4>1
    <3>4. /\ IsFiniteSet(OpenOf(s)')
          /\ Cardinality(OpenOf(s)') <= Cardinality(OpenOf(s) \cup {e})
      BY <3>1, <3>3, FS_Subset
    <3>5. Cardinality(OpenOf(s)') \in Nat
      BY <3>4, FS_CardinalityType
    <3> QED
      BY <2>1, <3>2, <3>3, <3>4, <3>5
  <2>3. CASE s \notin takes
    <3>1. \A f \in Source : row'[<<s, f>>] = row[<<s, f>>]
      BY <1>4, <1>5, <2>3, Pairs
    <3>2. OpenOf(s)' = OpenOf(s)
      BY <3>1 DEF OpenOf
    <3> QED
      BY <2>1, <3>2
  <2> QED
    BY <2>2, <2>3
<1> QED
  BY <1>10, <1>11, <1>12, <1>13, <1>14 DEF IInv

-----------------------------------------------------------------------------
(* Attempts.                                                               *)

\* The image of a finite set.
LEMMA Images ==
    ASSUME NEW S, IsFiniteSet(S), NEW f, DOMAIN f = S
    PROVE  /\ IsFiniteSet({f[x] : x \in S})
           /\ Cardinality({f[x] : x \in S}) <= Cardinality(S)
<1> DEFINE T == {f[x] : x \in S}
<1>1. [x \in S |-> f[x]] \in Surjection(S, T)
  BY DEF Surjection
<1> HIDE DEF T
<1>2. IsFiniteSet(T) /\ Cardinality(T) <= Cardinality(S)
  BY <1>1, FS_Surjection
<1> QED
  BY <1>2 DEF T

LEMMA TickStep ==
    ASSUME IInv, Tick
    PROVE  IInv'
<1>1. PICK claimed \in SUBSET (due \cup Recovered) :
        /\ First(claimed, {d \in due \cup Recovered : Active(d[1])}, Capacity)
        /\ row' = [d \in Delivery |->
             IF d \in claimed
             THEN [row[d] EXCEPT !.status = "delivering", !.by = 0,
                                 !.attempts = @ + 1, !.lease = @ + 1]
             ELSE IF d \in Recovered
             THEN [row[d] EXCEPT !.status = "retrying"]
             ELSE row[d]]
        /\ Queued(due \ claimed, Recovered \ claimed)
        /\ inFlight' = inFlight \cup
             {[d |-> d, lease |-> row[d].lease + 1,
               attempt |-> row[d].attempts + 1,
               secret |-> sub[d[1]].secret, late |-> FALSE] : d \in claimed}
  BY DEF Tick
<1>2. /\ Capacity > 0 /\ expired' = {}
      /\ tries' = [d \in Delivery |->
                     IF d \in expired THEN tries[d] + 1 ELSE tries[d]]
      /\ UNCHANGED <<sub, events, staged>>
  BY DEF Tick, Recovered
<1>3. /\ claimed \subseteq due \cup expired /\ claimed \subseteq Delivery
      /\ \A d \in claimed : Active(d[1])
      /\ Cardinality(claimed) <= Capacity
  BY <1>1 DEF First, Recovered, IInv, Typed
<1>4. /\ \A d \in due : row[d].status \in {"pending", "retrying"}
      /\ \A d \in expired : row[d].status = "delivering"
      /\ due \cap expired = {}
  BY DEF IInv, Waiting
<1>5. \A d \in Delivery :
        /\ row'[d] \in Row
        /\ d \in claimed =>
             /\ row'[d].status = "delivering"
             /\ row'[d].attempts = row[d].attempts + 1
        /\ d \in expired \ claimed =>
             /\ row'[d].status = "retrying"
             /\ row'[d].attempts = row[d].attempts
        /\ d \notin claimed \cup expired => row'[d] = row[d]
  <2> TAKE d \in Delivery
  <2>1. row[d] \in Row
    BY DEF IInv, Typed
  <2>2. CASE d \in claimed
    <3>1. row'[d] = [row[d] EXCEPT !.status = "delivering", !.by = 0,
                               !.attempts = row[d].attempts + 1,
                               !.lease = row[d].lease + 1]
      BY <1>1, <2>2
    <3>2. /\ row[d].attempts + 1 \in Nat /\ row[d].lease + 1 \in Nat
          /\ "delivering" \in Status
      BY <2>1 DEF Row, Status, Open
    <3>3. row'[d] = [status |-> "delivering", attempts |-> row[d].attempts + 1,
                     lease |-> row[d].lease + 1, by |-> 0]
      BY <2>1, <3>1 DEF Row
    <3>4. row'[d] \in Row
      BY <3>2, <3>3 DEF Row
    <3> QED
      BY <2>2, <3>3, <3>4
  <2>3. CASE d \in expired \ claimed
    <3>1. row'[d] = [row[d] EXCEPT !.status = "retrying"]
      BY <1>1, <2>3 DEF Recovered
    <3> QED
      BY <2>1, <2>3, <3>1 DEF Row, Status, Open
  <2>4. CASE d \notin claimed \cup expired
    BY <1>1, <2>1, <2>4 DEF Recovered
  <2> QED
    BY <2>2, <2>3, <2>4
<1>6. Typed'
  <2>1. row' \in [Delivery -> Row]
    <3>1. row' = [d \in Delivery |-> row'[d]]
      BY <1>1
    <3> QED
      BY <1>5, <3>1
  <2>2. tries' \in [Delivery -> Nat]
    BY <1>2 DEF IInv, Typed
  <2>3. due' \subseteq Delivery
    BY <1>1 DEF Queued, Recovered, IInv, Typed
  <2>4. inFlight' \subseteq Attempt
    <3>1. ASSUME NEW d \in claimed
          PROVE  [d |-> d, lease |-> row[d].lease + 1,
                  attempt |-> row[d].attempts + 1,
                  secret |-> sub[d[1]].secret, late |-> FALSE] \in Attempt
      <4>1. d \in Delivery /\ row[d] \in Row /\ sub[d[1]] \in Subscription
        BY <1>3, Pairs DEF IInv, Typed
      <4>2. /\ row[d].lease + 1 \in Nat /\ row[d].attempts + 1 \in Nat
            /\ sub[d[1]].secret \in Nat
        BY <4>1 DEF Row, Subscription
      <4> QED
        BY <4>1, <4>2 DEF Attempt
    <3> QED
      BY <1>1, <3>1 DEF IInv, Typed
  <2> QED
    BY <1>2, <2>1, <2>2, <2>3, <2>4 DEF IInv, Typed
<1>7. Waiting'
  <2>1. /\ due' = (due \ claimed) \cup (expired \ claimed)
        /\ before' \subseteq due' \X due'
        /\ \A p \in before' : <<p[2], p[1]>> \notin before'
    BY <1>1, <1>4, QueuedKeeps DEF Recovered, IInv, Waiting
  <2>2. \A d \in due' : row'[d].status \in {"pending", "retrying"}
    BY <1>4, <1>5, <2>1 DEF IInv, Typed
  <2>3. \A d \in Delivery : row'[d].status = "pending" => d \in due'
    BY <1>5, <2>1 DEF IInv, Waiting
  <2> QED
    BY <1>2, <2>1, <2>2, <2>3 DEF Waiting
<1>8. Rows'
  <2> SUFFICES ASSUME NEW d \in Delivery PROVE RowTrue(d)'
    BY DEF Rows
  <2>1. RowTrue(d) /\ row[d].attempts \in Nat /\ tries[d] \in Nat
    BY DEF IInv, Rows, Typed, Row
  <2>2. tries'[d] = IF d \in expired THEN tries[d] + 1 ELSE tries[d]
    BY <1>2
  <2>3. CASE d \in claimed
    <3>1. /\ row[d].status \in Open /\ row[d] # NoRow
          /\ row[d].status = "delivering" <=> d \in expired
      BY <1>3, <1>4, <2>3, Words DEF Open
    <3>2. row'[d].attempts = tries'[d] + 1
      BY <1>5, <2>1, <2>2, <2>3, <3>1 DEF RowTrue
    <3> QED
      BY <1>2, <1>5, <2>1, <2>3, <3>1, <3>2 DEF RowTrue
  <2>4. CASE d \in expired \ claimed
    <3>1. /\ row[d].status = "delivering" /\ row[d].status \in Open
          /\ row[d] # NoRow
      BY <1>4, <2>4, Words DEF Open
    <3>2. row'[d].attempts = tries'[d]
      BY <1>5, <2>1, <2>2, <2>4, <3>1 DEF RowTrue
    <3> QED
      BY <1>2, <1>5, <2>1, <2>4, <3>1, <3>2 DEF RowTrue
  <2>5. CASE d \notin claimed \cup expired
    BY <1>2, <1>5, <2>1, <2>2, <2>5 DEF RowTrue
  <2> QED
    BY <2>3, <2>4, <2>5
<1>9. Attempts'
  <2> DEFINE f == [d \in claimed |-> [d |-> d, lease |-> row[d].lease + 1,
                     attempt |-> row[d].attempts + 1,
                     secret |-> sub[d[1]].secret, late |-> FALSE]]
             more == {f[d] : d \in claimed}
  <2>1. inFlight' = inFlight \cup more
    BY <1>1
  <2>2. \A a \in more : \E d \in claimed :
          a.d = d /\ a.secret = sub[d[1]].secret
    OBVIOUS
  <2>3. IsFiniteSet(claimed)
    <3>1. IsFiniteSet(Delivery)
      BY FS_Product, BoundsAssumption DEF Delivery
    <3> QED
      BY <1>3, <3>1, FS_Subset
  <2>4. DOMAIN f = claimed
    OBVIOUS
  <2> HIDE DEF f
  <2>5. IsFiniteSet(more) /\ Cardinality(more) <= Cardinality(claimed)
    BY <2>3, <2>4, Images
  <2> HIDE DEF more
  <2>6. IsFiniteSet(inFlight) /\ Cardinality(inFlight) \in Nat
    BY FS_CardinalityType DEF IInv, Attempts
  <2>7. /\ Cardinality(more) \in Nat /\ Cardinality(claimed) \in Nat
        /\ Concurrency \in Nat
    BY <2>3, <2>5, FS_CardinalityType, BoundsAssumption
  <2>8. /\ IsFiniteSet(inFlight')
        /\ Cardinality(inFlight') = Cardinality(inFlight) + Cardinality(more)
                                      - Cardinality(inFlight \cap more)
    BY <2>1, <2>5, <2>6, FS_Union
  <2>9. Cardinality(inFlight \cap more) \in Nat
    <3>1. IsFiniteSet(inFlight \cap more)
      BY <2>6, FS_Subset
    <3> QED
      BY <3>1, FS_CardinalityType
  <2>10. Cardinality(inFlight') <= Concurrency
    BY <1>3, <2>5, <2>6, <2>7, <2>8, <2>9 DEF Capacity
  <2>11. KeyIsCurrent'
    <3> SUFFICES ASSUME NEW a \in inFlight'
                 PROVE  a.secret = sub[a.d[1]].secret /\ ~sub[a.d[1]].revoked
      BY <1>2 DEF KeyIsCurrent
    <3>1. CASE a \in inFlight
      BY <3>1 DEF IInv, Attempts, KeyIsCurrent
    <3>2. CASE a \in more
      BY <1>3, <2>2, <3>2 DEF Active
    <3> QED
      BY <2>1, <3>1, <3>2
  <2> QED
    BY <2>8, <2>10, <2>11 DEF Attempts
<1>10. PendingBound'
  <2>1. \A d \in Delivery : row'[d].status \in Open => row[d].status \in Open
    BY <1>3, <1>4, <1>5 DEF Open
  <2> QED
    BY <2>1, BoundKept DEF IInv
<1> QED
  BY <1>6, <1>7, <1>8, <1>9, <1>10 DEF IInv

LEMMA SettleActs ==
    ASSUME IInv, NEW a \in inFlight, NEW outcome, Settle(a, outcome),
           UNCHANGED <<events, queue, staged>>
    PROVE  /\ row' \in [Delivery -> Row] /\ tries' \in [Delivery -> Nat]
           /\ sub' \in [Sub -> Subscription] /\ expired' \subseteq Delivery
           /\ Waiting' /\ Rows' /\ PendingBound'
           /\ \A s \in Sub : /\ sub'[s].revoked = sub[s].revoked
                             /\ sub'[s].secret = sub[s].secret
<1>1. /\ a \in Attempt /\ a.d \in Delivery /\ a.lease \in Nat
      /\ a.d[1] \in Sub /\ sub[a.d[1]] \in Subscription
      /\ row[a.d] \in Row /\ RowTrue(a.d)
  BY Pairs DEF IInv, Typed, Rows, Attempt
<1>2. /\ row[a.d].status = "delivering" /\ row[a.d].lease = a.lease
      /\ row[a.d].status \in Open /\ row[a.d] # NoRow
  BY Words DEF Settle, Holds, Open
<1>3. PICK status \in {"delivered", "retrying", "failed"} : Settled(a, status)
  BY DEF Settle
<1>4. /\ row' = [row EXCEPT ![a.d].status = status, ![a.d].by = a.lease]
      /\ tries' = [tries EXCEPT ![a.d] = tries[a.d] + 1]
      /\ expired' = expired \ {a.d}
  BY <1>3 DEF Settled
<1> DEFINE new == [row[a.d] EXCEPT !.status = status, !.by = a.lease]
<1>5. /\ new \in Row /\ new.status = status /\ new.by = new.lease
      /\ new.attempts = row[a.d].attempts
  BY <1>1, <1>2 DEF Row, Status, Open
<1>6. row' = [row EXCEPT ![a.d] = new]
  BY <1>4
<1> HIDE DEF new
<1>7. /\ row' \in [Delivery -> Row]
      /\ \A d \in Delivery : row'[d] = IF d = a.d THEN new ELSE row[d]
  BY <1>5, <1>6 DEF IInv, Typed
<1>8. /\ tries' \in [Delivery -> Nat]
      /\ \A d \in Delivery :
           tries'[d] = IF d = a.d THEN tries[d] + 1 ELSE tries[d]
  BY <1>1, <1>4 DEF IInv, Typed
<1>9. PICK s0 \in Sub, g \in Subscription :
        /\ \/ sub' = sub
           \/ sub' = [sub EXCEPT ![s0] = g]
        /\ g.revoked = sub[s0].revoked
        /\ g.secret = sub[s0].secret
  <2>1. CASE sub' = sub
    BY <1>1, <2>1
  <2>2. CASE sub' = [sub EXCEPT ![a.d[1]].failures = 0]
    <3> DEFINE h == [sub[a.d[1]] EXCEPT !.failures = 0]
    <3>1. /\ h \in Subscription /\ h.revoked = sub[a.d[1]].revoked
          /\ h.secret = sub[a.d[1]].secret
      BY <1>1 DEF Subscription
    <3>2. sub' = [sub EXCEPT ![a.d[1]] = h]
      BY <2>2
    <3> QED
      BY <1>1, <3>1, <3>2
  <2>3. CASE \E pauses \in BOOLEAN : Failed(a.d[1], pauses)
    <3>1. PICK pauses \in BOOLEAN :
            sub' = [sub EXCEPT
              ![a.d[1]].failures = IF @ < PauseAfter THEN @ + 1 ELSE @,
              ![a.d[1]].state =
                IF pauses \/ sub[a.d[1]].failures + 1 >= PauseAfter
                  THEN "paused" ELSE @]
      BY <2>3 DEF Failed
    <3>2. PICK n, st :
            /\ n = IF sub[a.d[1]].failures < PauseAfter
                     THEN sub[a.d[1]].failures + 1 ELSE sub[a.d[1]].failures
            /\ st = IF pauses \/ sub[a.d[1]].failures + 1 >= PauseAfter
                      THEN "paused" ELSE sub[a.d[1]].state
      OBVIOUS
    <3>3. /\ sub[a.d[1]].failures \in Nat
          /\ sub[a.d[1]].state \in {"active", "paused"}
      BY <1>1 DEF Subscription
    <3>4. n \in Nat
      BY <3>2, <3>3
    <3>5. st \in {"active", "paused"}
      BY <3>2, <3>3
    <3> DEFINE h == [sub[a.d[1]] EXCEPT !.failures = n, !.state = st]
    <3>6. sub' = [sub EXCEPT ![a.d[1]] = h]
      BY <3>1, <3>2
    <3>7. /\ h \in Subscription /\ h.revoked = sub[a.d[1]].revoked
          /\ h.secret = sub[a.d[1]].secret
      BY <1>1, <3>4, <3>5 DEF Subscription
    <3> QED
      BY <1>1, <3>6, <3>7
  <2> QED
    BY <2>1, <2>2, <2>3 DEF Settle
<1>10. /\ sub' \in [Sub -> Subscription]
       /\ \A s \in Sub : /\ sub'[s].revoked = sub[s].revoked
                         /\ sub'[s].secret = sub[s].secret
  BY <1>9 DEF IInv, Typed
<1>11. Waiting'
  <2>1. due' = due /\ before' = before
    BY DEF queue
  <2>2. a.d \notin due
    BY <1>2 DEF IInv, Waiting
  <2>3. \A d \in due : row'[d] = row[d]
    BY <1>7, <2>2 DEF IInv, Typed
  <2>4. \A d \in expired' : row'[d] = row[d] /\ d \in expired
    BY <1>4, <1>7 DEF IInv, Typed
  <2>5. \A d \in Delivery : row'[d].status = "pending" => row[d].status = "pending"
    BY <1>5, <1>7
  <2> QED
    BY <2>1, <2>3, <2>4, <2>5 DEF IInv, Waiting
<1>12. Rows'
  <2> SUFFICES ASSUME NEW d \in Delivery PROVE RowTrue(d)'
    BY DEF Rows
  <2>1. /\ sub'[d[1]].revoked = sub[d[1]].revoked
        /\ RowTrue(d)
        /\ events' = events /\ staged' = staged
    BY <1>10, Pairs DEF IInv, Rows
  <2>2. CASE d = a.d
    <3>1. /\ row[d].attempts = tries[d] + 1 /\ tries[d] \in Nat
          /\ ~sub[d[1]].revoked /\ d[2] \in events
      BY <1>1, <1>2, <2>2 DEF RowTrue, IInv, Typed
    <3>2. row'[d].attempts = tries'[d] /\ row'[d] = new
      BY <1>5, <1>7, <1>8, <2>2, <3>1
    <3>3. row'[d].status # "delivering"
      BY <1>5, <3>2
    <3>4. row'[d].by = row'[d].lease
      BY <1>5, <3>2
    <3>5. staged'[d] = staged[d] /\ events' = events
      BY <2>1
    <3> QED
      BY <1>8, <2>1, <3>1, <3>2, <3>3, <3>4, <3>5 DEF RowTrue
  <2>3. CASE d # a.d
    BY <1>7, <1>8, <2>1, <2>3 DEF RowTrue
  <2> QED
    BY <2>2, <2>3
<1>13. PendingBound'
  <2>1. \A d \in Delivery : row'[d].status \in Open => row[d].status \in Open
    BY <1>2, <1>7
  <2> QED
    BY <2>1, BoundKept DEF IInv
<1> QED
  BY <1>4, <1>7, <1>8, <1>10, <1>11, <1>12, <1>13 DEF IInv, Typed

\* Only the attempts change, and no more of them.
LEMMA RestKeeps ==
    ASSUME IInv, UNCHANGED <<sub, events, row, queue, expired, staged, tries>>,
           inFlight' \subseteq Attempt, Attempts'
    PROVE  IInv'
<1>1. Typed'
  BY DEF IInv, Typed, queue
<1>2. Waiting'
  BY DEF IInv, Waiting, queue
<1>3. Rows'
  BY DEF IInv, Rows, RowTrue
<1>4. PendingBound'
  BY DEF IInv, PendingBound, OpenOf
<1> QED
  BY <1>1, <1>2, <1>3, <1>4 DEF IInv

LEMMA EndsStep ==
    ASSUME IInv, NEW a \in inFlight, Ends(a)
    PROVE  IInv'
<1>1. /\ inFlight' = inFlight \ {a}
      /\ UNCHANGED <<events, queue, staged>>
  BY DEF Ends
<1>2. \A b \in inFlight : b.d[1] \in Sub
  BY Pairs DEF IInv, Typed, Attempt
<1>3. CASE \E outcome : Settle(a, outcome)
  <2>1. /\ row' \in [Delivery -> Row] /\ tries' \in [Delivery -> Nat]
        /\ sub' \in [Sub -> Subscription] /\ expired' \subseteq Delivery
        /\ Waiting' /\ Rows' /\ PendingBound'
        /\ \A s \in Sub : /\ sub'[s].revoked = sub[s].revoked
                          /\ sub'[s].secret = sub[s].secret
    BY <1>1, <1>3, SettleActs
  <2>2. inFlight' \subseteq Attempt /\ Attempts'
    BY <1>1, <1>2, <2>1, FewerAttempts DEF IInv
  <2>3. Typed'
    BY <1>1, <2>1, <2>2 DEF IInv, Typed, queue
  <2> QED
    BY <2>1, <2>2, <2>3 DEF IInv
<1>4. CASE UNCHANGED <<row, tries, expired, sub>>
  <2>1. inFlight' \subseteq Attempt /\ Attempts'
    BY <1>1, <1>4, FewerAttempts DEF IInv
  <2> QED
    BY <1>1, <1>4, <2>1, RestKeeps
<1> QED
  BY <1>3, <1>4 DEF Ends

LEMMA ThrowsStep ==
    ASSUME IInv, NEW a \in inFlight, SettleThrows(a)
    PROVE  IInv'
<1> DEFINE left == inFlight \ {a}
           f == [b \in left |-> [b EXCEPT !.late = b.late \/ ~a.late]]
<1>1. /\ inFlight' = {f[b] : b \in left}
      /\ UNCHANGED <<sub, events, row, queue, expired, staged, tries>>
  BY DEF SettleThrows
<1>2. /\ IsFiniteSet(left) /\ Cardinality(left) <= Cardinality(inFlight)
      /\ Cardinality(inFlight) \in Nat /\ Cardinality(left) \in Nat
      /\ Cardinality(inFlight) <= Concurrency /\ Concurrency \in Nat
  <2>1. IsFiniteSet(inFlight) /\ left \in SUBSET inFlight
    BY DEF IInv, Attempts
  <2>2. IsFiniteSet(left) /\ Cardinality(left) <= Cardinality(inFlight)
    BY <2>1, FS_Subset
  <2> QED
    BY <2>1, <2>2, FS_CardinalityType, BoundsAssumption DEF IInv, Attempts
<1>3. \A b \in left : /\ b \in inFlight /\ f[b] \in Attempt
                      /\ f[b].d = b.d /\ f[b].secret = b.secret
  <2> TAKE b \in left
  <2>1. b \in Attempt /\ a \in Attempt
    BY DEF IInv, Typed
  <2>2. (b.late \/ ~a.late) \in BOOLEAN
    OBVIOUS
  <2>3. [b EXCEPT !.late = b.late \/ ~a.late] \in Attempt
    BY <2>1, <2>2 DEF Attempt
  <2> QED
    BY <2>1, <2>3 DEF Attempt
<1>4. DOMAIN f = left
  OBVIOUS
<1> HIDE DEF left, f
<1>5. /\ IsFiniteSet(inFlight')
      /\ Cardinality(inFlight') <= Cardinality(left)
  BY <1>1, <1>2, <1>4, Images
<1>6. Cardinality(inFlight') \in Nat
  BY <1>5, FS_CardinalityType
<1>7. Cardinality(inFlight') <= Concurrency
  BY <1>2, <1>5, <1>6
<1>8. KeyIsCurrent' /\ inFlight' \subseteq Attempt
  BY <1>1, <1>3 DEF IInv, Attempts, KeyIsCurrent
<1> QED
  BY <1>1, <1>5, <1>7, <1>8, RestKeeps DEF Attempts

LEMMA CrashStep ==
    ASSUME IInv, Crash
    PROVE  IInv'
<1>1. /\ inFlight' = {}
      /\ UNCHANGED <<sub, events, row, queue, expired, staged, tries>>
  BY DEF Crash
<1>2. inFlight' \subseteq Attempt /\ Attempts'
  BY <1>1, FewerAttempts DEF IInv
<1> QED
  BY <1>1, <1>2, RestKeeps

LEMMA TickEndsStep ==
    ASSUME IInv, TickEnds
    PROVE  IInv'
<1>1. PICK old :
        /\ old \subseteq {d \in Delivery :
                            row[d].status \notin Open \cup {"none"}}
        /\ row' = [d \in Delivery |-> IF d \in old THEN NoRow ELSE row[d]]
        /\ events' = {e \in events : Recorded(e, old)}
        /\ staged' = [d \in Delivery |->
                        IF Recorded(d[2], old) THEN staged[d] ELSE 0]
  BY DEF TickEnds
<1>2. UNCHANGED <<sub, queue, expired, inFlight, tries>>
  BY DEF TickEnds
<1>3. /\ \A d \in Delivery : row'[d] = row[d] \/ (d \in old /\ row'[d] = NoRow)
      /\ \A d \in old : row[d].status \notin Open
  BY <1>1
<1>4. Typed'
  <2>1. row' \in [Delivery -> Row]
    BY <1>1, Words DEF IInv, Typed
  <2>2. staged' \in [Delivery -> Nat]
    BY <1>1 DEF IInv, Typed
  <2> QED
    BY <1>1, <1>2, <2>1, <2>2 DEF IInv, Typed, queue
<1>5. Waiting'
  <2>1. \A d \in due \cup expired : row'[d] = row[d]
    BY <1>3 DEF IInv, Typed, Waiting, Open
  <2>2. \A d \in Delivery : row'[d].status = "pending" => row'[d] = row[d]
    BY <1>3, Words
  <2> QED
    BY <1>2, <2>1, <2>2 DEF IInv, Waiting, queue
<1>6. Rows'
  <2> SUFFICES ASSUME NEW d \in Delivery PROVE RowTrue(d)'
    BY DEF Rows
  <2>1. RowTrue(d) /\ d[1] \in Sub /\ d = <<d[1], d[2]>> /\ staged[d] \in Nat
    BY Pairs DEF IInv, Rows, Typed
  <2>2. row'[d] # NoRow => row'[d] = row[d] /\ Recorded(d[2], old)
    <3> SUFFICES ASSUME row'[d] # NoRow
                 PROVE  row'[d] = row[d] /\ Recorded(d[2], old)
      OBVIOUS
    <3>1. d \notin old /\ row'[d] = row[d]
      BY <1>1
    <3> QED
      BY <2>1, <3>1 DEF Recorded
  <2>3. staged'[d] = 0 \/ (staged'[d] = staged[d] /\ Recorded(d[2], old))
    BY <1>1
  <2>4. row'[d] # NoRow => d[2] \in events'
    BY <1>1, <2>1, <2>2 DEF RowTrue
  <2>5. staged'[d] <= 1 /\ (staged'[d] # 0 => d[2] \in events')
    BY <1>1, <2>1, <2>3 DEF RowTrue
  <2>6. row'[d] = row[d] \/ row'[d].status = "none"
    BY <2>2, Words
  <2> QED
    BY <1>2, <2>1, <2>4, <2>5, <2>6 DEF RowTrue, Open
<1>7. PendingBound'
  <2>1. \A d \in Delivery : row'[d].status \in Open => row[d].status \in Open
    BY <1>3, Words DEF Open
  <2> QED
    BY <2>1, BoundKept DEF IInv
<1>8. Attempts'
  BY <1>2 DEF IInv, Attempts, KeyIsCurrent
<1> QED
  BY <1>4, <1>5, <1>6, <1>7, <1>8 DEF IInv

LEMMA DueStep ==
    ASSUME IInv, NEW d \in Delivery, Due(d)
    PROVE  IInv'
<1>1. /\ row[d].status = "retrying" /\ d \notin due /\ Queued(due, {d})
      /\ UNCHANGED <<sub, events, row, expired, inFlight, staged, tries>>
  BY DEF Due
<1>2. /\ due' = due \cup {d}
      /\ before' \subseteq due' \X due'
      /\ \A p \in before' : <<p[2], p[1]>> \notin before'
  BY <1>1, QueuedKeeps DEF IInv, Waiting
<1>3. Typed' /\ Waiting'
  BY <1>1, <1>2 DEF IInv, Typed, Waiting
<1>4. Rows' /\ Attempts' /\ PendingBound'
  BY <1>1 DEF IInv, Rows, RowTrue, Attempts, KeyIsCurrent, PendingBound, OpenOf
<1> QED
  BY <1>3, <1>4 DEF IInv

LEMMA LeaseStep ==
    ASSUME IInv, NEW d \in Delivery, LeaseExpires(d)
    PROVE  IInv'
<1>1. /\ row[d].status = "delivering" /\ expired' = expired \cup {d}
      /\ UNCHANGED <<sub, events, row, queue, inFlight, staged, tries>>
  BY DEF LeaseExpires
<1>2. Typed' /\ Waiting'
  BY <1>1 DEF IInv, Typed, Waiting, queue
<1>3. Rows' /\ Attempts' /\ PendingBound'
  BY <1>1 DEF IInv, Rows, RowTrue, Attempts, KeyIsCurrent, PendingBound, OpenOf
<1> QED
  BY <1>2, <1>3 DEF IInv

-----------------------------------------------------------------------------
(* Administration and shutdown.                                            *)

\* Aborted attempts give their rows back, uncounted.
LEMMA DeferredActs ==
    ASSUME IInv, NEW aborted \in SUBSET inFlight, Deferred(aborted),
           UNCHANGED <<events, staged, tries>>,
           sub' \in [Sub -> Subscription],
           \A s \in Sub : sub'[s].revoked = sub[s].revoked,
           \A a \in inFlight \ aborted : sub'[a.d[1]].secret = sub[a.d[1]].secret
    PROVE  IInv'
<1> DEFINE held == {a.d : a \in {b \in aborted : Holds(b)}}
<1>1. /\ row' = [d \in Delivery |->
             IF d \in held
             THEN [row[d] EXCEPT !.status = "retrying", !.attempts = Refund(@)]
             ELSE row[d]]
      /\ Queued(due, held)
      /\ expired' = expired \ held
      /\ inFlight' = inFlight \ aborted
  BY DEF Deferred
<1>2. \A d \in held : d \in Delivery /\ row[d].status = "delivering"
  BY DEF IInv, Typed, Attempt, Holds
<1> HIDE DEF held
<1>3. \A d \in Delivery :
        /\ d \in held => /\ row'[d] \in Row /\ row'[d].status = "retrying"
                         /\ row'[d].attempts = tries[d]
                         /\ row[d].status \in Open /\ row[d] # NoRow
        /\ d \notin held => row'[d] = row[d]
  <2> TAKE d \in Delivery
  <2>1. CASE d \in held
    <3>1. /\ row[d] \in Row /\ tries[d] \in Nat /\ row[d].attempts \in Nat
          /\ RowTrue(d)
      BY DEF IInv, Typed, Rows, Row
    <3>2. row[d].status \in Open /\ row[d] # NoRow
      BY <1>2, <2>1, Words DEF Open
    <3>3. row[d].attempts = tries[d] + 1
      BY <1>2, <2>1, <3>1, <3>2 DEF RowTrue
    <3>4. row[d].attempts - 1 = tries[d]
      BY <3>1, <3>3
    <3>5. row'[d] = [row[d] EXCEPT !.status = "retrying", !.attempts = tries[d]]
      BY <1>1, <2>1, <3>4 DEF Refund
    <3>6. /\ row'[d] \in Row /\ row'[d].status = "retrying"
          /\ row'[d].attempts = tries[d]
      BY <3>1, <3>5 DEF Row, Status, Open
    <3> QED
      BY <2>1, <3>2, <3>6
  <2>2. CASE d \notin held
    BY <1>1, <2>2
  <2> QED
    BY <2>1, <2>2
<1>4. inFlight' \subseteq Attempt /\ Attempts'
  <2>1. \A a \in inFlight : a.d[1] \in Sub
    BY Pairs DEF IInv, Typed, Attempt
  <2> QED
    BY <1>1, <2>1, FewerAttempts DEF IInv
<1>5. Typed'
  <2>1. row' \in [Delivery -> Row]
    <3>1. row' = [d \in Delivery |-> row'[d]]
      BY <1>1
    <3>2. \A d \in Delivery : row'[d] \in Row
      BY <1>3 DEF IInv, Typed
    <3> QED
      BY <3>1, <3>2
  <2>2. due' \subseteq Delivery
    BY <1>1, <1>2 DEF Queued, IInv, Typed
  <2> QED
    BY <1>1, <1>4, <2>1, <2>2 DEF IInv, Typed
<1>6. Waiting'
  <2>1. due \cap held = {}
    BY <1>2 DEF IInv, Waiting
  <2>2. /\ due' = due \cup held
        /\ before' \subseteq due' \X due'
        /\ \A p \in before' : <<p[2], p[1]>> \notin before'
    BY <1>1, <2>1, QueuedKeeps DEF IInv, Waiting
  <2>3. \A d \in due' : row'[d].status \in {"pending", "retrying"}
    BY <1>2, <1>3, <2>2 DEF IInv, Waiting, Typed
  <2>4. \A d \in expired' : row'[d].status = "delivering"
    BY <1>1, <1>3 DEF IInv, Waiting, Typed
  <2>5. \A d \in Delivery : row'[d].status = "pending" => d \in due'
    BY <1>3, <2>2 DEF IInv, Waiting
  <2> QED
    BY <2>2, <2>3, <2>4, <2>5 DEF Waiting
<1>7. Rows'
  <2> SUFFICES ASSUME NEW d \in Delivery PROVE RowTrue(d)'
    BY DEF Rows
  <2>1. RowTrue(d) /\ sub'[d[1]].revoked = sub[d[1]].revoked
        /\ tries[d] \in Nat
    BY Pairs DEF IInv, Rows, Typed
  <2>2. CASE d \in held
    <3>1. /\ row'[d].status = "retrying" /\ row'[d].attempts = tries'[d] + 0
          /\ ~sub'[d[1]].revoked /\ d[2] \in events'
      BY <1>3, <2>1, <2>2 DEF RowTrue
    <3> QED
      BY <2>1, <3>1 DEF RowTrue
  <2>3. CASE d \notin held
    BY <1>3, <2>1, <2>3 DEF RowTrue
  <2> QED
    BY <2>2, <2>3
<1>8. PendingBound'
  <2>1. \A d \in Delivery : row'[d].status \in Open => row[d].status \in Open
    BY <1>3
  <2> QED
    BY <2>1, BoundKept DEF IInv
<1> QED
  BY <1>4, <1>5, <1>6, <1>7, <1>8 DEF IInv

LEMMA RotateStep ==
    ASSUME IInv, NEW s \in Sub, Rotate(s)
    PROVE  IInv'
<1>1. /\ Deferred(AttemptsOf(s))
      /\ sub' = [sub EXCEPT ![s].secret = sub[s].secret + 1]
      /\ UNCHANGED <<events, staged, tries>>
  BY DEF Rotate, Rotated
<1>2. sub[s] \in Subscription
  BY DEF IInv, Typed
<1> DEFINE h == [sub[s] EXCEPT !.secret = sub[s].secret + 1]
<1>3. h \in Subscription /\ h.revoked = sub[s].revoked
  BY <1>2 DEF Subscription
<1>4. sub' = [sub EXCEPT ![s] = h]
  BY <1>1
<1> HIDE DEF h
<1>5. /\ sub' \in [Sub -> Subscription]
      /\ \A t \in Sub : /\ sub'[t].revoked = sub[t].revoked
                        /\ t # s => sub'[t] = sub[t]
  BY <1>3, <1>4 DEF IInv, Typed
<1>6. \A a \in inFlight \ AttemptsOf(s) : a.d[1] \in Sub /\ a.d[1] # s
  BY Pairs DEF AttemptsOf, IInv, Typed, Attempt
<1>7. AttemptsOf(s) \in SUBSET inFlight
  BY DEF AttemptsOf
<1> QED
  BY <1>1, <1>5, <1>6, <1>7, DeferredActs

LEMMA ShutdownStep ==
    ASSUME IInv, Shutdown
    PROVE  IInv'
<1>1. Deferred(inFlight) /\ UNCHANGED <<sub, events, staged, tries>>
  BY DEF Shutdown
<1>2. sub' \in [Sub -> Subscription]
  BY <1>1 DEF IInv, Typed
<1> QED
  BY <1>1, <1>2, DeferredActs

LEMMA ResumeStep ==
    ASSUME IInv, NEW s \in Sub, Resume(s)
    PROVE  IInv'
<1>1. /\ sub' = [sub EXCEPT ![s].state = "active", ![s].failures = 0]
      /\ UNCHANGED <<events, row, queue, expired, inFlight, staged, tries>>
  BY DEF Resume
<1> DEFINE h == [sub[s] EXCEPT !.state = "active", !.failures = 0]
<1>2. sub[s] \in Subscription
  BY DEF IInv, Typed
<1>3. /\ h \in Subscription /\ h.revoked = sub[s].revoked
      /\ h.secret = sub[s].secret
  BY <1>2 DEF Subscription
<1>4. sub' = [sub EXCEPT ![s] = h]
  BY <1>1
<1> HIDE DEF h
<1>5. /\ sub' \in [Sub -> Subscription]
      /\ \A t \in Sub : /\ sub'[t].revoked = sub[t].revoked
                        /\ sub'[t].secret = sub[t].secret
  BY <1>3, <1>4 DEF IInv, Typed
<1>6. \A a \in inFlight : a.d[1] \in Sub
  BY Pairs DEF IInv, Typed, Attempt
<1>7. inFlight' \subseteq Attempt /\ Attempts'
  BY <1>1, <1>5, <1>6, FewerAttempts DEF IInv
<1>8. Typed' /\ Waiting'
  BY <1>1, <1>5, <1>7 DEF IInv, Typed, Waiting, queue
<1>9. Rows'
  BY <1>1, <1>5, Pairs DEF IInv, Rows, RowTrue
<1>10. PendingBound'
  BY <1>1 DEF IInv, PendingBound, OpenOf
<1> QED
  BY <1>7, <1>8, <1>9, <1>10 DEF IInv

LEMMA RevokeStep ==
    ASSUME IInv, NEW s \in Sub, Revoke(s)
    PROVE  IInv'
<1> DEFINE dropped == {d \in Delivery : d[1] = s /\ Drops(row[d].status)}
<1>1. /\ sub' = [sub EXCEPT ![s].revoked = TRUE]
      /\ inFlight' = inFlight \ AttemptsOf(s)
      /\ row' = [d \in Delivery |->
                   IF d \in dropped THEN [row[d] EXCEPT !.status = "dropped"]
                                    ELSE row[d]]
      /\ Queued(due \ dropped, {}) /\ expired' = expired \ dropped
      /\ UNCHANGED <<events, staged, tries>>
  BY DEF Revoke
<1>2. \A d \in Delivery :
        d \in dropped <=> d[1] = s /\ row[d].status \in Open
  BY DEF Drops
<1> HIDE DEF dropped
<1>3. sub[s] \in Subscription
  BY DEF IInv, Typed
<1> DEFINE h == [sub[s] EXCEPT !.revoked = TRUE]
<1>4. h \in Subscription
  BY <1>3 DEF Subscription
<1>5. sub' = [sub EXCEPT ![s] = h]
  BY <1>1
<1> HIDE DEF h
<1>6. /\ sub' \in [Sub -> Subscription]
      /\ \A t \in Sub : t # s => sub'[t] = sub[t]
  BY <1>4, <1>5 DEF IInv, Typed
<1>7. \A d \in Delivery :
        /\ row'[d] \in Row
        /\ d \in dropped => row'[d].status = "dropped"
        /\ d \notin dropped => row'[d] = row[d]
  <2> TAKE d \in Delivery
  <2>1. row[d] \in Row
    BY DEF IInv, Typed
  <2>2. row'[d] = IF d \in dropped THEN [row[d] EXCEPT !.status = "dropped"]
                                   ELSE row[d]
    BY <1>1
  <2> QED
    BY <2>1, <2>2 DEF Row, Status
<1>8. inFlight' \subseteq Attempt /\ Attempts'
  <2>1. \A a \in inFlight' : a \in inFlight /\ a.d[1] \in Sub /\ a.d[1] # s
    BY <1>1, Pairs DEF AttemptsOf, IInv, Typed, Attempt
  <2> QED
    BY <1>6, <2>1, FewerAttempts DEF IInv
<1>9. Typed'
  <2>1. row' \in [Delivery -> Row]
    <3>1. row' = [d \in Delivery |-> row'[d]]
      BY <1>1
    <3> QED
      BY <1>7, <3>1
  <2>2. due' \subseteq Delivery
    BY <1>1 DEF Queued, IInv, Typed
  <2> QED
    BY <1>1, <1>6, <1>8, <2>1, <2>2 DEF IInv, Typed
<1>10. Waiting'
  <2>1. /\ due' = due \ dropped
        /\ before' \subseteq due' \X due'
        /\ \A p \in before' : <<p[2], p[1]>> \notin before'
    BY <1>1, QueuedKeeps DEF IInv, Waiting
  <2>2. \A d \in due' \cup expired' : row'[d] = row[d]
    BY <1>1, <1>7, <2>1 DEF IInv, Typed
  <2>3. \A d \in Delivery : row'[d].status = "pending" =>
          d \notin dropped /\ row[d].status = "pending"
    BY <1>7
  <2> QED
    BY <1>1, <2>1, <2>2, <2>3 DEF IInv, Waiting
<1>11. Rows'
  <2> SUFFICES ASSUME NEW d \in Delivery PROVE RowTrue(d)'
    BY DEF Rows
  <2>1. RowTrue(d) /\ d[1] \in Sub
    BY Pairs DEF IInv, Rows
  <2>2. CASE d \in dropped
    <3>1. row'[d].status = "dropped" /\ d[2] \in events
      BY <1>2, <1>7, <2>1, <2>2, Words DEF RowTrue, Open
    <3> QED
      BY <1>1, <2>1, <3>1 DEF RowTrue, Open
  <2>3. CASE d \notin dropped
    <3>1. row'[d] = row[d]
      BY <1>7, <2>3
    <3>2. row[d].status \in Open => sub'[d[1]] = sub[d[1]]
      BY <1>2, <1>6, <2>1, <2>3
    <3> QED
      BY <1>1, <2>1, <3>1, <3>2 DEF RowTrue
  <2> QED
    BY <2>2, <2>3
<1>12. PendingBound'
  <2>1. \A d \in Delivery : row'[d].status \in Open => row[d].status \in Open
    BY <1>7 DEF Open
  <2> QED
    BY <2>1, BoundKept DEF IInv
<1> QED
  BY <1>8, <1>9, <1>10, <1>11, <1>12 DEF IInv

-----------------------------------------------------------------------------
(* The invariant, and what it implies.                                     *)

LEMMA InitHolds == Init => IInv
<1> SUFFICES ASSUME Init PROVE IInv
  OBVIOUS
<1>1. Typed
  BY Words DEF Init, Typed, Subscription
<1>2. Waiting
  BY Words DEF Init, Waiting
<1>3. Rows
  BY Words DEF Init, Rows, RowTrue, Open
<1>4. Attempts
  BY FS_EmptySet, BoundsAssumption DEF Init, Attempts, KeyIsCurrent
<1>5. PendingBound
  <2> SUFFICES ASSUME NEW s \in Sub PROVE Cardinality(OpenOf(s)) <= PendingLimit
    BY DEF PendingBound
  <2>1. \A e \in Source : row[<<s, e>>] = NoRow
    BY Pairs DEF Init
  <2>2. OpenOf(s) = {}
    BY <2>1, Words DEF OpenOf, Open
  <2> QED
    BY <2>2, FS_EmptySet, BoundsAssumption
<1> QED
  BY <1>1, <1>2, <1>3, <1>4, <1>5 DEF IInv

LEMMA NextHolds == IInv /\ [Next]_vars => IInv'
<1> SUFFICES ASSUME IInv, [Next]_vars PROVE IInv'
  OBVIOUS
<1>1. CASE \E e \in Source : Enqueue(e)
  BY <1>1, EnqueueStep
<1>2. CASE Tick \/ TickEnds
  BY <1>2, TickStep, TickEndsStep
<1>3. CASE Shutdown \/ Crash
  BY <1>3, ShutdownStep, CrashStep
<1>4. CASE \E a \in inFlight : Ends(a) \/ SettleThrows(a)
  BY <1>4, EndsStep, ThrowsStep
<1>5. CASE \E d \in Delivery : Due(d) \/ LeaseExpires(d)
  BY <1>5, DueStep, LeaseStep
<1>6. CASE \E s \in Sub : Rotate(s) \/ Resume(s) \/ Revoke(s)
  BY <1>6, RotateStep, ResumeStep, RevokeStep
<1>7. CASE UNCHANGED vars
  <2>1. inFlight' \subseteq Attempt /\ Attempts'
    BY <1>7, FewerAttempts DEF vars, IInv
  <2> QED
    BY <1>7, <2>1, RestKeeps DEF vars
<1> QED
  BY <1>1, <1>2, <1>3, <1>4, <1>5, <1>6, <1>7 DEF Next

LEMMA InvHolds == IInv => TableInv /\ KeyInv /\ ReceiptInv
<1> SUFFICES ASSUME IInv PROVE TableInv /\ KeyInv /\ ReceiptInv
  OBVIOUS
<1>1. \A d \in Delivery : row[d].status \in Status
  BY DEF IInv, Typed, Row
<1>2. TypeOK /\ PendingBound
  BY <1>1 DEF IInv, Waiting, Attempts, TypeOK
<1>3. StagedOnce
  BY DEF IInv, Rows, RowTrue, StagedOnce
<1>4. RevokedIsEmpty
  BY Pairs DEF IInv, Rows, RowTrue, RevokedIsEmpty, OpenOf
<1>5. AttemptsAreTries /\ ReceiptOfLatest
  BY DEF IInv, Rows, RowTrue, AttemptsAreTries, ReceiptOfLatest
<1> QED
  BY <1>2, <1>3, <1>4, <1>5
     DEF IInv, Attempts, TableInv, KeyInv, ReceiptInv

LEMMA IInvHolds == Spec => []IInv
<1> QED
  BY InitHolds, NextHolds, PTL DEF Spec

\* No subscription has more than its limit of open deliveries, no more
\* requests run than the concurrency allows, an event on record is staged
\* once, and the rows that wait are queued once each
\* (enqueueOutboundSessionEventInTransaction, tick,
\* claimOutboundEventDeliveries, compactOutboundEventDeliveries).
THEOREM TablesHold == Spec => []TableInv
<1> QED
  BY IInvHolds, InvHolds, PTL

\* "Rotation invalidates the previous key immediately and aborts in-flight
\* requests": nothing is under way with another key or for a revoked
\* subscription, and a revoked subscription's deliveries stay dropped.
THEOREM KeysHold == Spec => []KeyInv
<1> QED
  BY IInvHolds, InvHolds, PTL

\* A row counts the attempts that came to something, crashes included and
\* aborts excluded, and its receipt is of its latest lease
\* (settleOutboundEventDelivery compares the lease).
THEOREM ReceiptsHold == Spec => []ReceiptInv
<1> QED
  BY IInvHolds, InvHolds, PTL
=============================================================================
