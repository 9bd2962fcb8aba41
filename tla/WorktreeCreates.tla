-------------------------- MODULE WorktreeCreates --------------------------
(***************************************************************************)
(* The creation of one session worktree, from the clients that ask for it  *)
(* to the runner that does it:                                             *)
(*   - WorktreeCreateCoordinator (control-plane/src/                       *)
(*     worktree-create-coordinator.ts) and the route in front of it, which *)
(*     turn repeated HTTP requests into one runner request;                *)
(*   - the runner request in the hub, with its timeout and disconnects;    *)
(*   - the runner, which runs the worktree operations of a session one     *)
(*     after the other and joins equal creates that are in flight;         *)
(*   - the create_worktree tool, which polls by repeating its request, and *)
(*     the recovery card, which posts once and then reads.                 *)
(*                                                                         *)
(* All clients use the same coordinates (runner, session, base, branch):   *)
(* creates of different coordinates have different entries and meet only   *)
(* in the runner's chain.  The other operations of the session are         *)
(*   "choice"    attach, select, discard, retry_setup or generate_setup;   *)
(*   "another"   a create of other coordinates, or one without progress.   *)
(***************************************************************************)
EXTENDS Naturals, Sequences, FiniteSets, FiniteSetsExt, SequencesExt

CONSTANTS
    Agent,         \* calls of the create_worktree tool
    Card,          \* recovery cards in browser tabs
    MaxCreates,    \* bound: creates the coordinator starts
    MaxOthers,     \* bound: other operations
    MaxIncidents,  \* bound: worktree recovery incidents
    MaxClicks      \* bound: clicks on the cards

VARIABLES
    creates,       \* number of creates started: the last one's id
    entry,         \* the coordinator's entry of each create
    call,          \* the hub's request of each create, and its settling
    others,        \* the hub's requests of the other operations
    incident,      \* session.worktreeRecovery, 0 if none
    incidents,     \* incidents so far
    online,        \* the runner's socket is attached
    down, up,      \* frames to and from the runner, in order
    chain,         \* the runner's chain of worktree operations
    ended,         \* history: creates and choices done by the runner, in order
    agent, card,   \* the clients
    clicks,        \* clicks so far
    taken,         \* history: creates polled for whose entry a request took
    lost,          \* history: creates polled for whose entry a restart lost
    raced          \* history: creates answered, but not yet settled, when the
                   \* entries were invalidated

hubVars == <<call, others, online, down>>
runnerVars == <<chain, ended>>
clientVars == <<agent, card, clicks>>
pastVars == <<taken, lost, raced>>
vars == <<creates, entry, hubVars, incident, incidents, up, runnerVars,
          clientVars, pastVars>>

Create == 1 .. MaxCreates
Other == 1 .. MaxOthers

ASSUME BoundAssumption ==
    /\ MaxCreates \in Nat \ {0} /\ MaxOthers \in Nat
    /\ MaxIncidents \in Nat /\ MaxClicks \in Nat

OtherOp == {"choice", "another"}

NoEntry == [status |-> "none", recovery |-> 0, superseded |-> FALSE]

NoCard == [at |-> "out", id |-> 0, incident |-> 0]

Init ==
    /\ creates = 0
    /\ entry = [i \in Create |-> NoEntry]
    /\ call = [i \in Create |-> "none"]
    /\ others = [n \in Other |-> "none"]
    /\ incident = 0 /\ incidents = 0
    /\ online = TRUE
    /\ down = <<>> /\ up = <<>>
    /\ chain = <<>> /\ ended = <<>>
    /\ agent = [a \in Agent |-> [at |-> "idle", id |-> 0]]
    /\ card = [c \in Card |-> NoCard]
    /\ clicks = 0
    /\ taken = {} /\ lost = {} /\ raced = {}

\* No promise continuation is due: the event loop takes the next event.
Idle == \A i \in Create : call[i] \notin {"ok", "error"}

-----------------------------------------------------------------------------
(* startOrJoin and releaseTerminal, as the create route uses them.  The    *)
(* coordinator's two maps agree: with one key there is at most one entry.  *)

Live == {i \in Create : entry[i].status # "none"}

Current == IF Live = {} THEN 0 ELSE CHOOSE i \in Live : TRUE

\* Fault: an entry of an earlier incident is replaced while it runs.
StaleForIncident_Running(i) ==
    incident # 0 /\ entry[i].recovery # incident

\* A retained result does not answer a request of another incident.
StaleForIncident(i) ==
    /\ entry[i].status # "in_progress"
    /\ incident # 0 /\ entry[i].recovery # incident

Joins == Current # 0 /\ ~StaleForIncident(Current)

Polled == {agent[a].id : a \in {b \in Agent : agent[b].at = "polling"}}

\* What becomes of the entries that tools still poll for.
Remember ==
    /\ taken' = (taken \cup (Live \ Live')) \cap Polled'
    /\ lost' = lost \cap Polled'
    /\ UNCHANGED raced

cpVars == <<creates, entry, call, down>>

JoinRunning(i) ==
    /\ Joins /\ i = Current /\ entry[i].status = "in_progress"
    /\ UNCHANGED cpVars

\* A terminal answer is released with the request that collects it.
Collect(i, status) ==
    /\ Joins /\ i = Current /\ entry[i].status = status
    /\ entry' = [entry EXCEPT ![i] = NoEntry]
    /\ UNCHANGED <<creates, call, down>>

\* Fault: the stale entry is left in the map of ids.
StartNew_Leaves(i) ==
    /\ ~Joins /\ creates < MaxCreates /\ i = creates + 1
    /\ creates' = i
    /\ entry' = [entry EXCEPT ![i].status = "in_progress",
                             ![i].recovery = incident]
    /\ call' = [call EXCEPT ![i] = "sent"]
    /\ down' = Append(down, [op |-> "create", id |-> i])

\* The runner request is sent, or refused by the socket.
StartNew(i) ==
    /\ ~Joins /\ creates < MaxCreates /\ i = creates + 1
    /\ creates' = i
    /\ entry' = [j \in Create |->
                   IF j = i THEN [NoEntry EXCEPT !.status = "in_progress",
                                                 !.recovery = incident]
                   ELSE IF j = Current THEN NoEntry ELSE entry[j]]
    /\ \/ /\ call' = [call EXCEPT ![i] = "sent"]
          /\ down' = Append(down, [op |-> "create", id |-> i])
       \/ /\ call' = [call EXCEPT ![i] = "error"]
          /\ UNCHANGED down

\* The retention timer of a terminal entry.  A polling call comes back
\* every second and the retention is five minutes.
Expire(i) ==
    /\ Idle /\ entry[i].status \in {"completed", "failed"}
    /\ \A a \in Agent : agent[a].at # "polling"
    /\ entry' = [entry EXCEPT ![i] = NoEntry]
    /\ UNCHANGED <<creates, hubVars, incident, incidents, up, runnerVars,
                   clientVars, pastVars>>

-----------------------------------------------------------------------------
(* Settling: the continuations of the runner request.                      *)

\* retainTerminal follows: Expire is enabled from here on.
Settle(i) ==
    /\ call[i] \in {"ok", "error"}
    /\ call' = [call EXCEPT ![i] = "done"]
    /\ entry' = [entry EXCEPT ![i].status =
                   IF call[i] = "ok" THEN "completed" ELSE "failed"]
    /\ UNCHANGED <<creates, others, online, down, incident, incidents, up,
                   runnerVars, clientVars, pastVars>>

\* armRunnerRequestTimeout.
CreateTimesOut(i) ==
    /\ Idle /\ call[i] = "sent"
    /\ call' = [call EXCEPT ![i] = "error"]
    /\ UNCHANGED <<creates, entry, others, online, down, incident, incidents,
                   up, runnerVars, clientVars, pastVars>>

OtherTimesOut(n) ==
    /\ Idle /\ others[n] = "sent"
    /\ others' = [others EXCEPT ![n] = "gone"]
    /\ UNCHANGED <<creates, entry, call, online, down, incident, incidents,
                   up, runnerVars, clientVars, pastVars>>

\* detachRunner: every request is rejected, frames in flight are lost.
Disconnect ==
    /\ Idle /\ online
    /\ online' = FALSE
    /\ call' = [i \in Create |->
                  IF call[i] = "sent" THEN "error" ELSE call[i]]
    /\ others' = [n \in Other |->
                    IF others[n] = "sent" THEN "gone" ELSE others[n]]
    /\ down' = <<>> /\ up' = <<>>
    /\ UNCHANGED <<creates, entry, incident, incidents, runnerVars,
                   clientVars, pastVars>>

\* The control plane starts again: the coordinator and the requests are
\* gone, the session record and the runner are not.
Restart ==
    /\ lost' = lost \cup (Live \cap Polled)
    /\ entry' = [i \in Create |-> NoEntry]
    /\ call' = [i \in Create |->
                  IF call[i] \in {"sent", "ok", "error"} THEN "done"
                                                        ELSE call[i]]
    /\ others' = [n \in Other |->
                    IF others[n] = "sent" THEN "gone" ELSE others[n]]
    /\ online' = FALSE
    /\ down' = <<>> /\ up' = <<>>
    /\ UNCHANGED <<creates, incident, incidents, runnerVars, clientVars,
                   taken, raced>>

Reconnect ==
    /\ ~online /\ Idle
    /\ online' = TRUE
    /\ UNCHANGED <<creates, entry, call, others, down, incident, incidents,
                   up, runnerVars, clientVars, pastVars>>

-----------------------------------------------------------------------------
(* Frames from the runner.                                                 *)

\* Frames that came in one read are dispatched in one tick: continuations
\* of the first may still be due at the second.
Dispatches == up # <<>>

\* Fault: progress puts its operation back in progress.
RecordProgress_Revives ==
    /\ Dispatches /\ Head(up).op = "phase"
    /\ up' = Tail(up)
    /\ entry' = IF Head(up).id \in Live
                  THEN [entry EXCEPT ![Head(up).id].status = "in_progress"]
                  ELSE entry
    /\ UNCHANGED <<creates, hubVars, incident, incidents, runnerVars,
                   clientVars, pastVars>>

\* recordProgress: an operation in progress takes the phase, which nothing
\* here reads; any other stays as it is.
RecordProgress ==
    /\ Dispatches /\ Head(up).op = "phase"
    /\ up' = Tail(up)
    /\ UNCHANGED <<creates, entry, hubVars, incident, incidents, runnerVars,
                   clientVars, pastVars>>

\* resolveRunnerRequest for a create: a late reply finds no request.  A
\* success stores the snapshot, whose recovery incident is over, unless that
\* throws.
CreateReply ==
    /\ Dispatches /\ Head(up).op = "create"
    /\ up' = Tail(up)
    /\ \E i \in {Head(up).id}, stored \in {Head(up).ok, FALSE} :
         IF call[i] = "sent"
           THEN /\ call' = [call EXCEPT ![i] = IF stored THEN "ok" ELSE "error"]
                /\ incident' = IF stored THEN 0 ELSE incident
           ELSE UNCHANGED <<call, incident>>
    /\ UNCHANGED <<creates, entry, others, online, down, incidents,
                   runnerVars, clientVars, pastVars>>

Invalidated ==
    [i \in Create |->
       IF entry[i].status # "completed" THEN entry[i]
       ELSE [entry[i] EXCEPT !.status = "failed", !.superseded = TRUE]]

\* Fault: an entry that was superseded is dropped.
InvalidateSession_Deletes(op) ==
    [i \in Create |->
       IF op # "another" /\ entry[i].status = "completed" THEN NoEntry
                                                         ELSE entry[i]]

\* Fault: a create counts as a later choice.
InvalidateSession_Always(op) == Invalidated

\* Fault: a result that was superseded stays as it is.
InvalidateSession_Never(op) == entry

\* invalidateSession, after a successful operation other than a create.
InvalidateSession(op) == IF op = "another" THEN entry ELSE Invalidated

\* The reply of another operation, when its request still waits: its snapshot,
\* in which the incident may be over, is stored, unless that throws.
OtherReply ==
    /\ Dispatches /\ Head(up).op \in OtherOp
    /\ up' = Tail(up)
    /\ \E n \in {Head(up).id}, op \in {Head(up).op},
          stored \in {Head(up).ok, FALSE} :
         \/ /\ others[n] = "sent" /\ stored
            /\ others' = [others EXCEPT ![n] = "stored"]
            /\ entry' = InvalidateSession(op)
            /\ incident' \in {incident, 0}
            /\ raced' = IF op = "another" THEN raced
                        ELSE raced \cup {i \in Create : call[i] = "ok"}
         \/ /\ others[n] = "sent" /\ ~stored
            /\ others' = [others EXCEPT ![n] = "gone"]
            /\ UNCHANGED <<entry, incident, raced>>
         \/ /\ others[n] # "sent"
            /\ UNCHANGED <<others, entry, incident, raced>>
    /\ UNCHANGED <<creates, call, online, down, incidents, runnerVars,
                   clientVars, taken, lost>>

-----------------------------------------------------------------------------
(* The runner: runWorktreeOperation chains the operations of the session.  *)

Sent(frames) == up' = IF online THEN up \o frames ELSE <<>>

InFlight == {k \in DOMAIN chain : chain[k].op = "create"}

\* requestWorktree: an equal create in flight is joined, and its phase told.
RunnerTakes ==
    /\ down # <<>>
    /\ down' = Tail(down)
    /\ IF Head(down).op = "create" /\ InFlight # {}
         THEN \E k \in InFlight :
                /\ chain' = [chain EXCEPT ![k].ids = @ \cup {Head(down).id}]
                /\ Sent(IF chain[k].phase
                          THEN <<[op |-> "phase", id |-> Head(down).id]>>
                          ELSE <<>>)
         ELSE /\ chain' = Append(chain, [op |-> Head(down).op,
                                         ids |-> {Head(down).id},
                                         phase |-> FALSE])
              /\ UNCHANGED up
    /\ UNCHANGED <<creates, entry, call, others, online, incident, incidents,
                   ended, clientVars, pastVars>>

Told(ids, frame) ==
    LET order == SetToSortSeq(ids, <) IN
    [k \in DOMAIN order |-> [frame EXCEPT !.id = order[k]]]

\* report: the phase goes to every request of the operation.
RunnerReports ==
    /\ chain # <<>> /\ Head(chain).op = "create" /\ ~Head(chain).phase
    /\ chain' = [chain EXCEPT ![1].phase = TRUE]
    /\ Sent(Told(Head(chain).ids, [op |-> "phase", id |-> 0]))
    /\ UNCHANGED <<creates, entry, hubVars, incident, incidents, ended,
                   clientVars, pastVars>>

\* The operation at the head ends.
RunnerFinishes(ok) ==
    /\ chain # <<>>
    /\ chain' = Tail(chain)
    /\ \E h \in {Head(chain)} :
         /\ ended' = IF ok /\ h.op # "another"
                       THEN Append(ended, [op |-> h.op, ids |-> h.ids])
                       ELSE ended
         /\ Sent(Told(h.ids, [op |-> h.op, id |-> 0, ok |-> ok]))
    /\ UNCHANGED <<creates, entry, hubVars, incident, incidents, clientVars,
                   pastVars>>

-----------------------------------------------------------------------------
(* The other requests of the operator, and incidents.                      *)

AskOther(op, n) ==
    /\ Idle /\ online /\ others[n] = "none"
    /\ \A m \in 1 .. n - 1 : others[m] # "none"
    /\ others' = [others EXCEPT ![n] = "sent"]
    /\ down' = Append(down, [op |-> op, id |-> n])
    /\ UNCHANGED <<creates, entry, call, online, incident, incidents, up,
                   runnerVars, clientVars, pastVars>>

\* A snapshot of the runner reports that the active worktree is lost.
IncidentOpens ==
    /\ Idle /\ incident = 0 /\ incidents < MaxIncidents
    /\ incidents' = incidents + 1
    /\ incident' = incidents + 1
    /\ UNCHANGED <<creates, entry, hubVars, up, runnerVars, clientVars,
                   pastVars>>

-----------------------------------------------------------------------------
(* The create_worktree tool: it repeats its request while the answer is in *)
(* progress and ends with any other answer.                                *)

AgentGoes(a, at, i) == agent' = [agent EXCEPT ![a] = [at |-> at, id |-> i]]

AgentPosts(a) ==
    /\ Idle /\ online /\ agent[a].at # "done"
    /\ \E i \in Create :
         \/ JoinRunning(i) /\ AgentGoes(a, "polling", i)
         \/ StartNew(i) /\ AgentGoes(a, "polling", i)
         \/ \E s \in {"completed", "failed"} :
              Collect(i, s) /\ AgentGoes(a, "done", 0)
    /\ Remember
    /\ UNCHANGED <<others, online, incident, incidents, up, runnerVars, card,
                   clicks>>

\* The route refuses while the runner is offline, and the tool gives up.
AgentRefused(a) ==
    /\ Idle /\ ~online /\ agent[a].at = "polling"
    /\ AgentGoes(a, "done", 0)
    /\ UNCHANGED <<creates, entry, hubVars, incident, incidents, up,
                   runnerVars, card, clicks>>
    /\ Remember

-----------------------------------------------------------------------------
(* The recovery card.                                                      *)

\* The card has the id of the attempt it follows, or of the failed one that
\* it shows.  (No other attempt that it has shown has an entry any more.)
CardGoes(c, at, i) ==
    card' = [card EXCEPT ![c] =
               IF at = "out" THEN NoCard ELSE [@ EXCEPT !.at = at, !.id = i]]

CardOnly == UNCHANGED <<creates, entry, hubVars, incident, incidents, up,
                        runnerVars, agent, clicks, pastVars>>

Listed == {i \in Live : ~entry[i].superseded}

Mine(status) ==
    {i \in Listed : entry[i].status = status /\ entry[i].recovery = incident}

CardShows(c, at, i) ==
    card' = [card EXCEPT ![c] = [at |-> at, id |-> i, incident |-> incident]]

\* The page is loaded, or reloaded, during an incident: it reads what runs.
CardLoads(c) ==
    /\ Idle /\ incident # 0
    /\ \/ \E i \in Mine("in_progress") : CardShows(c, "following", i)
       \/ \E i \in Mine("failed") : CardShows(c, "idle", i)
       \/ Mine("completed") # {} /\ CardGoes(c, "out", 0)
       \/ /\ \A i \in Listed : entry[i].recovery # incident
          /\ CardShows(c, "idle", 0)
    /\ CardOnly

\* create: the answer of an attempt that is already shown only consumes it,
\* so the request is sent once more.
CardPosts(c, from) ==
    /\ Idle /\ online /\ card[c].at = from
    /\ \E i \in Create :
         \/ JoinRunning(i) /\ CardGoes(c, "following", i)
         \/ StartNew(i) /\ CardGoes(c, "following", i)
         \/ Collect(i, "completed") /\ CardGoes(c, "out", 0)
         \/ /\ Collect(i, "failed")
            /\ CardGoes(c, IF from = "idle" /\ card[c].id = i
                             THEN "again" ELSE "idle", 0)
    /\ UNCHANGED <<others, online, incident, incidents, up, runnerVars, agent>>
    /\ Remember

CardClicks(c) ==
    /\ clicks < MaxClicks
    /\ clicks' = clicks + 1
    /\ CardPosts(c, "idle")

CardPostsAgain(c) ==
    /\ CardPosts(c, "again")
    /\ UNCHANGED clicks

\* follow: the operations are read until the one in hand ends.  One that is
\* no longer listed leaves the session record to decide.
CardReads(c) ==
    /\ Idle /\ card[c].at = "following"
    /\ \E i \in {card[c].id} :
         \/ /\ i \in Listed /\ entry[i].status = "failed"
            /\ CardGoes(c, "idle", i)
         \/ /\ i \in Listed /\ entry[i].status = "completed"
            /\ CardGoes(c, "out", 0)
         \/ /\ i \notin Listed
            /\ CardGoes(c, IF card[c].incident = incident THEN "idle"
                                                        ELSE "out", 0)
    /\ CardOnly

\* The stream tells the page that its incident is over.
CardLeaves(c) ==
    /\ card[c].at # "out" /\ card[c].incident # incident
    /\ CardGoes(c, "out", 0)
    /\ CardOnly

-----------------------------------------------------------------------------
Next ==
    \/ \E i \in Create : Expire(i) \/ Settle(i) \/ CreateTimesOut(i)
    \/ \E n \in Other : OtherTimesOut(n) \/ \E op \in OtherOp : AskOther(op, n)
    \/ Disconnect \/ Restart \/ Reconnect
    \/ RecordProgress \/ CreateReply \/ OtherReply
    \/ RunnerTakes \/ RunnerReports \/ \E ok \in BOOLEAN : RunnerFinishes(ok)
    \/ IncidentOpens
    \/ \E a \in Agent : AgentPosts(a) \/ AgentRefused(a)
    \/ \E c \in Card : \/ CardLoads(c) \/ CardClicks(c) \/ CardPostsAgain(c)
                       \/ CardReads(c) \/ CardLeaves(c)

Spec == Init /\ [][Next]_vars

\* Continuations run, request timers fire (progress extends them a bounded
\* number of times), and clients come back every second.  Nothing is asked
\* of the runner.
Fairness ==
    /\ \A i \in Create : WF_vars(Settle(i)) /\ SF_vars(CreateTimesOut(i))
    /\ \A a \in Agent : SF_vars(AgentPosts(a) \/ AgentRefused(a))
    /\ \A c \in Card : SF_vars(CardReads(c))

FairSpec == Spec /\ Fairness

-----------------------------------------------------------------------------
(* Properties.                                                             *)

\* The shape of the coordinator, of the requests and of the clients.
TypeOK ==
    /\ creates \in 0 .. MaxCreates
    /\ \A i \in Create :
         /\ entry[i].status \in {"none", "in_progress", "completed", "failed"}
         /\ entry[i].recovery \in 0 .. MaxIncidents
         /\ entry[i].superseded => entry[i].status = "failed"
         /\ call[i] \in {"none", "sent", "ok", "error", "done"}
         /\ i > creates => entry[i] = NoEntry /\ call[i] = "none"
    /\ incident \in {0, incidents} /\ incidents \in 0 .. MaxIncidents
    /\ Cardinality(Live) <= 1 /\ Cardinality(InFlight) <= 1
    /\ \A a \in Agent : agent[a].at \in {"idle", "polling", "done"}
    /\ \A c \in Card : card[c].at \in {"out", "idle", "again", "following"}

\* "A running create is always joined, whatever incident started it": the
\* control plane never has two requests of the same create outstanding, and
\* an entry is in progress exactly while its request is outstanding, so no
\* late frame revives it and no poll waits for nothing.
OneOutstandingCreate ==
    LET waiting == {i \in Create : call[i] \in {"sent", "ok", "error"}} IN
    /\ Cardinality(waiting) <= 1
    /\ waiting = {i \in Create : entry[i].status = "in_progress"}

\* The coordinator's entries follow the requests that are outstanding.
EntryInv == TypeOK /\ OneOutstandingCreate

\* A poll of the tool, which asked for one create, starts another.
StartsSecond(a) ==
    /\ agent[a].at = "polling"
    /\ creates' # creates /\ agent'[a].id # agent[a].id

\* "Deletion would make that poll start a new create and silently undo the
\* newer operator choice" (invalidateSession).  A poll starts a second create
\* in three cases only, whatever operations succeed, fail or come late in
\* between: another client's request had collected the answer of the first,
\* or replaced it; a recovery incident has opened since the first was asked
\* for; or the control plane was restarted.  In these it can undo a choice.
PollsAskOnce ==
    [][\A a \in Agent : StartsSecond(a) =>
         \E i \in {agent[a].id} :
            \/ i \in taken \/ i \in lost
            \/ entry[i].status # "none" /\ entry[i].recovery < incident]_vars

\* On the runner, choice n succeeded after create i had.
EndedAfter(n, i) ==
    \E k, m \in DOMAIN ended :
        /\ k < m
        /\ ended[k].op = "create" /\ i \in ended[k].ids
        /\ ended[m].op = "choice" /\ ended[m].ids = {n}

Stored == {n \in Other : others[n] = "stored"}

\* "A later attach/select/discard has superseded the create-and-select
\* result" (invalidateSession): a create is not offered as completed once the
\* control plane has stored the result of an operation that the runner did
\* after it, except for one whose own answer came in the same read, just
\* before, and had not settled.  (A create of other coordinates supersedes
\* nothing.)
SupersededIsNotOffered ==
    \A i \in Create : entry[i].status = "completed" =>
        i \in raced \/ \A n \in Stored : ~EndedAfter(n, i)

\* "Session worktree selection changed after creation completed" is told of
\* a create only when the runner did such an operation after it.
FailureIsTrue ==
    \A i \in Create : entry[i].superseded => \E n \in Stored : EndedAfter(n, i)

\* What the coordinator says of a create agrees with the order in which the
\* runner did things.
OutcomeInv == SupersededIsNotOffered /\ FailureIsTrue

\* A call of the tool comes to an end, and a card stops following, whatever
\* the runner does (short of the bound on creates).
ClientsGetAnswers ==
    /\ \A a \in Agent :
         agent[a].at = "polling" ~>
             agent[a].at = "done" \/ creates = MaxCreates
    /\ \A c \in Card : card[c].at = "following" ~> card[c].at # "following"
=============================================================================
