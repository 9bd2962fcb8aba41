----------------------- MODULE WorktreeCreates_proofs -----------------------
(***************************************************************************)
(* Proofs about WorktreeCreates, for any clients, creates, operations,     *)
(* incidents, clicks and restarts: the coordinator's entries follow the    *)
(* requests that are outstanding, and a poll starts a second create in     *)
(* three cases only.                                                       *)
(***************************************************************************)
EXTENDS WorktreeCreates, SequenceTheorems, FiniteSetTheorems, TLAPS

Statuses == {"none", "in_progress", "completed", "failed"}
Calls == {"none", "sent", "ok", "error", "done"}
Ops == {"create"} \cup OtherOp

Entry == [status : Statuses, recovery : 0 .. MaxIncidents,
          superseded : BOOLEAN]
Operation == [op : Ops, ids : SUBSET Nat, phase : BOOLEAN]
Command == [op : Ops, id : Nat]
AgentState == [at : {"idle", "polling", "done"}, id : 0 .. MaxCreates]
CardState == [at : {"out", "idle", "again", "following"},
              id : 0 .. MaxCreates, incident : Nat]

\* The types of everything but the replies, the others and the clients.
Typed ==
    /\ creates \in 0 .. MaxCreates
    /\ entry \in [Create -> Entry] /\ call \in [Create -> Calls]
    /\ incident \in {0, incidents} /\ incidents \in 0 .. MaxIncidents
    /\ chain \in Seq(Operation) /\ down \in Seq(Command)

\* There is one entry, of an incident that has been; it is in progress while
\* its request is outstanding.
Coordinated ==
    /\ \A i, j \in Create :
         entry[i].status # "none" /\ entry[j].status # "none" => i = j
    /\ \A i \in Create :
         /\ entry[i].recovery <= incidents
         /\ entry[i].superseded => entry[i].status = "failed"
         /\ i > creates => entry[i] = NoEntry /\ call[i] = "none"
         /\ entry[i].status = "in_progress"
              <=> call[i] \in {"sent", "ok", "error"}

\* The runner has one create at a time.
OneInFlight ==
    \A k, m \in DOMAIN chain :
        chain[k].op = "create" /\ chain[m].op = "create" => k = m

\* What a tool polls for is still there, or it is known where it went.
Served(i) == entry[i].status # "none" \/ i \in taken \/ i \in lost

PollIsServed(a) ==
    agent[a].at = "polling" => agent[a].id \in Create /\ Served(agent[a].id)

PollsAreServed ==
    /\ agent \in [Agent -> AgentState]
    /\ card \in [Card -> CardState]
    /\ \A a \in Agent : PollIsServed(a)

\* Inductive.
IInv == Typed /\ Coordinated /\ OneInFlight /\ PollsAreServed

-----------------------------------------------------------------------------
(* The entries.                                                            *)

LEMMA CreateIds ==
    /\ MaxCreates \in Nat /\ 0 \notin Create
    /\ Create \subseteq Nat /\ Create \subseteq 0 .. MaxCreates
BY BoundAssumption DEF Create

LEMMA CurrentIs ==
    /\ Current = 0 => \A i \in Create : entry[i].status = "none"
    /\ Current # 0 => Current \in Create /\ entry[Current].status # "none"
<1>1. CASE Live = {}
  BY <1>1 DEF Current, Live
<1>2. CASE Live # {}
  <2>1. Current \in Live
    BY <1>2 DEF Current
  <2> QED
    BY <2>1, CreateIds DEF Live
<1> QED
  BY <1>1, <1>2

LEMMA NoEntryType == /\ NoEntry \in Entry /\ NoEntry.status = "none"
                     /\ NoEntry.superseded = FALSE /\ NoEntry.recovery = 0
BY BoundAssumption DEF NoEntry, Entry, Statuses

\* An entry is collected, or expires.
Dropped(i) ==
    /\ i \in Create /\ entry[i].status \in {"completed", "failed"}
    /\ entry' = [entry EXCEPT ![i] = NoEntry]
    /\ UNCHANGED <<creates, call, incidents>>

LEMMA DroppedKeeps ==
    ASSUME Typed, Coordinated, NEW i, Dropped(i)
    PROVE  entry' \in [Create -> Entry] /\ Coordinated'
<1>1. /\ entry' \in [Create -> Entry] /\ i \in Create
      /\ \A j \in Create : entry'[j] = IF j = i THEN NoEntry ELSE entry[j]
      /\ call' = call /\ creates' = creates /\ incidents' = incidents
  BY NoEntryType DEF Dropped, Typed
<1>2. 0 <= incidents
  BY DEF Typed
<1>3. Coordinated'
  BY <1>1, <1>2, NoEntryType DEF Coordinated, Dropped
<1> QED
  BY <1>1, <1>3

\* A create is started where no entry runs.
Started(i) ==
    /\ ~Joins /\ creates < MaxCreates /\ i = creates + 1
    /\ creates' = i
    /\ entry' = [j \in Create |->
                   IF j = i THEN [NoEntry EXCEPT !.status = "in_progress",
                                                 !.recovery = incident]
                   ELSE IF j = Current THEN NoEntry ELSE entry[j]]
    /\ \/ call' = [call EXCEPT ![i] = "sent"]
       \/ call' = [call EXCEPT ![i] = "error"]
    /\ UNCHANGED incidents

LEMMA StartedKeeps ==
    ASSUME Typed, Coordinated, NEW i, Started(i)
    PROVE  /\ creates' \in 0 .. MaxCreates /\ entry' \in [Create -> Entry]
           /\ call' \in [Create -> Calls] /\ Coordinated'
           /\ i \in Create
<1> DEFINE new == [NoEntry EXCEPT !.status = "in_progress",
                                  !.recovery = incident]
<1>1. /\ i \in Create /\ creates' = i /\ i > creates /\ i \in 0 .. MaxCreates
      /\ \A j \in Create : j > i => j > creates
  BY BoundAssumption DEF Started, Typed, Create
<1>2. /\ new \in Entry /\ new.status = "in_progress"
      /\ new.superseded = FALSE /\ new.recovery <= incidents
  <2>1. incident \in 0 .. MaxIncidents /\ incident <= incidents
    BY BoundAssumption DEF Typed
  <2>2. NoEntry \in Entry
    BY NoEntryType
  <2>3. new \in Entry /\ new.recovery = incident
    BY <2>1, <2>2 DEF Entry, Statuses
  <2> QED
    BY <2>1, <2>3 DEF NoEntry
<1> HIDE DEF new
<1>3. \A j \in Create : entry'[j] = IF j = i THEN new
                                    ELSE IF j = Current THEN NoEntry
                                    ELSE entry[j]
  BY DEF Started, new
<1>4. entry' \in [Create -> Entry]
  <2>1. \A j \in Create : entry'[j] \in Entry
    BY <1>2, <1>3, NoEntryType DEF Typed
  <2> QED
    BY <2>1 DEF Started
<1>5. /\ call' \in [Create -> Calls]
      /\ \A j \in Create : j # i => call'[j] = call[j]
      /\ call'[i] \in {"sent", "error"}
      /\ incidents' = incidents /\ 0 <= incidents
  BY <1>1 DEF Started, Typed, Calls
<1>6. \A j \in Create : entry[j].status # "none" => j = Current
  BY CurrentIs DEF Coordinated
<1>7. Current # 0 => entry[Current].status # "in_progress"
  BY DEF Started, Joins, StaleForIncident
<1>8. ASSUME NEW j \in Create, j # i
      PROVE  entry'[j] = NoEntry \/ (entry'[j] = entry[j] /\ j # Current)
  BY <1>3, <1>8
<1>9. ASSUME NEW j \in Create, j # i
      PROVE  entry'[j].status = "none"
  BY <1>6, <1>8, <1>9, NoEntryType
<1>10. \A j, k \in Create :
         entry'[j].status # "none" /\ entry'[k].status # "none" => j = k
  BY <1>9
<1>11. ASSUME NEW j \in Create
       PROVE  /\ entry'[j].recovery <= incidents'
              /\ entry'[j].superseded => entry'[j].status = "failed"
              /\ j > i => entry'[j] = NoEntry /\ call'[j] = "none"
              /\ entry'[j].status = "in_progress"
                   <=> call'[j] \in {"sent", "ok", "error"}
  <2>1. CASE j = i
    BY <1>1, <1>2, <1>3, <1>5, <2>1 DEF Create
  <2>2. CASE j # i
    <3>1. entry'[j].superseded => entry'[j].status = "failed"
      BY <1>8, <2>2, NoEntryType DEF Coordinated
    <3>2. j > i => entry'[j] = NoEntry /\ call'[j] = "none"
      BY <1>1, <1>5, <1>8, <2>2 DEF Coordinated
    <3>3. call[j] \notin {"sent", "ok", "error"}
      <4>1. entry[j].status # "in_progress"
        BY <1>6, <1>7, CreateIds
      <4> QED
        BY <4>1 DEF Coordinated
    <3>4. entry'[j].recovery <= incidents'
      BY <1>5, <1>8, <2>2, NoEntryType DEF Coordinated
    <3> QED
      BY <1>5, <1>9, <2>2, <3>1, <3>2, <3>3, <3>4
  <2> QED
    BY <2>1, <2>2
<1>12. Coordinated'
  BY <1>1, <1>10, <1>11 DEF Coordinated
<1> QED
  BY <1>1, <1>4, <1>5, <1>12

-----------------------------------------------------------------------------
(* The steps of the coordinator and of the hub.                            *)

\* The clients when no entry goes, or only one that is known to have gone.
LEMMA ClientsRest ==
    ASSUME PollsAreServed, UNCHANGED clientVars,
           taken \subseteq taken', lost \subseteq lost',
           \A i \in Create \cap Polled : entry[i].status # "none" => Served(i)'
    PROVE  PollsAreServed'
<1>1. agent' = agent /\ card' = card
  BY DEF clientVars
<1>2. ASSUME NEW a \in Agent
      PROVE  PollIsServed(a)'
  <2>1. SUFFICES ASSUME agent[a].at = "polling"
                 PROVE  agent[a].id \in Create /\ Served(agent[a].id)'
    BY <1>1 DEF PollIsServed, Served
  <2>2. agent[a].id \in Create \cap Polled /\ Served(agent[a].id)
    BY <2>1 DEF PollsAreServed, PollIsServed, Polled
  <2>3. CASE entry[agent[a].id].status # "none"
    BY <1>1, <2>2, <2>3 DEF Served
  <2>4. CASE agent[a].id \in taken \/ agent[a].id \in lost
    BY <1>1, <2>2, <2>4 DEF Served
  <2> QED
    BY <2>2, <2>3, <2>4 DEF Served
<1> QED
  BY <1>1, <1>2 DEF PollsAreServed

LEMMA ExpireStep ==
    ASSUME IInv, NEW i \in Create, Expire(i)
    PROVE  IInv'
<1>1. /\ Dropped(i)
      /\ UNCHANGED <<incident, incidents, chain, down, agent, card>>
  BY DEF Expire, Dropped, hubVars, runnerVars, clientVars
<1>2. Coordinated' /\ entry' \in [Create -> Entry]
  BY <1>1, DroppedKeeps DEF IInv
<1>3. Typed' /\ OneInFlight'
  BY <1>1, <1>2 DEF IInv, Typed, OneInFlight, Dropped
<1>4. \A a \in Agent : agent[a].at # "polling"
  BY DEF Expire
<1>5. PollsAreServed'
  BY <1>1, <1>4 DEF IInv, PollsAreServed, PollIsServed
<1> QED
  BY <1>2, <1>3, <1>5 DEF IInv

LEMMA SettleStep ==
    ASSUME IInv, NEW i \in Create, Settle(i)
    PROVE  IInv'
<1> DEFINE end == IF call[i] = "ok" THEN "completed" ELSE "failed"
<1>1. /\ call[i] \in {"ok", "error"}
      /\ call' = [call EXCEPT ![i] = "done"]
      /\ entry' = [entry EXCEPT ![i].status = end]
      /\ UNCHANGED <<creates, incident, incidents, chain, down, clientVars,
                     taken, lost>>
  BY DEF Settle, runnerVars, pastVars
<1>2. /\ entry \in [Create -> Entry] /\ call \in [Create -> Calls]
      /\ entry[i].status = "in_progress" /\ entry[i] \in Entry
  BY <1>1 DEF IInv, Typed, Coordinated
<1>3. /\ \A j \in Create : j # i => entry'[j] = entry[j] /\ call'[j] = call[j]
      /\ entry'[i] = [entry[i] EXCEPT !.status = end]
      /\ call'[i] = "done"
  BY <1>1, <1>2
<1>4. /\ entry'[i] \in Entry /\ entry'[i].status = end
      /\ entry'[i].superseded = entry[i].superseded
      /\ entry'[i].recovery = entry[i].recovery
  BY <1>2, <1>3 DEF Entry, Statuses
<1>5. entry' \in [Create -> Entry] /\ call' \in [Create -> Calls]
  <2>1. entry' = [j \in Create |-> entry'[j]]
    BY <1>1, <1>2
  <2>2. \A j \in Create : entry'[j] \in Entry
    BY <1>2, <1>3, <1>4
  <2>3. call' \in [Create -> Calls]
    BY <1>1, <1>2 DEF Calls
  <2> QED
    BY <2>1, <2>2, <2>3
<1>6. Typed' /\ OneInFlight'
  BY <1>1, <1>5 DEF IInv, Typed, OneInFlight
<1>7. Coordinated'
  <2>1. entry'[i].superseded = FALSE
    BY <1>2, <1>4 DEF IInv, Coordinated, Entry
  <2> QED
    BY <1>1, <1>2, <1>3, <1>4, <2>1 DEF IInv, Coordinated
<1>8. \A j \in Create : entry[j].status # "none" => entry'[j].status # "none"
  BY <1>3, <1>4
<1>9. PollsAreServed'
  BY <1>1, <1>8, ClientsRest DEF IInv, Served
<1> QED
  BY <1>6, <1>7, <1>9 DEF IInv

\* A create's request ends where it was waiting, and nothing else happens.
LEMMA CallsEnd ==
    ASSUME IInv, call' \in [Create -> Calls],
           \A i \in Create : call'[i] = call[i]
              \/ (call[i] = "sent" /\ call'[i] \in {"ok", "error"}),
           UNCHANGED <<creates, entry, incidents, clientVars, taken, lost>>
    PROVE  Coordinated' /\ PollsAreServed'
<1>1. Coordinated'
  BY DEF IInv, Coordinated
<1>2. PollsAreServed'
  BY ClientsRest DEF IInv, Served
<1> QED
  BY <1>1, <1>2

LEMMA TimesOutStep ==
    ASSUME IInv, NEW i \in Create, CreateTimesOut(i)
    PROVE  IInv'
<1>1. /\ call[i] = "sent" /\ call' = [call EXCEPT ![i] = "error"]
      /\ UNCHANGED <<creates, entry, incident, incidents, chain, down,
                     clientVars, taken, lost>>
  BY DEF CreateTimesOut, runnerVars, pastVars
<1>2. /\ call' \in [Create -> Calls]
      /\ \A j \in Create : call'[j] = call[j]
              \/ (call[j] = "sent" /\ call'[j] \in {"ok", "error"})
  BY <1>1 DEF IInv, Typed, Calls
<1>3. Coordinated' /\ PollsAreServed'
  BY <1>1, <1>2, CallsEnd
<1>4. Typed' /\ OneInFlight'
  BY <1>1, <1>2 DEF IInv, Typed, OneInFlight
<1> QED
  BY <1>3, <1>4 DEF IInv

LEMMA DisconnectStep ==
    ASSUME IInv, Disconnect
    PROVE  IInv'
<1>1. /\ call' = [i \in Create |->
                    IF call[i] = "sent" THEN "error" ELSE call[i]]
      /\ down' = <<>>
      /\ UNCHANGED <<creates, entry, incident, incidents, chain, clientVars,
                     taken, lost>>
  BY DEF Disconnect, runnerVars, pastVars
<1>2. /\ call' \in [Create -> Calls]
      /\ \A j \in Create : call'[j] = call[j]
              \/ (call[j] = "sent" /\ call'[j] \in {"ok", "error"})
  BY <1>1 DEF IInv, Typed, Calls
<1>3. Coordinated' /\ PollsAreServed'
  BY <1>1, <1>2, CallsEnd
<1>4. Typed'
  BY <1>1, <1>2, EmptySeq DEF IInv, Typed
<1>5. OneInFlight'
  BY <1>1 DEF IInv, OneInFlight
<1> QED
  BY <1>3, <1>4, <1>5 DEF IInv

LEMMA RestartStep ==
    ASSUME IInv, Restart
    PROVE  IInv'
<1>1. /\ entry' = [i \in Create |-> NoEntry]
      /\ call' = [i \in Create |->
                    IF call[i] \in {"sent", "ok", "error"} THEN "done"
                                                          ELSE call[i]]
      /\ down' = <<>> /\ taken' = taken
      /\ lost' = lost \cup (Live \cap Polled)
      /\ UNCHANGED <<creates, incident, incidents, chain, clientVars>>
  BY DEF Restart, runnerVars
<1>2. entry' \in [Create -> Entry] /\ call' \in [Create -> Calls]
  BY <1>1, NoEntryType DEF IInv, Typed, Calls
<1>3. Typed' /\ OneInFlight'
  BY <1>1, <1>2, EmptySeq DEF IInv, Typed, OneInFlight
<1>4. Coordinated'
  <2>1. 0 <= incidents
    BY DEF IInv, Typed
  <2> QED
    BY <1>1, <1>2, <2>1, NoEntryType DEF IInv, Coordinated, Calls
<1>5. PollsAreServed'
  <2>1. \A i \in Create \cap Polled : entry[i].status # "none" => i \in lost'
    BY <1>1 DEF Live
  <2> QED
    BY <1>1, <2>1, ClientsRest DEF IInv, Served
<1> QED
  BY <1>3, <1>4, <1>5 DEF IInv

LEMMA ReplyStep ==
    ASSUME IInv, CreateReply
    PROVE  IInv'
<1>1. PICK x \in {Head(up).id}, y \in {"ok", "error"} :
        \/ /\ call[x] = "sent" /\ call' = [call EXCEPT ![x] = y]
           /\ incident' \in {0, incident}
        \/ call' = call /\ incident' = incident
  <2>1. PICK x \in {Head(up).id}, stored \in {Head(up).ok, FALSE} :
          IF call[x] = "sent"
            THEN /\ call' = [call EXCEPT ![x] =
                               IF stored THEN "ok" ELSE "error"]
                 /\ incident' = IF stored THEN 0 ELSE incident
            ELSE UNCHANGED <<call, incident>>
    BY Zenon DEF CreateReply
  <2> QED
    BY <2>1
<1>2. UNCHANGED <<creates, entry, incidents, chain, down, clientVars, taken,
                  lost>>
  BY DEF CreateReply, runnerVars, pastVars
<1>3. /\ call' \in [Create -> Calls]
      /\ \A j \in Create : call'[j] = call[j]
              \/ (call[j] = "sent" /\ call'[j] \in {"ok", "error"})
  BY <1>1 DEF IInv, Typed, Calls
<1>4. Coordinated' /\ PollsAreServed'
  BY <1>2, <1>3, CallsEnd
<1>5. Typed' /\ OneInFlight'
  BY <1>1, <1>2, <1>3 DEF IInv, Typed, OneInFlight
<1> QED
  BY <1>4, <1>5 DEF IInv

\* Another operation succeeded: completed creates are superseded.
LEMMA InvalidatedKeeps ==
    ASSUME Typed, Coordinated, entry' = Invalidated,
           UNCHANGED <<creates, call, incidents>>
    PROVE  /\ entry' \in [Create -> Entry] /\ Coordinated'
           /\ \A i \in Create : entry[i].status # "none" =>
                entry'[i].status # "none"
<1>1. \A i \in Create :
        /\ entry'[i] \in Entry
        /\ \/ entry[i].status # "completed" /\ entry'[i] = entry[i]
           \/ /\ entry[i].status = "completed"
              /\ entry'[i].status = "failed" /\ entry'[i].superseded
              /\ entry'[i].recovery = entry[i].recovery
  <2> TAKE i \in Create
  <2>1. entry[i] \in Entry
    BY DEF Typed
  <2>2. entry'[i] = IF entry[i].status # "completed" THEN entry[i]
            ELSE [entry[i] EXCEPT !.status = "failed", !.superseded = TRUE]
    BY DEF Invalidated
  <2> QED
    BY <2>1, <2>2 DEF Entry, Statuses
<1>2. entry' \in [Create -> Entry]
  BY <1>1 DEF Invalidated
<1>3. Coordinated'
  BY <1>1, NoEntryType DEF Coordinated
<1> QED
  BY <1>1, <1>2, <1>3

LEMMA OtherReplyStep ==
    ASSUME IInv, OtherReply
    PROVE  IInv'
<1>1. UNCHANGED <<creates, call, incidents, chain, down, clientVars, taken,
                  lost>>
  BY DEF OtherReply, runnerVars
<1>2. incident' \in {0, incident} /\ (entry' = entry \/ entry' = Invalidated)
  BY DEF OtherReply, InvalidateSession
<1>3. /\ entry' \in [Create -> Entry] /\ Coordinated'
      /\ \A i \in Create : entry[i].status # "none" =>
           entry'[i].status # "none"
  <2>1. CASE entry' = entry
    BY <1>1, <2>1 DEF IInv, Typed, Coordinated
  <2>2. CASE entry' = Invalidated
    BY <1>1, <2>2, InvalidatedKeeps DEF IInv
  <2> QED
    BY <1>2, <2>1, <2>2
<1>4. Typed' /\ OneInFlight'
  BY <1>1, <1>2, <1>3 DEF IInv, Typed, OneInFlight
<1>5. PollsAreServed'
  BY <1>1, <1>3, ClientsRest DEF IInv, Served
<1> QED
  BY <1>3, <1>4, <1>5 DEF IInv

-----------------------------------------------------------------------------
(* The runner's steps.                                                     *)

\* The coordinator and the clients, when only frames or the runner move.
LEMMA CoordinatorRests ==
    ASSUME IInv, chain' \in Seq(Operation), down' \in Seq(Command),
           OneInFlight',
           UNCHANGED <<creates, entry, call, incident, incidents, clientVars,
                       taken, lost>>
    PROVE  IInv'
<1>1. Typed'
  BY DEF IInv, Typed
<1>2. Coordinated'
  BY DEF IInv, Coordinated
<1>3. PollsAreServed'
  BY ClientsRest DEF IInv, Served
<1> QED
  BY <1>1, <1>2, <1>3 DEF IInv

\* Steps that move neither the runner's chain nor the frames to it.
LEMMA RunnerRests ==
    ASSUME IInv, UNCHANGED <<creates, entry, call, incident, incidents,
                             clientVars, taken, lost, chain, down>>
    PROVE  IInv'
<1>1. chain' \in Seq(Operation) /\ down' \in Seq(Command)
  BY DEF IInv, Typed
<1>2. OneInFlight'
  BY DEF IInv, OneInFlight
<1> QED
  BY <1>1, <1>2, CoordinatorRests

LEMMA TakesStep ==
    ASSUME IInv, RunnerTakes
    PROVE  IInv'
<1> DEFINE h == Head(down)
<1>1. /\ down # <<>> /\ down' = Tail(down)
      /\ UNCHANGED <<creates, entry, call, incident, incidents, clientVars,
                     taken, lost>>
  BY DEF RunnerTakes, pastVars
<1>2. down \in Seq(Command) /\ chain \in Seq(Operation) /\ OneInFlight
  BY DEF IInv, Typed
<1>3. h \in Command /\ down' \in Seq(Command)
  BY <1>1, <1>2, HeadTailProperties
<1>4. h.id \in Nat /\ h.op \in Ops
  BY <1>3 DEF Command
<1>5. DOMAIN chain = 1 .. Len(chain) /\ Len(chain) \in Nat
  BY <1>2, LenProperties
<1>6. CASE h.op = "create" /\ InFlight # {}
  <2>1. PICK k \in InFlight :
          chain' = [chain EXCEPT ![k].ids = @ \cup {h.id}]
    BY <1>6 DEF RunnerTakes
  <2> DEFINE e == [chain[k] EXCEPT !.ids = @ \cup {h.id}]
  <2>2. /\ k \in DOMAIN chain /\ chain[k].op = "create"
        /\ chain[k] \in Operation
    BY <1>2, <1>5, ElementOfSeq DEF InFlight
  <2>3. e \in Operation /\ e.op = "create"
    BY <1>4, <2>2 DEF Operation
  <2>4. chain' = [chain EXCEPT ![k] = e]
    BY <2>1
  <2> HIDE DEF e
  <2>5. /\ chain' \in Seq(Operation) /\ DOMAIN chain' = DOMAIN chain
        /\ \A m \in DOMAIN chain :
             chain'[m] = IF m = k THEN e ELSE chain[m]
    BY <1>2, <1>5, <2>2, <2>3, <2>4, ExceptSeq, LenProperties
  <2>6. OneInFlight'
    BY <1>2, <2>2, <2>3, <2>5 DEF OneInFlight
  <2> QED
    BY <1>1, <1>3, <2>5, <2>6, CoordinatorRests
<1>7. CASE ~(h.op = "create" /\ InFlight # {})
  <2> DEFINE e == [op |-> h.op, ids |-> {h.id}, phase |-> FALSE]
  <2>1. chain' = Append(chain, e)
    BY <1>7 DEF RunnerTakes
  <2>2. e \in Operation /\ e.op = h.op
    BY <1>4 DEF Operation
  <2> HIDE DEF e
  <2>3. /\ chain' \in Seq(Operation) /\ DOMAIN chain' = 1 .. Len(chain) + 1
        /\ \A m \in 1 .. Len(chain) : chain'[m] = chain[m]
        /\ chain'[Len(chain) + 1] = e
    BY <1>2, <2>1, <2>2, AppendProperties, LenProperties
  <2>4. ASSUME NEW m \in DOMAIN chain'
        PROVE  \/ m \in DOMAIN chain /\ chain'[m] = chain[m]
               \/ m = Len(chain) + 1 /\ chain'[m] = e
    BY <1>5, <2>3
  <2>5. h.op = "create" =>
          \A m \in DOMAIN chain : chain[m].op # "create"
    BY <1>7 DEF InFlight
  <2>6. OneInFlight'
    BY <1>2, <2>2, <2>4, <2>5 DEF OneInFlight
  <2> QED
    BY <1>1, <1>3, <2>3, <2>6, CoordinatorRests
<1> QED
  BY <1>6, <1>7

LEMMA ReportsStep ==
    ASSUME IInv, RunnerReports
    PROVE  IInv'
<1>1. /\ chain # <<>> /\ chain' = [chain EXCEPT ![1].phase = TRUE]
      /\ UNCHANGED <<creates, entry, call, incident, incidents, clientVars,
                     taken, lost, down>>
  BY DEF RunnerReports, hubVars, pastVars
<1>2. down \in Seq(Command) /\ chain \in Seq(Operation) /\ OneInFlight
  BY DEF IInv, Typed
<1>3. /\ DOMAIN chain = 1 .. Len(chain) /\ Len(chain) \in Nat
      /\ 1 \in DOMAIN chain /\ chain[1] \in Operation
  BY <1>1, <1>2, LenProperties, EmptySeq, ElementOfSeq
<1> DEFINE e == [chain[1] EXCEPT !.phase = TRUE]
<1>4. e \in Operation /\ e.op = chain[1].op
  BY <1>3 DEF Operation
<1>5. chain' = [chain EXCEPT ![1] = e]
  BY <1>1
<1> HIDE DEF e
<1>6. /\ chain' \in Seq(Operation) /\ DOMAIN chain' = DOMAIN chain
      /\ \A m \in DOMAIN chain : chain'[m].op = chain[m].op
  BY <1>2, <1>3, <1>4, <1>5, ExceptSeq, LenProperties
<1>7. OneInFlight'
  BY <1>2, <1>6 DEF OneInFlight
<1> QED
  BY <1>1, <1>2, <1>6, <1>7, CoordinatorRests

LEMMA FinishesStep ==
    ASSUME IInv, NEW ok \in BOOLEAN, RunnerFinishes(ok)
    PROVE  IInv'
<1>1. /\ chain # <<>> /\ chain' = Tail(chain)
      /\ UNCHANGED <<creates, entry, call, incident, incidents, clientVars,
                     taken, lost, down>>
  BY DEF RunnerFinishes, hubVars, pastVars
<1>2. down \in Seq(Command) /\ chain \in Seq(Operation) /\ OneInFlight
  BY DEF IInv, Typed
<1>3. /\ chain' \in Seq(Operation)
      /\ \A m \in DOMAIN chain' :
           m + 1 \in DOMAIN chain /\ chain'[m] = chain[m + 1] /\ m \in Nat
  BY <1>1, <1>2, LenProperties, EmptySeq, HeadTailProperties
<1>4. OneInFlight'
  <2>1. ASSUME NEW m \in DOMAIN chain', NEW n \in DOMAIN chain',
               chain'[m].op = "create", chain'[n].op = "create"
        PROVE  m = n
    <3>1. m + 1 = n + 1
      BY <1>2, <1>3, <2>1 DEF OneInFlight
    <3> QED
      BY <1>3, <3>1
  <2> QED
    BY <2>1 DEF OneInFlight
<1> QED
  BY <1>1, <1>2, <1>3, <1>4, CoordinatorRests

LEMMA AskStep ==
    ASSUME IInv, NEW op \in OtherOp, NEW n \in Other, AskOther(op, n)
    PROVE  IInv'
<1>1. /\ down' = Append(down, [op |-> op, id |-> n])
      /\ UNCHANGED <<creates, entry, call, incident, incidents, clientVars,
                     taken, lost, chain>>
  BY DEF AskOther, runnerVars, pastVars
<1>2. /\ down \in Seq(Command) /\ chain' \in Seq(Operation) /\ OneInFlight'
      /\ [op |-> op, id |-> n] \in Command
  BY <1>1 DEF IInv, Typed, OneInFlight, Command, Ops, Other
<1>3. down' \in Seq(Command)
  BY <1>1, <1>2, AppendProperties
<1> QED
  BY <1>1, <1>2, <1>3, CoordinatorRests

LEMMA FramesStep ==
    ASSUME IInv, \/ \E n \in Other : OtherTimesOut(n)
                 \/ Reconnect \/ RecordProgress
    PROVE  IInv'
<1>1. UNCHANGED <<creates, entry, call, incident, incidents, clientVars,
                  taken, lost, chain, down>>
  BY DEF OtherTimesOut, Reconnect, RecordProgress, runnerVars, hubVars,
         pastVars
<1> QED
  BY <1>1, RunnerRests

LEMMA IncidentStep ==
    ASSUME IInv, IncidentOpens
    PROVE  IInv'
<1>1. /\ incidents < MaxIncidents
      /\ incidents' = incidents + 1 /\ incident' = incidents + 1
      /\ UNCHANGED <<creates, entry, call, clientVars, taken, lost, chain,
                     down>>
  BY DEF IncidentOpens, hubVars, runnerVars, pastVars
<1>2. incidents' \in 0 .. MaxIncidents /\ incident' \in {0, incidents'}
  BY <1>1, BoundAssumption DEF IInv, Typed
<1>3. Typed' /\ OneInFlight'
  BY <1>1, <1>2 DEF IInv, Typed, OneInFlight
<1>4. Coordinated'
  <2>1. \A i \in Create : entry[i].recovery \in Nat
    BY BoundAssumption DEF IInv, Typed, Entry
  <2> QED
    BY <1>1, <2>1 DEF IInv, Typed, Coordinated
<1>5. PollsAreServed'
  BY <1>1, ClientsRest DEF IInv, Served
<1> QED
  BY <1>3, <1>4, <1>5 DEF IInv

-----------------------------------------------------------------------------
(* The clients' steps.                                                     *)

\* What a request leaves to its client.
Acted == Typed' /\ Coordinated' /\ OneInFlight'

LEMMA JoinActs ==
    ASSUME IInv, NEW i \in Create, JoinRunning(i),
           UNCHANGED <<incident, incidents, chain>>
    PROVE  Acted /\ entry'[i].status # "none"
<1>1. /\ UNCHANGED <<creates, entry, call, down>>
      /\ entry[i].status = "in_progress"
  BY DEF JoinRunning, cpVars
<1>2. Typed' /\ Coordinated' /\ OneInFlight'
  BY <1>1 DEF IInv, Typed, Coordinated, OneInFlight
<1> QED
  BY <1>1, <1>2 DEF Acted

LEMMA CollectActs ==
    ASSUME IInv, NEW i \in Create, NEW s \in {"completed", "failed"},
           Collect(i, s), UNCHANGED <<incident, incidents, chain>>
    PROVE  Acted
<1>1. Dropped(i) /\ UNCHANGED down
  BY DEF Collect, Dropped
<1>2. Coordinated' /\ entry' \in [Create -> Entry]
  BY <1>1, DroppedKeeps DEF IInv
<1>3. Typed' /\ OneInFlight'
  BY <1>1, <1>2 DEF IInv, Typed, OneInFlight, Dropped
<1> QED
  BY <1>2, <1>3 DEF Acted

LEMMA StartActs ==
    ASSUME IInv, NEW i \in Create, StartNew(i),
           UNCHANGED <<incident, incidents, chain>>
    PROVE  Acted /\ entry'[i].status # "none"
<1>1. Started(i)
  BY DEF StartNew, Started
<1>2. /\ creates' \in 0 .. MaxCreates /\ entry' \in [Create -> Entry]
      /\ call' \in [Create -> Calls] /\ Coordinated'
  BY <1>1, StartedKeeps DEF IInv
<1>3. down' \in Seq(Command)
  <2>1. down \in Seq(Command) /\ [op |-> "create", id |-> i] \in Command
    BY CreateIds DEF IInv, Typed, Command, Ops
  <2>2. \/ down' = Append(down, [op |-> "create", id |-> i])
        \/ down' = down
    BY DEF StartNew
  <2> QED
    BY <2>1, <2>2, AppendProperties
<1>4. Typed' /\ OneInFlight'
  BY <1>2, <1>3 DEF IInv, Typed, OneInFlight
<1>5. entry'[i].status = "in_progress"
  BY DEF StartNew, NoEntry
<1> QED
  BY <1>2, <1>4, <1>5 DEF Acted

\* The entry that a tool polls for does not go without a trace.
LEMMA RememberServes ==
    ASSUME Remember, NEW i \in Create, i \in Polled', Served(i)
    PROVE  Served(i)'
<1>1. CASE entry[i].status # "none"
  <2>1. i \in Live /\ (i \in Live' => entry'[i].status # "none")
    BY <1>1 DEF Live
  <2> QED
    BY <2>1 DEF Served, Remember
<1>2. CASE i \in taken \/ i \in lost
  BY <1>2 DEF Served, Remember
<1> QED
  BY <1>1, <1>2 DEF Served

\* So a tool that another client's request leaves alone is still served.
LEMMA RestServed ==
    ASSUME Remember, NEW b \in Agent, agent'[b] = agent[b], PollIsServed(b)
    PROVE  PollIsServed(b)'
<1>1. SUFFICES ASSUME NEW i, i = agent[b].id, agent[b].at = "polling"
               PROVE  i \in Create /\ Served(i)'
  BY DEF PollIsServed, Served
<1>2. i \in Create /\ Served(i)
  BY <1>1 DEF PollIsServed
<1>3. i \in Polled'
  BY <1>1 DEF Polled
<1> QED
  BY <1>2, <1>3, RememberServes

LEMMA AgentPostsStep ==
    ASSUME IInv, NEW a \in Agent, AgentPosts(a)
    PROVE  IInv'
<1>1. UNCHANGED <<incident, incidents, chain, card>> /\ Remember
  BY DEF AgentPosts, runnerVars
<1>2. PICK i \in Create :
         \/ JoinRunning(i) /\ AgentGoes(a, "polling", i)
         \/ StartNew(i) /\ AgentGoes(a, "polling", i)
         \/ \E s \in {"completed", "failed"} :
              Collect(i, s) /\ AgentGoes(a, "done", 0)
  BY DEF AgentPosts
<1>3. /\ Acted
      /\ \/ AgentGoes(a, "polling", i) /\ entry'[i].status # "none"
         \/ AgentGoes(a, "done", 0)
  BY <1>1, <1>2, JoinActs, StartActs, CollectActs
<1>4. PICK at \in {"polling", "done"}, j \in Create \cup {0} :
        /\ agent' = [agent EXCEPT ![a] = [at |-> at, id |-> j]]
        /\ at = "polling" => j \in Create /\ entry'[j].status # "none"
  BY <1>3 DEF AgentGoes
<1>5. j \in 0 .. MaxCreates /\ agent \in [Agent -> AgentState]
  BY CreateIds DEF IInv, PollsAreServed
<1>6. agent' \in [Agent -> AgentState]
  BY <1>4, <1>5 DEF AgentState
<1>7. ASSUME NEW b \in Agent
      PROVE  PollIsServed(b)'
  <2>1. CASE b = a
    BY <1>4, <1>5, <2>1 DEF PollIsServed, Served
  <2>2. CASE b # a
    <3>1. agent'[b] = agent[b]
      BY <1>4, <1>5, <2>2
    <3> QED
      BY <1>1, <3>1, RestServed DEF IInv, PollsAreServed
  <2> QED
    BY <2>1, <2>2
<1>8. PollsAreServed'
  BY <1>1, <1>6, <1>7 DEF IInv, PollsAreServed
<1> QED
  BY <1>3, <1>8 DEF IInv, Acted

LEMMA AgentRefusedStep ==
    ASSUME IInv, NEW a \in Agent, AgentRefused(a)
    PROVE  IInv'
<1>1. /\ UNCHANGED <<creates, entry, call, incident, incidents, card, chain,
                     down>>
      /\ agent' = [agent EXCEPT ![a] = [at |-> "done", id |-> 0]]
      /\ Remember
  BY DEF AgentRefused, AgentGoes, hubVars, runnerVars
<1>2. Typed' /\ Coordinated' /\ OneInFlight'
  BY <1>1 DEF IInv, Typed, Coordinated, OneInFlight
<1>3. agent \in [Agent -> AgentState] /\ 0 \in 0 .. MaxCreates
  BY CreateIds DEF IInv, PollsAreServed
<1>4. agent' \in [Agent -> AgentState]
  BY <1>1, <1>3 DEF AgentState
<1>5. ASSUME NEW b \in Agent
      PROVE  PollIsServed(b)'
  <2>1. CASE b = a
    BY <1>1, <1>3, <2>1 DEF PollIsServed
  <2>2. CASE b # a
    <3>1. agent'[b] = agent[b]
      BY <1>1, <1>3, <2>2
    <3> QED
      BY <1>1, <3>1, RestServed DEF IInv, PollsAreServed
  <2> QED
    BY <2>1, <2>2
<1>6. PollsAreServed'
  BY <1>1, <1>4, <1>5 DEF IInv, PollsAreServed
<1> QED
  BY <1>2, <1>6 DEF IInv

\* Only a card moves.
LEMMA CardAlone ==
    ASSUME IInv, CardOnly, card' \in [Card -> CardState]
    PROVE  IInv'
<1>1. UNCHANGED <<creates, entry, call, incident, incidents, agent, taken,
                  lost, chain, down>>
  BY DEF CardOnly, hubVars, runnerVars, pastVars
<1>2. Typed' /\ Coordinated' /\ OneInFlight'
  BY <1>1 DEF IInv, Typed, Coordinated, OneInFlight
<1>3. PollsAreServed'
  BY <1>1 DEF IInv, PollsAreServed, PollIsServed, Served
<1> QED
  BY <1>2, <1>3 DEF IInv

LEMMA CardGoesType ==
    ASSUME card \in [Card -> CardState], NEW c \in Card,
           NEW at \in {"out", "idle", "again", "following"},
           NEW i \in 0 .. MaxCreates, CardGoes(c, at, i)
    PROVE  card' \in [Card -> CardState]
<1> DEFINE e == IF at = "out" THEN NoCard
                ELSE [card[c] EXCEPT !.at = at, !.id = i]
<1>1. card' = [card EXCEPT ![c] = e]
  BY DEF CardGoes
<1>2. e \in CardState
  <2>1. NoCard \in CardState
    BY CreateIds DEF CardState, NoCard
  <2>2. [card[c] EXCEPT !.at = at, !.id = i] \in CardState
    BY DEF CardState
  <2> QED
    BY <2>1, <2>2
<1> HIDE DEF e
<1> QED
  BY <1>1, <1>2

LEMMA CardLoadsStep ==
    ASSUME IInv, NEW c \in Card, CardLoads(c)
    PROVE  IInv'
<1>1. /\ card \in [Card -> CardState] /\ incident \in Nat
      /\ 0 \in 0 .. MaxCreates
  BY BoundAssumption, CreateIds DEF IInv, Typed, PollsAreServed
<1>2. \A s : Mine(s) \subseteq 0 .. MaxCreates
  BY CreateIds DEF Mine, Listed, Live
<1>3. ASSUME NEW at \in {"idle", "following"}, NEW i \in 0 .. MaxCreates,
             CardShows(c, at, i)
      PROVE  card' \in [Card -> CardState]
  <2> DEFINE e == [at |-> at, id |-> i, incident |-> incident]
  <2>1. e \in CardState /\ card' = [card EXCEPT ![c] = e]
    BY <1>1, <1>3 DEF CardState, CardShows
  <2> HIDE DEF e
  <2> QED
    BY <1>1, <2>1
<1>4. card' \in [Card -> CardState]
  BY <1>1, <1>2, <1>3, CardGoesType DEF CardLoads
<1> QED
  BY <1>4, CardAlone DEF CardLoads

LEMMA CardPostsStep ==
    ASSUME IInv, NEW c \in Card, NEW from, CardPosts(c, from)
    PROVE  IInv'
<1>1. /\ UNCHANGED <<incident, incidents, chain, agent>> /\ Remember
      /\ card \in [Card -> CardState]
  BY DEF CardPosts, runnerVars, IInv, PollsAreServed
<1>2. PICK i \in Create :
         \/ JoinRunning(i) /\ CardGoes(c, "following", i)
         \/ StartNew(i) /\ CardGoes(c, "following", i)
         \/ Collect(i, "completed") /\ CardGoes(c, "out", 0)
         \/ /\ Collect(i, "failed")
            /\ CardGoes(c, IF from = "idle" /\ card[c].id = i
                             THEN "again" ELSE "idle", 0)
  BY DEF CardPosts
<1>3. i \in 0 .. MaxCreates /\ 0 \in 0 .. MaxCreates
  BY CreateIds
<1>4. Acted
  BY <1>1, <1>2, JoinActs, StartActs, CollectActs
<1>5. card' \in [Card -> CardState]
  BY <1>1, <1>2, <1>3, CardGoesType
<1>6. \A b \in Agent : PollIsServed(b)'
  BY <1>1, RestServed DEF IInv, PollsAreServed
<1>7. PollsAreServed'
  BY <1>1, <1>5, <1>6 DEF IInv, PollsAreServed
<1> QED
  BY <1>4, <1>7 DEF IInv, Acted

LEMMA CardReadsStep ==
    ASSUME IInv, NEW c \in Card, CardReads(c)
    PROVE  IInv'
<1>1. /\ card \in [Card -> CardState] /\ 0 \in 0 .. MaxCreates
      /\ Listed \subseteq 0 .. MaxCreates
  <2>1. Listed \subseteq Create
    BY DEF Listed, Live
  <2> QED
    BY <2>1, CreateIds DEF IInv, PollsAreServed
<1>2. PICK at \in {"out", "idle"}, i \in 0 .. MaxCreates : CardGoes(c, at, i)
  BY <1>1 DEF CardReads
<1>3. card' \in [Card -> CardState]
  BY <1>1, <1>2, CardGoesType
<1> QED
  BY <1>3, CardAlone DEF CardReads

LEMMA CardLeavesStep ==
    ASSUME IInv, NEW c \in Card, CardLeaves(c)
    PROVE  IInv'
<1>1. card \in [Card -> CardState] /\ 0 \in 0 .. MaxCreates
  BY CreateIds DEF IInv, PollsAreServed
<1>2. card' \in [Card -> CardState]
  BY <1>1, CardGoesType DEF CardLeaves
<1> QED
  BY <1>2, CardAlone DEF CardLeaves

-----------------------------------------------------------------------------
(* The invariant, and what it implies.                                     *)

LEMMA InitHolds == Init => IInv
<1> SUFFICES ASSUME Init PROVE IInv
  OBVIOUS
<1>1. Typed
  BY BoundAssumption, NoEntryType, EmptySeq DEF Init, Typed, Calls
<1>2. Coordinated
  BY NoEntryType DEF Init, Coordinated
<1>3. OneInFlight
  BY DEF Init, OneInFlight
<1>4. PollsAreServed
  BY CreateIds DEF Init, PollsAreServed, PollIsServed, AgentState,
                   CardState, NoCard
<1> QED
  BY <1>1, <1>2, <1>3, <1>4 DEF IInv

LEMMA NextHolds == IInv /\ [Next]_vars => IInv'
<1> SUFFICES ASSUME IInv, [Next]_vars PROVE IInv'
  OBVIOUS
<1>1. CASE \E i \in Create : Expire(i) \/ Settle(i) \/ CreateTimesOut(i)
  BY <1>1, ExpireStep, SettleStep, TimesOutStep
<1>2. CASE \E n \in Other :
             OtherTimesOut(n) \/ \E op \in OtherOp : AskOther(op, n)
  BY <1>2, FramesStep, AskStep
<1>3. CASE Disconnect \/ Restart \/ Reconnect
  BY <1>3, DisconnectStep, RestartStep, FramesStep
<1>4. CASE RecordProgress \/ CreateReply \/ OtherReply
  BY <1>4, FramesStep, ReplyStep, OtherReplyStep
<1>5. CASE \/ RunnerTakes \/ RunnerReports
           \/ \E ok \in BOOLEAN : RunnerFinishes(ok)
  BY <1>5, TakesStep, ReportsStep, FinishesStep
<1>6. CASE IncidentOpens
  BY <1>6, IncidentStep
<1>7. CASE \E a \in Agent : AgentPosts(a) \/ AgentRefused(a)
  BY <1>7, AgentPostsStep, AgentRefusedStep
<1>8. CASE \E c \in Card : \/ CardLoads(c) \/ CardClicks(c)
                           \/ CardPostsAgain(c) \/ CardReads(c)
                           \/ CardLeaves(c)
  BY <1>8, CardLoadsStep, CardPostsStep, CardReadsStep, CardLeavesStep
     DEF CardClicks, CardPostsAgain
<1>9. CASE UNCHANGED vars
  <2>1. UNCHANGED <<creates, entry, call, incident, incidents, clientVars,
                    taken, lost, chain, down>>
    BY <1>9 DEF vars, hubVars, runnerVars, pastVars
  <2> QED
    BY <2>1, RunnerRests
<1> QED
  BY <1>1, <1>2, <1>3, <1>4, <1>5, <1>6, <1>7, <1>8, <1>9 DEF Next

\* A set of numbers with no two members.
LEMMA AtMostOne ==
    ASSUME NEW S, \A x, y \in S : x = y
    PROVE  Cardinality(S) \in Nat /\ Cardinality(S) <= 1
<1>1. CASE S = {}
  BY <1>1, FS_EmptySet
<1>2. CASE S # {}
  <2>1. PICK x : S = {x}
    BY <1>2
  <2> QED
    BY <2>1, FS_Singleton
<1> QED
  BY <1>1, <1>2

LEMMA InvHolds == IInv => EntryInv
<1> SUFFICES ASSUME IInv PROVE EntryInv
  OBVIOUS
<1>1. Cardinality(Live) <= 1
  BY AtMostOne DEF IInv, Coordinated, Live
<1>2. Cardinality(InFlight) <= 1
  BY AtMostOne DEF IInv, OneInFlight, InFlight
<1>3. \A i \in Create :
        /\ entry[i].status \in Statuses
        /\ entry[i].recovery \in 0 .. MaxIncidents
        /\ call[i] \in Calls
  BY DEF IInv, Typed, Entry
<1>4. /\ \A a \in Agent : agent[a].at \in {"idle", "polling", "done"}
      /\ \A c \in Card : card[c].at \in {"out", "idle", "again", "following"}
  BY DEF IInv, PollsAreServed, AgentState, CardState
<1>5. TypeOK
  BY <1>1, <1>2, <1>3, <1>4
     DEF IInv, Typed, Coordinated, TypeOK, Statuses, Calls
<1>6. OneOutstandingCreate
  <2> DEFINE waiting == {i \in Create : call[i] \in {"sent", "ok", "error"}}
  <2>1. waiting = {i \in Create : entry[i].status = "in_progress"}
    BY DEF IInv, Coordinated
  <2>2. \A i, j \in waiting : i = j
    BY <2>1 DEF IInv, Coordinated
  <2>3. Cardinality(waiting) <= 1
    BY <2>2, AtMostOne
  <2> QED
    BY <2>1, <2>3 DEF OneOutstandingCreate
<1> QED
  BY <1>5, <1>6 DEF EntryInv

LEMMA IInvHolds == Spec => []IInv
<1> QED
  BY InitHolds, NextHolds, PTL DEF Spec

\* The control plane never has two requests of one create outstanding, and
\* the coordinator's entry is in progress exactly while its request is:
\* startOrJoin joins a running create whatever its incident, recordProgress
\* revives nothing, and a timeout, a refusal, a reply, a disconnect or a
\* restart ends the entry with its request.
THEOREM EntriesHold == Spec => []EntryInv
<1> QED
  BY IInvHolds, InvHolds, PTL

-----------------------------------------------------------------------------
(* What a poll may start.                                                  *)

\* Only a tool's request moves the tool and the number of creates at once.
LEMMA OnlyAgentsStart ==
    ASSUME [Next]_vars, creates' # creates, agent' # agent
    PROVE  \E a \in Agent : AgentPosts(a)
<1>1. ASSUME NEW i \in Create, Expire(i) \/ Settle(i) \/ CreateTimesOut(i)
      PROVE  FALSE
  BY <1>1 DEF Expire, Settle, CreateTimesOut
<1>2. ASSUME NEW n \in Other,
             OtherTimesOut(n) \/ \E op \in OtherOp : AskOther(op, n)
      PROVE  FALSE
  BY <1>2 DEF OtherTimesOut, AskOther
<1>3. ~(Disconnect \/ Restart \/ Reconnect \/ RecordProgress \/ CreateReply
        \/ OtherReply \/ RunnerTakes \/ RunnerReports \/ IncidentOpens)
  BY DEF Disconnect, Restart, Reconnect, RecordProgress, CreateReply,
         OtherReply, RunnerTakes, RunnerReports, IncidentOpens
<1>4. ~ \E ok \in BOOLEAN : RunnerFinishes(ok)
  BY DEF RunnerFinishes
<1>5. ~ \E a \in Agent : AgentRefused(a)
  BY DEF AgentRefused
<1>6. ~ \E c \in Card : \/ CardLoads(c) \/ CardClicks(c) \/ CardPostsAgain(c)
                        \/ CardReads(c) \/ CardLeaves(c)
  BY DEF CardLoads, CardClicks, CardPostsAgain, CardReads, CardLeaves,
         CardPosts, CardOnly
<1>7. ~ UNCHANGED vars
  BY DEF vars
<1> QED
  BY <1>1, <1>2, <1>3, <1>4, <1>5, <1>6, <1>7 DEF Next

\* Why a poll starts a second create.
Excused(i) ==
    \/ i \in taken \/ i \in lost
    \/ entry[i].status # "none" /\ entry[i].recovery < incident

LEMMA StartIsExcused ==
    ASSUME IInv, [Next]_vars, NEW a \in Agent, StartsSecond(a)
    PROVE  Excused(agent[a].id)
<1>1. /\ creates' # creates /\ agent'[a].id # agent[a].id
      /\ agent[a].id \in Create /\ Served(agent[a].id)
  BY DEF StartsSecond, IInv, PollsAreServed, PollIsServed
<1>2. PICK b \in Agent : AgentPosts(b)
  BY <1>1, OnlyAgentsStart
<1>3. PICK i \in Create : StartNew(i)
  BY <1>1, <1>2 DEF AgentPosts, JoinRunning, Collect, cpVars
<1>4. CASE entry[agent[a].id].status # "none"
  <2>1. Current = agent[a].id /\ Current # 0
    BY <1>1, <1>4, CurrentIs, CreateIds DEF IInv, Coordinated
  <2>2. incident # 0 /\ entry[agent[a].id].recovery # incident
    BY <1>3, <2>1 DEF StartNew, Joins, StaleForIncident
  <2>3. /\ entry[agent[a].id].recovery <= incidents
        /\ entry[agent[a].id].recovery \in Nat /\ incidents \in Nat
        /\ incident = incidents
    BY <1>1, <2>2, BoundAssumption DEF IInv, Typed, Coordinated, Entry
  <2> QED
    BY <1>4, <2>2, <2>3 DEF Excused
<1> QED
  BY <1>1, <1>4 DEF Served, Excused

LEMMA NextAsksOnce ==
    IInv /\ [Next]_vars =>
      [\A a \in Agent : StartsSecond(a) =>
         \E i \in {agent[a].id} :
            \/ i \in taken \/ i \in lost
            \/ entry[i].status # "none" /\ entry[i].recovery < incident]_vars
BY StartIsExcused DEF Excused

\* However many tools and cards ask for it, and whatever operations succeed,
\* fail or come late, a poll of create_worktree starts a second create only
\* when another client's request took the entry of its first (releaseTerminal,
\* or startOrJoin for a new incident), a new incident has made it stale, or a
\* restart lost the coordinator: invalidateSession never lets one go.
\* (retainTerminal keeps an entry five minutes and a tool polls every
\* second: Expire waits while one polls.)
THEOREM PollsAskOnceHolds == Spec => PollsAskOnce
<1> QED
  BY IInvHolds, NextAsksOnce, PTL DEF Spec, PollsAskOnce
=============================================================================
