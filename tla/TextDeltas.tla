---------------------------- MODULE TextDeltas ----------------------------
(***************************************************************************)
(* Coalescing of streamed text (runner/src/text-delta-coalescer.ts) and    *)
(* its place in the session manager: one coalescer per provider launch,    *)
(* closed when the launch stops or is replaced, flushed before anything    *)
(* else is recorded.                                                       *)
(*                                                                         *)
(* Time passes in ticks.  The window is measured on Date.now, the timer    *)
(* runs on the event loop's own clock: setting the machine's clock moves   *)
(* the first and not the second.                                           *)
(***************************************************************************)
EXTENDS Integers, Sequences, FiniteSets, SequencesExt

CONSTANTS
    Launch,      \* provider launches of the session: 1, 2, ...
    Stream,      \* streams of deltas: kind, message and parent
    Lengths,     \* lengths of a delta
    Window,      \* TEXT_DELTA_WINDOW_MS, in ticks
    MaxChars,    \* TEXT_DELTA_MAX_PENDING_CHARS
    MaxSetBack,  \* how far the machine's clock may be set back
    MaxPieces    \* bound: pieces produced

VARIABLES
    current,     \* the last launch: its coalescer is attached, until closed
    closed,      \* launches whose coalescer is closed
    pending,     \* the attached coalescer's pending deltas
    timer,       \* ticks until its timer fires, -1 if none
    age,         \* Date.now() - lastTextEmitAt, or LongAgo
    arrived,     \* history: pieces in the order they were produced
    recorded,    \* history: the session's events, each a run of pieces
    waited,      \* history: ticks the oldest pending delta has waited
    spacing,     \* history: ticks since the last text event, at most Window,
                 \* which also stands for a clock set forward past them
    crowded      \* history: a text event came early without a reason

vars == <<current, closed, pending, timer, age, arrived, recorded, waited,
          spacing, crowded>>

ASSUME WindowAssumption ==
    /\ Window \in Nat \ {0} /\ MaxChars \in Nat \ {0} /\ MaxSetBack \in Nat
    /\ Lengths \subseteq Nat /\ MaxPieces \in Nat
    /\ Launch \subseteq Nat \ {0} /\ 1 \in Launch

\* Stream "" marks what is no mergeable delta.
Piece == [n : 1 .. MaxPieces, stream : Stream \cup {""}, length : Lengths]

\* No text event yet, or one that no set-back of the clock brings near.
LongAgo == Window + MaxSetBack

Init ==
    /\ current = 1 /\ closed = {}
    /\ pending = <<>> /\ timer = -1
    /\ age = LongAgo
    /\ arrived = <<>> /\ recorded = <<>>
    /\ waited = 0 /\ spacing = Window /\ crowded = FALSE

\* The characters of some deltas one by one: their length is a count.
Characters(deltas) ==
    UNION {{i} \X (1 .. deltas[i].length) : i \in DOMAIN deltas}

Chars(deltas) == Cardinality(Characters(deltas))

Arrives(p) ==
    /\ Len(arrived) < MaxPieces /\ p.n = Len(arrived) + 1
    /\ arrived' = Append(arrived, p)

-----------------------------------------------------------------------------
(* flush: what it records, and how it leaves the coalescer.                *)

Flushed == IF pending = <<>> THEN recorded ELSE Append(recorded, pending)

\* Fault: the timer goes on.
Emptied_Armed ==
    /\ pending' = <<>> /\ timer' = timer /\ waited' = 0
    /\ age' = IF pending = <<>> THEN age ELSE 0

Emptied ==
    /\ pending' = <<>> /\ timer' = -1 /\ waited' = 0
    /\ age' = IF pending = <<>> THEN age ELSE 0

\* A text event that no boundary forced must keep its distance.
Spaced(emits, forced) ==
    /\ spacing' = IF emits THEN 0 ELSE spacing
    /\ crowded' = (crowded \/ (emits /\ ~forced /\ spacing < Window))

\* emitEvent: the session's pending text lands first.
Records(p) ==
    /\ recorded' = Append(Flushed, <<p>>)
    /\ Emptied

\* push of anything but a mergeable delta, any other driver callback that
\* records, and what the session itself records.
Boundary(p) ==
    /\ p.stream = "" /\ Arrives(p)
    /\ Records(p)
    /\ Spaced(pending # <<>>, TRUE)
    /\ UNCHANGED <<current, closed>>

\* A callback or a lifecycle step that records nothing.
Flush ==
    /\ pending # <<>>
    /\ recorded' = Flushed /\ Emptied
    /\ Spaced(TRUE, TRUE)
    /\ UNCHANGED <<current, closed, arrived>>

-----------------------------------------------------------------------------
(* push of a delta.                                                        *)

\* Fault: only the size decides.
Merges_AnyStream(p) == pending # <<>> /\ Chars(pending) + p.length <= MaxChars

Merges(p) ==
    /\ pending # <<>> /\ Last(pending).stream = p.stream
    /\ Chars(pending) + p.length <= MaxChars

\* Fault: every delta starts the wait again.
Merge_Rearms(p) ==
    /\ Merges(p) /\ Arrives(p)
    /\ pending' = Append(pending, p) /\ timer' = Window
    /\ UNCHANGED <<current, closed, age, recorded, waited, spacing, crowded>>

Merge(p) ==
    /\ Merges(p) /\ Arrives(p)
    /\ pending' = Append(pending, p)
    /\ UNCHANGED <<current, closed, timer, age, recorded, waited, spacing,
                   crowded>>

\* Pending text of another stream, or too long to grow, lands first; the
\* delta then starts a wait, since a text event was just emitted.
Displace(p) ==
    /\ pending # <<>> /\ ~Merges(p) /\ Arrives(p)
    /\ recorded' = Flushed
    /\ pending' = <<p>> /\ timer' = Window /\ age' = 0 /\ waited' = 0
    /\ Spaced(TRUE, TRUE)
    /\ UNCHANGED <<current, closed>>

\* Fault: the emission is not remembered.
Leading_Forgets(p) ==
    /\ pending = <<>> /\ age >= Window /\ Arrives(p)
    /\ recorded' = Append(recorded, <<p>>)
    /\ Spaced(TRUE, FALSE)
    /\ UNCHANGED <<current, closed, pending, timer, waited, age>>

\* The first delta after a quiet window goes out at once.
Leading(p) ==
    /\ pending = <<>> /\ age >= Window /\ Arrives(p)
    /\ recorded' = Append(recorded, <<p>>)
    /\ age' = 0
    /\ Spaced(TRUE, FALSE)
    /\ UNCHANGED <<current, closed, pending, timer, waited>>

\* The rest of the window, as Date.now has it.
Delay == Window - age

Hold(p) ==
    /\ pending = <<>> /\ age < Window /\ Arrives(p)
    /\ pending' = <<p>> /\ timer' = Delay /\ waited' = 0
    /\ UNCHANGED <<current, closed, age, recorded, spacing, crowded>>

\* A closed coalescer passes late output straight through emitEvent.
Late(l, p) ==
    /\ l \in closed /\ Arrives(p)
    /\ Records(p)
    /\ Spaced(pending # <<>>, TRUE)
    /\ UNCHANGED <<current, closed>>

TimerFires ==
    /\ timer = 0
    /\ recorded' = Flushed /\ Emptied
    /\ Spaced(TRUE, FALSE)
    /\ UNCHANGED <<current, closed, arrived>>

-----------------------------------------------------------------------------
(* Launches and clocks.                                                    *)

\* Fault: the coalescer of the replaced launch is dropped as it is.
Close_Drops == recorded' = recorded

\* closeTextDeltas flushes before it detaches.
Close == recorded' = Flushed

\* closeTextDeltas alone, at a stop or a shutdown: no coalescer is attached.
Detach ==
    /\ current \notin closed
    /\ closed' = closed \cup {current}
    /\ Close
    /\ pending' = <<>> /\ timer' = -1 /\ waited' = 0 /\ age' = LongAgo
    /\ spacing' = Window
    /\ UNCHANGED <<current, arrived, crowded>>

\* coalesceTextDeltas for a new launch: a fresh coalescer, with no emission.
Relaunch ==
    /\ current + 1 \in Launch
    /\ current' = current + 1 /\ closed' = closed \cup {current}
    /\ Close
    /\ pending' = <<>> /\ timer' = -1 /\ waited' = 0 /\ age' = LongAgo
    /\ spacing' = Window
    /\ UNCHANGED <<arrived, crowded>>

\* Timers that are due fire before time goes on.
Tick ==
    /\ timer # 0
    /\ timer > 0 \/ age < LongAgo \/ spacing < Window
    /\ timer' = IF timer > 0 THEN timer - 1 ELSE timer
    /\ age' = IF age < LongAgo THEN age + 1 ELSE age
    /\ waited' = IF pending # <<>> THEN waited + 1 ELSE waited
    /\ spacing' = IF spacing < Window THEN spacing + 1 ELSE spacing
    /\ UNCHANGED <<current, closed, pending, arrived, recorded, crowded>>

ClockSetBack ==
    /\ age \in 0 .. LongAgo - 1 /\ MaxSetBack > 0
    /\ age' = age - MaxSetBack
    /\ UNCHANGED <<current, closed, pending, timer, arrived, recorded, waited,
                   spacing, crowded>>

\* A set-forward beyond the time that really passed excuses the next event.
ClockSetForward ==
    \E a \in age + 1 .. LongAgo :
        /\ age' = a
        /\ spacing' = IF a > spacing THEN Window ELSE spacing
        /\ UNCHANGED <<current, closed, pending, timer, arrived, recorded,
                       waited, crowded>>

Next ==
    \/ \E s \in Stream \cup {""}, k \in Lengths :
         \E p \in {[n |-> Len(arrived) + 1, stream |-> s, length |-> k]} :
           \/ Boundary(p)
           \/ /\ s # "" /\ current \notin closed
              /\ Merge(p) \/ Displace(p) \/ Leading(p) \/ Hold(p)
           \/ \E l \in closed : Late(l, p)
    \/ Flush \/ TimerFires \/ Detach \/ Relaunch \/ Tick
    \/ ClockSetBack \/ ClockSetForward

Spec == Init /\ [][Next]_vars

\* The event loop runs its timers.
FairSpec == Spec /\ WF_vars(Tick) /\ WF_vars(TimerFires)

-----------------------------------------------------------------------------
(* Properties.                                                             *)

\* The shape of the coalescer: a timer runs exactly while text is pending.
TypeOK ==
    /\ current \in Launch /\ closed \in {1 .. current - 1, 1 .. current}
    /\ pending \in Seq(Piece) /\ timer \in -1 .. Window + MaxSetBack
    /\ pending = <<>> <=> timer = -1
    /\ age \in -MaxSetBack .. LongAgo /\ spacing \in 0 .. Window

\* "The resulting event sequence is exactly the uncoalesced one with
\* adjacent same-stream deltas concatenated": an event of several pieces is
\* a run of one stream and stays within the size limit.
OnlyRunsMerge ==
    \A e \in Range(recorded) : Len(e) > 1 =>
        /\ e[1].stream # "" /\ Chars(e) <= MaxChars
        /\ \A i \in DOMAIN e : e[i].stream = e[1].stream

\* Pending text has its timer, and what is merged belongs together.
CoalescerInv == TypeOK /\ OnlyRunsMerge

\* "Later deltas wait at most one window", and longer only by what the
\* machine's clock was set back, however many deltas follow.
WaitsAtMostAWindow == waited <= Window + MaxSetBack

\* "Emits at most one text event per window", boundaries and a clock set
\* forward apart.
OnePerWindow == ~crowded

\* The timer of pending text leaves the last text event its distance, and
\* what Date.now says of that event is never more than really passed, unless
\* the clock was set forward.
TimerIsPaced ==
    /\ pending = <<>> => waited = 0
    /\ pending # <<>> => /\ waited + timer <= Window + MaxSetBack
                        /\ spacing + timer >= Window
    /\ age <= spacing \/ spacing = Window

\* Text comes neither later nor more often than the window says.
PaceInv == WaitsAtMostAWindow /\ OnePerWindow /\ TimerIsPaced

Promised == INSTANCE StreamedHistory WITH
    produced <- arrived, recorded <- FlattenSeq(recorded)

\* With coalescing and relaunches the history is what StreamedHistory
\* promises: in order, complete, and nothing left waiting.
HistoryAsPromised == Promised!Spec
=============================================================================
