-------------------------- MODULE TextDeltas_proofs --------------------------
(***************************************************************************)
(* Proofs about TextDeltas, for any window, size limit, streams, launches  *)
(* and set-back of the clock: the coalescer's timer runs exactly while     *)
(* text is pending, text keeps to the window, what is merged belongs       *)
(* together, and the history is recorded as StreamedHistory promises.      *)
(***************************************************************************)
EXTENDS TextDeltas, FiniteSetTheorems, SequenceTheorems,
        WellFoundedInduction, TLAPS

\* Inductive: the types, of the histories too, and the pace.
PacedInv ==
    /\ TypeOK /\ PaceInv
    /\ arrived \in Seq(Piece) /\ waited \in Nat /\ crowded \in BOOLEAN

-----------------------------------------------------------------------------
(* Arrivals.                                                               *)

\* A piece as Next makes them.
Produced(p) ==
    \E s \in Stream \cup {""}, k \in Lengths :
        p = [n |-> Len(arrived) + 1, stream |-> s, length |-> k]

LEMMA ArrivesType ==
    ASSUME arrived \in Seq(Piece), NEW p, Produced(p), Arrives(p)
    PROVE  p \in Piece /\ arrived' \in Seq(Piece)
<1>1. Len(arrived) \in Nat
  BY LenProperties
<1>2. Len(arrived) + 1 \in 1 .. MaxPieces
  BY <1>1, WindowAssumption DEF Arrives
<1>3. p \in Piece
  <2>1. PICK s \in Stream \cup {""}, k \in Lengths :
            p = [n |-> Len(arrived) + 1, stream |-> s, length |-> k]
    BY DEF Produced
  <2> DEFINE m == Len(arrived) + 1
  <2>2. m \in 1 .. MaxPieces
    BY <1>2
  <2>3. p = [n |-> m, stream |-> s, length |-> k]
    BY <2>1
  <2> HIDE DEF m
  <2> QED
    BY <2>2, <2>3 DEF Piece
<1> QED
  BY <1>3, AppendProperties DEF Arrives

LEMMA OneType ==
    ASSUME NEW p \in Piece
    PROVE  <<p>> \in Seq(Piece) /\ <<p>> # <<>>
OBVIOUS

LEMMA Ranges ==
    /\ Window \in Nat /\ Window > 0 /\ MaxSetBack \in Nat
    /\ LongAgo \in Nat /\ LongAgo >= Window
    /\ LongAgo = Window + MaxSetBack
BY WindowAssumption DEF LongAgo

-----------------------------------------------------------------------------
(* Steps that leave nothing pending.                                       *)

LEMMA EmptiedKeeps ==
    ASSUME PacedInv, Emptied, NEW forced \in BOOLEAN,
           Spaced(pending # <<>>, forced),
           forced \/ pending = <<>> \/ timer = 0,
           UNCHANGED <<current, closed>>, arrived' \in Seq(Piece)
    PROVE  PacedInv'
<1> USE Ranges DEF PacedInv
<1>1. /\ pending' = <<>> /\ timer' = -1 /\ waited' = 0
      /\ age' = IF pending = <<>> THEN age ELSE 0
      /\ spacing' = IF pending # <<>> THEN 0 ELSE spacing
  BY DEF Emptied, Spaced
<1>2. pending # <<>> /\ timer = 0 => spacing >= Window
  BY DEF TypeOK, PaceInv, TimerIsPaced
<1>3. crowded' = FALSE
  BY <1>2 DEF Spaced, TypeOK, PaceInv, OnePerWindow
<1>4. TypeOK'
  BY <1>1 DEF TypeOK
<1>5. PaceInv'
  BY <1>1, <1>3
     DEF TypeOK, PaceInv, WaitsAtMostAWindow, OnePerWindow, TimerIsPaced
<1> QED
  BY <1>1, <1>3, <1>4, <1>5

LEMMA BoundaryStep ==
    ASSUME PacedInv, NEW p, Produced(p),
           Boundary(p) \/ \E l \in closed : Late(l, p)
    PROVE  PacedInv'
<1>1. /\ Arrives(p) /\ Emptied /\ Spaced(pending # <<>>, TRUE)
      /\ UNCHANGED <<current, closed>>
  BY DEF Boundary, Late, Records
<1>2. arrived' \in Seq(Piece)
  BY <1>1, ArrivesType DEF PacedInv
<1> QED
  BY <1>1, <1>2, EmptiedKeeps

LEMMA FlushStep == ASSUME PacedInv, Flush \/ TimerFires PROVE PacedInv'
<1>1. /\ Emptied /\ UNCHANGED <<current, closed>> /\ arrived' \in Seq(Piece)
      /\ pending # <<>>
  <2>1. Emptied /\ UNCHANGED <<current, closed, arrived>>
    BY DEF Flush, TimerFires
  <2>2. arrived' \in Seq(Piece)
    BY <2>1 DEF PacedInv
  <2>3. timer = 0 => timer # -1
    OBVIOUS
  <2>4. pending # <<>>
    BY <2>3 DEF PacedInv, TypeOK, Flush, TimerFires
  <2> QED
    BY <2>1, <2>2, <2>4
<1>2. CASE Flush
  <2>1. Spaced(pending # <<>>, TRUE)
    BY <1>1, <1>2 DEF Flush, Spaced
  <2> QED
    BY <1>1, <2>1, EmptiedKeeps
<1>3. CASE TimerFires
  <2>1. timer = 0 /\ Spaced(pending # <<>>, FALSE)
    BY <1>1, <1>3 DEF TimerFires, Spaced
  <2> QED
    BY <1>1, <2>1, EmptiedKeeps
<1> QED
  BY <1>2, <1>3

\* The first delta after a quiet window: what Date.now says of the last text
\* event is never more than really passed.
LEMMA LeadingStep ==
    ASSUME PacedInv, NEW p, Produced(p), Leading(p)
    PROVE  PacedInv'
<1> USE Ranges DEF PacedInv
<1>1. /\ pending = <<>> /\ age >= Window /\ age' = 0 /\ spacing' = 0
      /\ UNCHANGED <<current, closed, pending, timer, waited>>
  BY DEF Leading, Spaced
<1>2. spacing = Window
  BY <1>1 DEF TypeOK, PaceInv, TimerIsPaced
<1>3. crowded' = FALSE
  BY <1>2 DEF Leading, Spaced, PaceInv, OnePerWindow
<1>4. TypeOK'
  BY <1>1 DEF TypeOK
<1>5. PaceInv'
  BY <1>1, <1>3
     DEF TypeOK, PaceInv, WaitsAtMostAWindow, OnePerWindow, TimerIsPaced
<1>6. arrived' \in Seq(Piece)
  BY ArrivesType DEF Leading
<1> QED
  BY <1>1, <1>3, <1>4, <1>5, <1>6

-----------------------------------------------------------------------------
(* Steps that leave text pending.                                          *)

LEMMA MergeStep ==
    ASSUME PacedInv, NEW p, Produced(p), Merge(p)
    PROVE  PacedInv'
<1> USE DEF PacedInv
<1>1. /\ pending # <<>> /\ pending' = Append(pending, p)
      /\ UNCHANGED <<current, closed, timer, age, waited, spacing, crowded>>
  BY DEF Merge, Merges
<1>2. p \in Piece /\ arrived' \in Seq(Piece)
  BY ArrivesType DEF Merge
<1>3. pending' \in Seq(Piece) /\ pending' # <<>>
  BY <1>1, <1>2, AppendProperties DEF TypeOK
<1>4. TypeOK'
  BY <1>1, <1>3 DEF TypeOK
<1>5. PaceInv'
  BY <1>1, <1>3
     DEF PaceInv, WaitsAtMostAWindow, OnePerWindow, TimerIsPaced
<1> QED
  BY <1>1, <1>2, <1>4, <1>5

LEMMA DisplaceStep ==
    ASSUME PacedInv, NEW p, Produced(p), Displace(p)
    PROVE  PacedInv'
<1> USE Ranges DEF PacedInv
<1>1. /\ pending' = <<p>> /\ timer' = Window /\ age' = 0 /\ waited' = 0
      /\ spacing' = 0 /\ UNCHANGED <<current, closed>>
  BY DEF Displace, Spaced
<1>2. crowded' = FALSE
  BY DEF Displace, Spaced, PaceInv, OnePerWindow
<1>3. p \in Piece /\ arrived' \in Seq(Piece)
  BY ArrivesType DEF Displace
<1>4. pending' \in Seq(Piece) /\ pending' # <<>>
  BY <1>1, <1>3, OneType
<1>5. TypeOK'
  BY <1>1, <1>4 DEF TypeOK
<1>6. PaceInv'
  BY <1>1, <1>2, <1>4
     DEF PaceInv, WaitsAtMostAWindow, OnePerWindow, TimerIsPaced
<1> QED
  BY <1>1, <1>2, <1>3, <1>5, <1>6

\* The rest of the window is at most a window and the set-back.
LEMMA HoldStep ==
    ASSUME PacedInv, NEW p, Produced(p), Hold(p)
    PROVE  PacedInv'
<1> USE Ranges DEF PacedInv
<1>1. /\ age < Window /\ pending' = <<p>> /\ timer' = Window - age
      /\ waited' = 0
      /\ UNCHANGED <<current, closed, age, spacing, crowded>>
  BY DEF Hold, Delay
<1>2. p \in Piece /\ arrived' \in Seq(Piece)
  BY ArrivesType DEF Hold
<1>3. pending' \in Seq(Piece) /\ pending' # <<>>
  BY <1>1, <1>2, OneType
<1>4. timer' \in 1 .. Window + MaxSetBack
  BY <1>1 DEF TypeOK
<1>5. TypeOK'
  BY <1>1, <1>3, <1>4 DEF TypeOK
<1>6. PaceInv'
  BY <1>1, <1>3, <1>4
     DEF TypeOK, PaceInv, WaitsAtMostAWindow, OnePerWindow, TimerIsPaced
<1> QED
  BY <1>1, <1>2, <1>5, <1>6

-----------------------------------------------------------------------------
(* Launches and clocks.                                                    *)

LEMMA DetachStep == ASSUME PacedInv, Detach PROVE PacedInv'
<1> USE Ranges DEF PacedInv
<1>1. /\ pending' = <<>> /\ timer' = -1 /\ waited' = 0 /\ age' = LongAgo
      /\ spacing' = Window /\ UNCHANGED <<current, arrived, crowded>>
      /\ current \notin closed /\ closed' = closed \cup {current}
  BY DEF Detach
<1>2. current \in Nat /\ current >= 1
  BY WindowAssumption DEF TypeOK
<1>3. closed' = 1 .. current'
  BY <1>1, <1>2 DEF TypeOK
<1>4. TypeOK'
  BY <1>1, <1>3 DEF TypeOK
<1>5. PaceInv'
  BY <1>1 DEF PaceInv, WaitsAtMostAWindow, OnePerWindow, TimerIsPaced
<1> QED
  BY <1>1, <1>4, <1>5

LEMMA RelaunchStep == ASSUME PacedInv, Relaunch PROVE PacedInv'
<1> USE Ranges DEF PacedInv
<1>1. /\ pending' = <<>> /\ timer' = -1 /\ waited' = 0 /\ age' = LongAgo
      /\ spacing' = Window /\ UNCHANGED <<arrived, crowded>>
      /\ current' = current + 1 /\ current + 1 \in Launch
      /\ closed' = closed \cup {current}
  BY DEF Relaunch
<1>2. current \in Nat /\ current >= 1
  BY WindowAssumption DEF TypeOK
<1>3. closed' = 1 .. current' - 1
  BY <1>1, <1>2 DEF TypeOK
<1>4. TypeOK'
  BY <1>1, <1>3 DEF TypeOK
<1>5. PaceInv'
  BY <1>1 DEF PaceInv, WaitsAtMostAWindow, OnePerWindow, TimerIsPaced
<1> QED
  BY <1>1, <1>4, <1>5

LEMMA TickStep == ASSUME PacedInv, Tick PROVE PacedInv'
<1> USE Ranges DEF PacedInv
<1>1. /\ timer # 0 /\ timer' = IF timer > 0 THEN timer - 1 ELSE timer
      /\ age' = IF age < LongAgo THEN age + 1 ELSE age
      /\ waited' = IF pending # <<>> THEN waited + 1 ELSE waited
      /\ spacing' = IF spacing < Window THEN spacing + 1 ELSE spacing
      /\ UNCHANGED <<current, closed, pending, arrived, crowded>>
  BY DEF Tick
<1>2. TypeOK'
  BY <1>1 DEF TypeOK
<1>3. TimerIsPaced'
  BY <1>1 DEF TypeOK, PaceInv, TimerIsPaced
<1>4. waited' \in Nat
  BY <1>1
<1>5. WaitsAtMostAWindow'
  <2>1. CASE pending' = <<>>
    BY <1>3, <2>1 DEF TimerIsPaced, WaitsAtMostAWindow
  <2>2. CASE pending' # <<>>
    <3>1. timer' \in Int /\ timer' >= 0
      BY <1>2, <2>2 DEF TypeOK
    <3>2. waited' + timer' <= Window + MaxSetBack
      BY <1>3, <2>2 DEF TimerIsPaced
    <3>3. \A a \in Nat, b, c \in Int : b >= 0 /\ a + b <= c => a <= c
      OBVIOUS
    <3>4. Window + MaxSetBack \in Int
      OBVIOUS
    <3> QED
      BY <1>4, <3>1, <3>2, <3>3, <3>4 DEF WaitsAtMostAWindow
  <2> QED
    BY <2>1, <2>2
<1> QED
  BY <1>1, <1>2, <1>3, <1>4, <1>5 DEF PaceInv, OnePerWindow

LEMMA SetBackStep == ASSUME PacedInv, ClockSetBack PROVE PacedInv'
<1> USE Ranges DEF PacedInv
<1>1. /\ age \in 0 .. LongAgo - 1 /\ age' = age - MaxSetBack
      /\ UNCHANGED <<current, closed, pending, timer, arrived, waited,
                     spacing, crowded>>
  BY DEF ClockSetBack
<1>2. TypeOK'
  BY <1>1 DEF TypeOK
<1>3. PaceInv'
  BY <1>1
     DEF TypeOK, PaceInv, WaitsAtMostAWindow, OnePerWindow, TimerIsPaced
<1> QED
  BY <1>1, <1>2, <1>3

LEMMA SetForwardStep == ASSUME PacedInv, ClockSetForward PROVE PacedInv'
<1> USE Ranges DEF PacedInv
<1>1. PICK a \in age + 1 .. LongAgo :
         /\ age' = a /\ spacing' = IF a > spacing THEN Window ELSE spacing
         /\ UNCHANGED <<current, closed, pending, timer, arrived, waited,
                        crowded>>
  BY DEF ClockSetForward
<1>2. TypeOK'
  BY <1>1 DEF TypeOK
<1>3. PaceInv'
  BY <1>1
     DEF TypeOK, PaceInv, WaitsAtMostAWindow, OnePerWindow, TimerIsPaced
<1> QED
  BY <1>1, <1>2, <1>3

-----------------------------------------------------------------------------
(* The pace.                                                               *)

LEMMA InitPaced == Init => PacedInv
<1> SUFFICES ASSUME Init PROVE PacedInv
  OBVIOUS
<1> USE Ranges
<1>1. TypeOK
  BY WindowAssumption DEF Init, TypeOK
<1>2. PaceInv
  BY DEF Init, PaceInv, WaitsAtMostAWindow, OnePerWindow, TimerIsPaced
<1>3. arrived \in Seq(Piece)
  BY DEF Init
<1>4. waited \in Nat
  BY DEF Init
<1>5. crowded \in BOOLEAN
  BY DEF Init
<1> QED
  BY <1>1, <1>2, <1>3, <1>4, <1>5 DEF PacedInv

LEMMA NextPaced == PacedInv /\ [Next]_vars => PacedInv'
<1> SUFFICES ASSUME PacedInv, [Next]_vars PROVE PacedInv'
  OBVIOUS
<1>1. ASSUME NEW s \in Stream \cup {""}, NEW k \in Lengths, NEW p,
             p = [n |-> Len(arrived) + 1, stream |-> s, length |-> k],
             \/ Boundary(p)
             \/ s # "" /\ (Merge(p) \/ Displace(p) \/ Leading(p) \/ Hold(p))
             \/ \E l \in closed : Late(l, p)
      PROVE  PacedInv'
  <2>1. Produced(p)
    BY <1>1 DEF Produced
  <2> QED
    BY <1>1, <2>1, BoundaryStep, MergeStep, DisplaceStep, LeadingStep,
       HoldStep
<1>2. CASE Flush \/ TimerFires
  BY <1>2, FlushStep
<1>3. CASE Detach \/ Relaunch
  BY <1>3, DetachStep, RelaunchStep
<1>4. CASE Tick
  BY <1>4, TickStep
<1>5. CASE ClockSetBack \/ ClockSetForward
  BY <1>5, SetBackStep, SetForwardStep
<1>6. CASE UNCHANGED vars
  BY <1>6
     DEF PacedInv, TypeOK, PaceInv, WaitsAtMostAWindow, OnePerWindow,
         TimerIsPaced, vars
<1> QED
  BY <1>1, <1>2, <1>3, <1>4, <1>5, <1>6 DEF Next

\* The text coalescer's window (text-delta-coalescer.ts, push, flush and the
\* timer): pending text always has its timer, waits at most a window and what
\* the machine's clock was set back, and no text event comes within a window
\* of the last unless a boundary forces it out or the clock was set forward.
\* The timer's remaining time and the distance already kept add up to a window.
THEOREM TextIsPaced == Spec => []PaceInv
BY InitPaced, NextPaced, PTL DEF Spec, PacedInv

-----------------------------------------------------------------------------
(* Sequences and what FlattenSeq makes of them.  An induction over the     *)
(* natural numbers is a least counterexample.                              *)

LEMMA LessIsWellFounded ==
    IsWellFoundedOn({pair \in Nat \X Nat : pair[1] < pair[2]}, Nat)
BY NatLessThanWellFounded DEF OpToRel

LEMMA LeastExists ==
    ASSUME NEW S, S \subseteq Nat, S # {}
    PROVE  \E m \in S : \A k \in S : m <= k
<1> DEFINE R == {pair \in Nat \X Nat : pair[1] < pair[2]}
<1>1. PICK m \in S : \A k \in S : <<k, m>> \notin R
  BY LessIsWellFounded, WFMin
<1>2. ASSUME NEW k \in S PROVE m <= k
  <2>1. <<k, m>> \in Nat \X Nat
    OBVIOUS
  <2>2. ~(k < m)
    BY <1>1, <2>1
  <2> QED
    BY <2>2
<1> QED
  BY <1>2

\* f[i] is what the first i of seqs make, for i up to n.
Flattens(seqs, n, f) ==
    /\ DOMAIN f = 1 .. n
    /\ \A i \in 1 .. n : f[i] = IF i = 1 THEN seqs[i] ELSE f[i - 1] \o seqs[i]

LEMMA FlattensIsSeq ==
    ASSUME NEW T, NEW seqs, NEW n \in Nat, NEW f, Flattens(seqs, n, f),
           \A i \in 1 .. n : seqs[i] \in Seq(T)
    PROVE  \A i \in 1 .. n : f[i] \in Seq(T)
<1> DEFINE S == {i \in 1 .. n : f[i] \notin Seq(T)}
<1>1. SUFFICES ASSUME S # {} PROVE FALSE
  OBVIOUS
<1>2. PICK m \in S : \A k \in S : m <= k
  <2>1. S \subseteq Nat
    OBVIOUS
  <2> HIDE DEF S
  <2> QED
    BY ONLY <1>1, <2>1, LeastExists
<1>3. m \in 1 .. n /\ f[m] \notin Seq(T)
  OBVIOUS
<1>4. f[m] = IF m = 1 THEN seqs[m] ELSE f[m - 1] \o seqs[m]
  BY <1>3 DEF Flattens
<1>5. m # 1
  BY <1>3, <1>4
<1>6. m - 1 \in 1 .. n /\ ~(m <= m - 1)
  BY <1>3, <1>5
<1>7. f[m - 1] \in Seq(T)
  BY <1>2, <1>6
<1>8. f[m - 1] \o seqs[m] \in Seq(T)
  BY <1>3, <1>7, ConcatProperties
<1> QED
  BY <1>3, <1>4, <1>5, <1>8

Agree(s, t, n) == \A i \in 1 .. n : t[i] = s[i]

LEMMA FlattensOnce ==
    ASSUME NEW seqs, NEW more, NEW n \in Nat, NEW m \in Nat, n <= m,
           Agree(seqs, more, n),
           NEW f, Flattens(seqs, n, f), NEW g, Flattens(more, m, g)
    PROVE  Agree(f, g, n)
<1> USE DEF Agree
<1> DEFINE S == {i \in 1 .. n : g[i] # f[i]}
<1>1. SUFFICES ASSUME S # {} PROVE FALSE
  OBVIOUS
<1>2. PICK k \in S : \A j \in S : k <= j
  <2>1. S \subseteq Nat
    OBVIOUS
  <2> HIDE DEF S
  <2> QED
    BY ONLY <1>1, <2>1, LeastExists
<1>3. k \in 1 .. n /\ k \in 1 .. m /\ g[k] # f[k]
  OBVIOUS
<1>4. /\ f[k] = IF k = 1 THEN seqs[k] ELSE f[k - 1] \o seqs[k]
      /\ g[k] = IF k = 1 THEN more[k] ELSE g[k - 1] \o more[k]
      /\ more[k] = seqs[k]
  BY <1>3 DEF Flattens
<1>5. k # 1
  BY <1>3, <1>4
<1>6. k - 1 \in 1 .. n /\ ~(k <= k - 1)
  BY <1>3, <1>5
<1>7. g[k - 1] = f[k - 1]
  BY <1>2, <1>6
<1> QED
  BY <1>3, <1>4, <1>5, <1>7

LEMMA FlattensExists ==
    ASSUME NEW seqs, NEW n \in Nat
    PROVE  \E f : Flattens(seqs, n, f)
<1> DEFINE S == {i \in 0 .. n : ~\E f : Flattens(seqs, i, f)}
<1>1. SUFFICES ASSUME S # {} PROVE FALSE
  <2>1. n \in 0 .. n
    OBVIOUS
  <2> QED
    BY <2>1
<1>2. PICK m \in S : \A k \in S : m <= k
  <2>1. S \subseteq Nat
    OBVIOUS
  <2> HIDE DEF S
  <2> QED
    BY ONLY <1>1, <2>1, LeastExists
<1>3. m \in 0 .. n /\ ~\E f : Flattens(seqs, m, f)
  OBVIOUS
<1>4. CASE m = 0
  <2>1. Flattens(seqs, 0, <<>>)
    BY DEF Flattens
  <2> QED
    BY <1>3, <1>4, <2>1
<1>5. CASE m # 0
  <2>1. m - 1 \in 0 .. n /\ ~(m <= m - 1)
    BY <1>3, <1>5
  <2>2. PICK f : Flattens(seqs, m - 1, f)
    BY <1>2, <2>1
  <2> DEFINE g == [i \in 1 .. m |->
                     IF i = m THEN IF m = 1 THEN seqs[m] ELSE f[m - 1] \o seqs[m]
                     ELSE f[i]]
  <2>3. m \in Nat /\ DOMAIN g = 1 .. m
    BY <1>3
  <2>4. ASSUME NEW i \in 1 .. m
        PROVE  g[i] = IF i = 1 THEN seqs[i] ELSE g[i - 1] \o seqs[i]
    <3>1. CASE i = m
      <4>1. CASE m = 1
        BY <3>1, <4>1
      <4>2. CASE m # 1
        <5>1. i - 1 \in 1 .. m /\ i - 1 # m /\ i # 1 /\ i - 1 = m - 1
          BY <2>3, <3>1, <4>2
        <5>2. g[i - 1] = f[i - 1]
          BY <5>1
        <5>3. g[i] = f[m - 1] \o seqs[m]
          BY <3>1, <4>2
        <5> QED
          BY <3>1, <5>1, <5>2, <5>3
      <4> QED
        BY <4>1, <4>2
    <3>2. CASE i # m
      <4>1. i \in 1 .. m - 1 /\ g[i] = f[i]
        BY <2>3, <3>2
      <4>2. f[i] = IF i = 1 THEN seqs[i] ELSE f[i - 1] \o seqs[i]
        BY <2>2, <4>1 DEF Flattens
      <4>3. i # 1 => i - 1 \in 1 .. m /\ i - 1 # m
        BY <2>3, <4>1
      <4>4. i # 1 => g[i - 1] = f[i - 1]
        BY <4>3
      <4> QED
        BY <4>1, <4>2, <4>4
    <3> QED
      BY <3>1, <3>2
  <2> HIDE DEF g
  <2>5. Flattens(seqs, m, g)
    BY <2>3, <2>4 DEF Flattens
  <2> QED
    BY <1>3, <2>5
<1> QED
  BY <1>4, <1>5

LEMMA FlattenIs ==
    ASSUME NEW seqs, Len(seqs) \in Nat, Len(seqs) # 0
    PROVE  \E f : Flattens(seqs, Len(seqs), f)
                  /\ FlattenSeq(seqs) = f[Len(seqs)]
<1> DEFINE n == Len(seqs)
           Is(f) == f = [i \in 1 .. n |->
                            IF i = 1 THEN seqs[i] ELSE f[i - 1] \o seqs[i]]
           flatten == CHOOSE f : Is(f)
<1>1. PICK f : Flattens(seqs, n, f)
  BY FlattensExists
<1>2. \E g : Is(g)
  <2> DEFINE g == [i \in 1 .. n |-> f[i]]
  <2>1. \A i \in 1 .. n : i # 1 => i - 1 \in 1 .. n
    OBVIOUS
  <2>2. \A i \in 1 .. n :
          g[i] = IF i = 1 THEN seqs[i] ELSE g[i - 1] \o seqs[i]
    BY <1>1, <2>1 DEF Flattens
  <2>3. Is(g)
    BY <2>2
  <2> QED
    BY <2>3
<1>3. Is(flatten)
  BY <1>2
<1>4. Flattens(seqs, n, flatten)
  BY <1>3 DEF Flattens
<1>5. FlattenSeq(seqs) = flatten[n]
  BY DEF FlattenSeq
<1> QED
  BY <1>4, <1>5

LEMMA FlattenNothing == FlattenSeq(<<>>) = <<>>
BY DEF FlattenSeq

LEMMA FlattenAppend ==
    ASSUME NEW T, NEW seqs \in Seq(Seq(T)), NEW x \in Seq(T)
    PROVE  /\ FlattenSeq(seqs) \in Seq(T)
           /\ FlattenSeq(Append(seqs, x)) = FlattenSeq(seqs) \o x
<1> DEFINE more == Append(seqs, x)
           n == Len(seqs)
<1>1. /\ more \in Seq(Seq(T)) /\ Len(more) = n + 1 /\ more[n + 1] = x
      /\ \A i \in 1 .. n : more[i] = seqs[i] /\ seqs[i] \in Seq(T)
      /\ n \in Nat
  BY AppendProperties, LenProperties, ElementOfSeq
<1>6. n = Len(seqs)
  OBVIOUS
<1> HIDE DEF more, n
<1>2. PICK g : Flattens(more, n + 1, g) /\ FlattenSeq(more) = g[n + 1]
  <2>1. Len(more) \in Nat /\ Len(more) # 0
    BY <1>1
  <2>2. PICK g : Flattens(more, Len(more), g) /\ FlattenSeq(more) = g[Len(more)]
    BY <2>1, FlattenIs
  <2> QED
    BY <1>1, <2>2
<1>3. g[n + 1] = IF n + 1 = 1 THEN x ELSE g[n] \o x
  <2> DEFINE k == n + 1
  <2>1. k \in 1 .. k /\ k - 1 = n
    BY <1>1
  <2>2. Flattens(more, k, g) /\ more[k] = x
    BY <1>1, <1>2
  <2> HIDE DEF k
  <2>3. g[k] = IF k = 1 THEN x ELSE g[k - 1] \o x
    BY <2>1, <2>2 DEF Flattens
  <2> QED
    BY <2>1, <2>3 DEF k
<1>4. CASE n = 0
  <2>1. seqs = <<>>
    BY <1>4, <1>6, EmptySeq
  <2>2. FlattenSeq(seqs) = <<>> /\ FlattenSeq(seqs) \in Seq(T)
    BY <2>1, FlattenNothing, EmptySeq
  <2>3. g[n + 1] = x
    BY <1>3, <1>4
  <2>4. <<>> \o x = x
    BY ConcatEmptySeq
  <2> QED
    BY <1>2, <2>2, <2>3, <2>4 DEF more
<1>5. CASE n # 0
  <2>1. PICK f : Flattens(seqs, n, f) /\ FlattenSeq(seqs) = f[n]
    BY <1>1, <1>5, <1>6, FlattenIs
  <2>2. n \in 1 .. n /\ n + 1 \in Nat /\ n <= n + 1 /\ n + 1 # 1
    BY <1>1, <1>5
  <2>3. g[n] = f[n]
    <3>1. Agree(seqs, more, n)
      BY <1>1 DEF Agree
    <3> DEFINE k == n + 1
    <3>2. k \in Nat /\ n <= k /\ Flattens(more, k, g)
      BY <1>2, <2>2
    <3> HIDE DEF k
    <3>3. Agree(f, g, n)
      <4>1. n \in Nat /\ Flattens(seqs, n, f)
        BY <1>1, <1>6, <2>1
      <4> QED
        BY ONLY <3>1, <3>2, <4>1, FlattensOnce
    <3> QED
      BY <2>2, <3>3 DEF Agree
  <2>4. f[n] \in Seq(T)
    BY <1>1, <2>1, <2>2, FlattensIsSeq
  <2> QED
    BY <1>2, <1>3, <2>1, <2>2, <2>3, <2>4 DEF more
<1> QED
  BY <1>1, <1>4, <1>5

LEMMA PrefixOfConcat ==
    ASSUME NEW T, NEW s \in Seq(T), NEW t \in Seq(T)
    PROVE  /\ IsPrefix(s, s) /\ IsPrefix(s, s \o t)
           /\ t # <<>> => IsStrictPrefix(s, s \o t)
<1> DEFINE u == s \o t
<1>1. /\ Len(s) \in Nat /\ Len(t) \in Nat /\ u \in Seq(T)
      /\ Len(u) = Len(s) + Len(t)
      /\ \A i \in 1 .. Len(s) : u[i] = s[i] /\ s[i] \in T
  BY ConcatProperties, LenProperties, ElementOfSeq
<1>2. u = s <=> t = <<>>
  BY ConcatEqualIffEmpty
<1> HIDE DEF u
<1>3. SubSeq(s, 1, Len(s)) = SubSeq(u, 1, Len(s))
  <2> DEFINE n == Len(s)
             a == SubSeq(s, 1, n)
             b == SubSeq(u, 1, n)
  <2>1. n \in Nat /\ \A i \in 1 .. n : s[i] \in T /\ u[i] \in T /\ u[i] = s[i]
    BY <1>1
  <2> HIDE DEF n
  <2>2. /\ a \in Seq(T) /\ Len(a) = (IF 1 <= n THEN n - 1 + 1 ELSE 0)
        /\ \A i \in 1 .. n - 1 + 1 : a[i] = s[1 + i - 1]
    BY <2>1, SubSeqProperties
  <2>3. /\ b \in Seq(T) /\ Len(b) = (IF 1 <= n THEN n - 1 + 1 ELSE 0)
        /\ \A i \in 1 .. n - 1 + 1 : b[i] = u[1 + i - 1]
    BY <2>1, SubSeqProperties
  <2> HIDE DEF a, b
  <2>4. Len(a) = n /\ Len(b) = n
    BY <2>1, <2>2, <2>3
  <2>5. \A i \in 1 .. n : i \in 1 .. n - 1 + 1 /\ 1 + i - 1 = i
    BY <2>1
  <2>6. \A i \in 1 .. n : a[i] = s[i] /\ b[i] = u[i]
    BY <2>2, <2>3, <2>5
  <2>7. a = b
    BY <2>1, <2>2, <2>3, <2>4, <2>6, SeqEqual
  <2> QED
    BY <2>7 DEF a, b, n
<1>4. Len(s) <= Len(s) /\ Len(s) <= Len(u)
  BY <1>1
<1>5. IsPrefix(s, s) /\ IsPrefix(s, u)
  BY <1>3, <1>4 DEF IsPrefix
<1> QED
  BY <1>2, <1>5 DEF IsStrictPrefix, u

-----------------------------------------------------------------------------
(* The characters of a run.                                                *)

LEMMA Interval ==
    ASSUME NEW k \in Nat
    PROVE  IsFiniteSet(1 .. k) /\ Cardinality(1 .. k) = k
BY FS_Interval

LEMMA CharactersFinite ==
    ASSUME NEW deltas \in Seq(Piece)
    PROVE  IsFiniteSet(Characters(deltas)) /\ Chars(deltas) \in Nat
<1> DEFINE Of(i) == {i} \X (1 .. deltas[i].length)
           Parts == {Of(i) : i \in DOMAIN deltas}
<1>1. DOMAIN deltas = 1 .. Len(deltas) /\ Len(deltas) \in Nat
  BY LenProperties
<1>2. ASSUME NEW i \in DOMAIN deltas
      PROVE  deltas[i].length \in Nat /\ IsFiniteSet(Of(i))
  <2>1. deltas[i].length \in Nat
    <3>1. deltas[i] \in Piece
      BY <1>1, ElementOfSeq
    <3> QED
      BY <3>1, WindowAssumption DEF Piece
  <2>2. IsFiniteSet({i}) /\ IsFiniteSet(1 .. deltas[i].length)
    BY <2>1, FS_Singleton, Interval
  <2> QED
    BY <2>1, <2>2, FS_Product
<1>3. IsFiniteSet(Parts)
  <2>1. IsFiniteSet(DOMAIN deltas)
    BY <1>1, FS_Interval
  <2> DEFINE f == [i \in DOMAIN deltas |-> Of(i)]
  <2>2. f \in Surjection(DOMAIN deltas, Parts)
    BY DEF Surjection
  <2> QED
    BY <2>1, <2>2, FS_Surjection
<1>4. IsFiniteSet(UNION Parts)
  BY <1>2, <1>3, FS_UNION
<1>5. Characters(deltas) = UNION Parts
  BY DEF Characters
<1> QED
  BY <1>4, <1>5, FS_CardinalityType DEF Chars

LEMMA CharsOfAppend ==
    ASSUME NEW deltas \in Seq(Piece), NEW p \in Piece
    PROVE  Chars(Append(deltas, p)) <= Chars(deltas) + p.length
<1> DEFINE longer == Append(deltas, p)
           n == Len(deltas)
           tail == {n + 1} \X (1 .. p.length)
<1>1. /\ longer \in Seq(Piece) /\ longer[n + 1] = p
      /\ \A i \in 1 .. n : longer[i] = deltas[i]
      /\ n \in Nat /\ DOMAIN deltas = 1 .. n /\ DOMAIN longer = 1 .. n + 1
  BY AppendProperties, LenProperties
<1> HIDE DEF longer
<1>2. p.length \in Nat
  BY WindowAssumption DEF Piece
<1>3. IsFiniteSet(tail) /\ Cardinality(tail) = p.length
  <2>1. /\ IsFiniteSet({n + 1}) /\ Cardinality({n + 1}) = 1
        /\ IsFiniteSet(1 .. p.length) /\ Cardinality(1 .. p.length) = p.length
    BY <1>2, FS_Singleton, Interval
  <2> DEFINE one == {n + 1}
             chars == 1 .. p.length
  <2>2. /\ IsFiniteSet(one \X chars)
        /\ Cardinality(one \X chars) = Cardinality(one) * Cardinality(chars)
    <3> HIDE DEF one, chars
    <3> QED
      BY <2>1, FS_Product DEF one, chars
  <2>3. 1 * p.length = p.length
    BY <1>2
  <2> QED
    BY <2>1, <2>2, <2>3
<1>4. Characters(longer) \subseteq Characters(deltas) \cup tail
  <2>1. SUFFICES ASSUME NEW c \in Characters(longer), c \notin tail
                 PROVE  c \in Characters(deltas)
    OBVIOUS
  <2>2. PICK i \in 1 .. n + 1 : c \in {i} \X (1 .. longer[i].length)
    BY <1>1 DEF Characters
  <2>3. i # n + 1
    BY <1>1, <2>1, <2>2
  <2>4. i \in 1 .. n
    BY <1>1, <2>3
  <2>5. c \in {i} \X (1 .. deltas[i].length)
    BY <1>1, <2>2, <2>4
  <2> QED
    BY <1>1, <2>4, <2>5 DEF Characters
<1> HIDE DEF tail
<1>5. /\ IsFiniteSet(Characters(deltas)) /\ Chars(deltas) \in Nat
      /\ IsFiniteSet(Characters(longer)) /\ Chars(longer) \in Nat
  BY <1>1, CharactersFinite
<1>6. /\ IsFiniteSet(Characters(deltas) \cup tail)
      /\ Cardinality(Characters(deltas) \cup tail)
           = Cardinality(Characters(deltas)) + Cardinality(tail)
             - Cardinality(Characters(deltas) \cap tail)
      /\ Cardinality(Characters(deltas) \cap tail) \in Nat
  <2>1. IsFiniteSet(Characters(deltas) \cap tail)
    BY <1>3, FS_Subset
  <2> QED
    BY <1>3, <1>5, <2>1, FS_Union, FS_CardinalityType
<1>7. Cardinality(Characters(longer)) <= Cardinality(Characters(deltas) \cup tail)
  BY <1>4, <1>6, FS_Subset
<1> DEFINE a == Cardinality(Characters(longer))
           b == Cardinality(Characters(deltas))
           c == Cardinality(Characters(deltas) \cap tail)
           d == Cardinality(Characters(deltas) \cup tail)
<1>8. /\ a \in Nat /\ b \in Nat /\ c \in Nat /\ d = b + p.length - c /\ a <= d
  BY <1>3, <1>5, <1>6, <1>7 DEF Chars
<1> HIDE DEF a, b, c, d
<1>9. a <= b + p.length
  BY <1>2, <1>8
<1> QED
  BY <1>9 DEF a, b, longer, Chars

-----------------------------------------------------------------------------
(* What is recorded.                                                       *)

\* An event of several pieces is a run of one stream within the limit.
Run(e) ==
    Len(e) > 1 =>
        /\ e[1].stream # "" /\ Chars(e) <= MaxChars
        /\ \A i \in DOMAIN e : e[i].stream = e[1].stream

\* Pending deltas are of one stream, a single one too.
OneStream(e) ==
    e # <<>> => /\ e[1].stream # ""
                /\ \A i \in DOMAIN e : e[i].stream = e[1].stream

\* Inductive: what is recorded and what is pending make up what arrived.
HistoryInv ==
    /\ PacedInv
    /\ recorded \in Seq(Seq(Piece)) /\ OnlyRunsMerge
    /\ FlattenSeq(recorded) \o pending = arrived
    /\ Run(pending) /\ OneStream(pending)

Told == FlattenSeq(recorded)

LEMMA RunsRecorded ==
    OnlyRunsMerge <=> \A e \in Range(recorded) : Run(e)
BY DEF OnlyRunsMerge, Run

LEMMA RangeOfAppend ==
    ASSUME NEW T, NEW s \in Seq(T), NEW x \in T, NEW e \in Range(Append(s, x))
    PROVE  e \in Range(s) \/ e = x
<1> DEFINE t == Append(s, x)
           n == Len(s)
<1>1. /\ n \in Nat /\ DOMAIN s = 1 .. n /\ DOMAIN t = 1 .. n + 1
      /\ \A i \in 1 .. n : t[i] = s[i]
      /\ t[n + 1] = x
  BY AppendProperties, LenProperties
<1>2. PICK i \in DOMAIN t : e = t[i]
  BY DEF Range
<1> HIDE DEF t, n
<1>3. i \in 1 .. n \/ i = n + 1
  BY <1>1
<1> QED
  BY <1>1, <1>2, <1>3 DEF Range

\* flush records all that has arrived.
LEMMA FlushedIs ==
    ASSUME HistoryInv
    PROVE  /\ Flushed \in Seq(Seq(Piece)) /\ FlattenSeq(Flushed) = arrived
           /\ \A e \in Range(Flushed) : Run(e)
           /\ Told \in Seq(Piece) /\ arrived \in Seq(Piece)
           /\ pending \in Seq(Piece) /\ Told \o pending = arrived
<1>1. /\ recorded \in Seq(Seq(Piece)) /\ pending \in Seq(Piece)
      /\ arrived \in Seq(Piece) /\ Told \o pending = arrived
  BY DEF HistoryInv, PacedInv, TypeOK, Told
<1>2. /\ Told \in Seq(Piece)
      /\ FlattenSeq(Append(recorded, pending)) = Told \o pending
  BY <1>1, FlattenAppend DEF Told
<1>3. \A e \in Range(recorded) : Run(e)
  BY RunsRecorded DEF HistoryInv
<1>4. CASE pending = <<>>
  <2>1. Flushed = recorded
    BY <1>4 DEF Flushed
  <2>2. Told \o pending = Told
    BY <1>2, <1>4, ConcatEmptySeq
  <2> QED
    BY <1>1, <1>2, <1>3, <2>1, <2>2 DEF Told
<1>5. CASE pending # <<>>
  <2>1. Flushed = Append(recorded, pending)
    BY <1>5 DEF Flushed
  <2>2. Append(recorded, pending) \in Seq(Seq(Piece))
    BY <1>1, AppendProperties
  <2>3. ASSUME NEW e \in Range(Append(recorded, pending)) PROVE Run(e)
    <3>1. e \in Range(recorded) \/ e = pending
      BY <1>1, <2>3, RangeOfAppend
    <3> QED
      BY <1>3, <3>1 DEF HistoryInv
  <2> QED
    BY <1>1, <1>2, <2>1, <2>2, <2>3
<1> QED
  BY <1>4, <1>5

\* An event of one piece.
LEMMA AloneRun == ASSUME NEW p PROVE Run(<<p>>)
<1> DEFINE e == <<p>>
<1>1. Len(e) = 1
  OBVIOUS
<1> HIDE DEF e
<1>2. ~(Len(e) > 1)
  BY <1>1
<1>3. Run(e)
  BY <1>2 DEF Run
<1> QED
  BY <1>3 DEF e

LEMMA AloneIs ==
    ASSUME NEW events \in Seq(Seq(Piece)), NEW p \in Piece,
           \A e \in Range(events) : Run(e)
    PROVE  /\ Append(events, <<p>>) \in Seq(Seq(Piece))
           /\ FlattenSeq(Append(events, <<p>>)) = Append(FlattenSeq(events), p)
           /\ \A e \in Range(Append(events, <<p>>)) : Run(e)
<1>1. <<p>> \in Seq(Piece) /\ Len(<<p>>) = 1
  <2>1. <<p>> \in Seq(Piece)
    BY OneType
  <2>2. Len(<<p>>) = 1
    OBVIOUS
  <2> QED
    BY <2>1, <2>2
<1>2. Run(<<p>>)
  BY AloneRun
<1>3. ASSUME NEW e \in Range(Append(events, <<p>>)) PROVE Run(e)
  <2>1. e \in Range(events) \/ e = <<p>>
    BY <1>1, <1>3, RangeOfAppend
  <2> QED
    BY <1>2, <2>1
<1>4. /\ FlattenSeq(events) \in Seq(Piece)
      /\ FlattenSeq(Append(events, <<p>>)) = FlattenSeq(events) \o <<p>>
  BY <1>1, FlattenAppend
<1>5. Append(FlattenSeq(events), p) = FlattenSeq(events) \o <<p>>
  BY <1>4, AppendIsConcat
<1> QED
  BY <1>1, <1>3, <1>4, <1>5, AppendProperties

\* What a step may do to the history.
Kept == recorded' = recorded

StepShape ==
    \/ /\ recorded' = Flushed /\ pending' = <<>> /\ arrived' = arrived
    \/ \E p \in Piece :
          /\ arrived' = Append(arrived, p)
          /\ \/ recorded' = Append(Flushed, <<p>>) /\ pending' = <<>>
             \/ recorded' = Flushed /\ pending' = <<p>> /\ p.stream # ""
             \/ Kept /\ pending' = Append(pending, p) /\ Merges(p)
    \/ Kept /\ pending' = pending /\ arrived' = arrived

LEMMA NextShape == ASSUME PacedInv, [Next]_vars PROVE StepShape
<1>1. ASSUME NEW s \in Stream \cup {""}, NEW k \in Lengths, NEW p,
             p = [n |-> Len(arrived) + 1, stream |-> s, length |-> k],
             \/ Boundary(p)
             \/ s # "" /\ (Merge(p) \/ Displace(p) \/ Leading(p) \/ Hold(p))
             \/ \E l \in closed : Late(l, p)
      PROVE  StepShape
  <2>1. Arrives(p)
    BY <1>1 DEF Boundary, Merge, Displace, Leading, Hold, Late
  <2>2. p \in Piece /\ arrived' = Append(arrived, p) /\ p.stream = s
    BY <1>1, <2>1, ArrivesType DEF Produced, Arrives, PacedInv
  <2>3. CASE Boundary(p) \/ \E l \in closed : Late(l, p)
    <3>1. recorded' = Append(Flushed, <<p>>) /\ pending' = <<>>
      BY <2>3 DEF Boundary, Late, Records, Emptied
    <3> QED
      BY <2>2, <3>1 DEF StepShape
  <2>4. CASE s # "" /\ Merge(p)
    BY <2>2, <2>4 DEF StepShape, Merge, Kept
  <2>5. CASE s # "" /\ Displace(p)
    BY <2>2, <2>5 DEF StepShape, Displace
  <2>6. CASE s # "" /\ Leading(p)
    BY <2>2, <2>6 DEF StepShape, Leading, Flushed
  <2>7. CASE s # "" /\ Hold(p)
    <3>1. recorded' = Flushed /\ pending' = <<p>>
      BY <2>7 DEF Hold, Flushed
    <3> QED
      BY <2>2, <2>7, <3>1 DEF StepShape
  <2> QED
    BY <1>1, <2>3, <2>4, <2>5, <2>6, <2>7
<1>2. CASE Flush \/ TimerFires
  BY <1>2 DEF Flush, TimerFires, Emptied, StepShape
<1>3. CASE Detach \/ Relaunch
  BY <1>3 DEF Detach, Relaunch, Close, StepShape
<1>4. CASE Tick \/ ClockSetBack \/ ClockSetForward \/ UNCHANGED vars
  BY <1>4 DEF Tick, ClockSetBack, ClockSetForward, vars, StepShape, Kept
<1> QED
  BY <1>1, <1>2, <1>3, <1>4 DEF Next

LEMMA MergedRun ==
    ASSUME HistoryInv, NEW p \in Piece, Merges(p)
    PROVE  Run(Append(pending, p)) /\ OneStream(Append(pending, p))
<1> DEFINE longer == Append(pending, p)
           n == Len(pending)
<1>1. /\ pending \in Seq(Piece) /\ pending # <<>>
      /\ pending[n].stream = p.stream /\ Chars(pending) + p.length <= MaxChars
      /\ OneStream(pending)
  BY DEF HistoryInv, PacedInv, TypeOK, Merges, Last
<1>2. /\ n \in Nat /\ n # 0 /\ DOMAIN pending = 1 .. n
      /\ longer \in Seq(Piece) /\ DOMAIN longer = 1 .. n + 1
      /\ longer[n + 1] = p /\ \A i \in 1 .. n : longer[i] = pending[i]
  BY <1>1, AppendProperties, LenProperties, EmptySeq
<1>3. Chars(longer) <= MaxChars
  <2>1. /\ Chars(longer) <= Chars(pending) + p.length
        /\ Chars(longer) \in Nat /\ Chars(pending) \in Nat
    BY <1>1, <1>2, CharsOfAppend, CharactersFinite
  <2>2. p.length \in Nat /\ MaxChars \in Nat
    BY WindowAssumption DEF Piece
  <2> DEFINE a == Chars(longer)
             b == Chars(pending)
             c == p.length
  <2>3. a <= b + c /\ b + c <= MaxChars /\ a \in Nat /\ b \in Nat
        /\ c \in Nat /\ MaxChars \in Nat
    BY <1>1, <2>1, <2>2
  <2> HIDE DEF a, b, c
  <2>4. a <= MaxChars
    BY <2>3
  <2> QED
    BY <2>4 DEF a
<1> HIDE DEF longer, n
<1>4. 1 \in 1 .. n /\ n \in 1 .. n
  BY <1>2
<1>5. /\ pending[1].stream # "" /\ p.stream = pending[1].stream
      /\ \A i \in 1 .. n : pending[i].stream = pending[1].stream
  BY <1>1, <1>2, <1>4 DEF OneStream
<1>6. longer[1].stream = pending[1].stream
  BY <1>2, <1>4
<1>7. ASSUME NEW i \in DOMAIN longer PROVE longer[i].stream = longer[1].stream
  <2>1. i \in 1 .. n \/ i = n + 1
    BY <1>2
  <2> QED
    BY <1>2, <1>5, <1>6, <2>1
<1>8. longer[1].stream # ""
  BY <1>5, <1>6
<1> QED
  BY <1>3, <1>7, <1>8 DEF Run, OneStream, longer

LEMMA AloneStream ==
    ASSUME NEW p \in Piece, p.stream # ""
    PROVE  OneStream(<<p>>)
<1> DEFINE e == <<p>>
<1>1. DOMAIN e = 1 .. 1
  <2>1. e \in Seq(Piece)
    BY OneType
  <2>2. Len(e) = 1
    OBVIOUS
  <2> HIDE DEF e
  <2> QED
    BY <2>1, <2>2, LenProperties
<1>2. e[1] = p
  OBVIOUS
<1> HIDE DEF e
<1>3. ASSUME NEW i \in DOMAIN e PROVE i = 1
  <2>1. i \in 1 .. 1
    BY <1>1
  <2> QED
    BY ONLY <2>1
<1>4. OneStream(e)
  BY <1>2, <1>3 DEF OneStream
<1> QED
  BY <1>4 DEF e

LEMMA NothingRun == Run(<<>>) /\ OneStream(<<>>)
<1>1. Len(<<>>) = 0
  OBVIOUS
<1> QED
  BY <1>1 DEF Run, OneStream

\* What StreamedHistory says of a step, and what stays true.
Promise(told, next) ==
    \/ /\ arrived' = arrived
       /\ told = next \/ (IsStrictPrefix(told, next) /\ IsPrefix(next, arrived))
    \/ /\ \E p \in Piece : arrived' = Append(arrived, p)
       /\ IsPrefix(told, next) /\ IsPrefix(next, arrived')

LEMMA NextHistory ==
    ASSUME HistoryInv, [Next]_vars
    PROVE  HistoryInv' /\ Promise(FlattenSeq(recorded), FlattenSeq(recorded'))
<1>1. PacedInv' /\ StepShape
  BY NextPaced, NextShape DEF HistoryInv
<1>2. /\ Flushed \in Seq(Seq(Piece)) /\ FlattenSeq(Flushed) = arrived
      /\ \A e \in Range(Flushed) : Run(e)
      /\ Told \in Seq(Piece) /\ arrived \in Seq(Piece)
      /\ pending \in Seq(Piece) /\ Told \o pending = arrived
  BY FlushedIs
<1>3. arrived' \in Seq(Piece)
  BY <1>1 DEF PacedInv
<1>4. /\ IsPrefix(Told, Told) /\ IsPrefix(arrived, arrived)
      /\ IsPrefix(Told, arrived)
      /\ pending # <<>> => IsStrictPrefix(Told, arrived)
  BY <1>2, PrefixOfConcat
<1>5. arrived \o <<>> = arrived /\ Told \o <<>> = Told
  BY <1>2, ConcatEmptySeq
<1>6. ASSUME NEW p \in Piece, arrived' = Append(arrived, p)
      PROVE  /\ arrived' = arrived \o <<p>>
             /\ IsPrefix(arrived, arrived') /\ IsPrefix(Told, arrived')
             /\ IsPrefix(arrived', arrived')
  <2>1. <<p>> \in Seq(Piece) /\ arrived' = arrived \o <<p>>
    BY <1>2, <1>6, OneType, AppendIsConcat
  <2>2. Told \o (pending \o <<p>>) = arrived' /\ pending \o <<p>> \in Seq(Piece)
    <3> DEFINE one == <<p>>
    <3>1. /\ Told \in Seq(Piece) /\ pending \in Seq(Piece)
          /\ one \in Seq(Piece)
      BY <1>2, <2>1
    <3> HIDE DEF one
    <3>2. (Told \o pending) \o one = Told \o (pending \o one)
      BY ONLY <3>1, ConcatAssociative
    <3>3. pending \o one \in Seq(Piece)
      BY ONLY <3>1, ConcatProperties
    <3> QED
      BY <1>2, <2>1, <3>2, <3>3 DEF one
  <2>3. IsPrefix(arrived, arrived') /\ IsPrefix(arrived', arrived')
    BY <1>2, <1>3, <2>1, PrefixOfConcat
  <2>4. IsPrefix(Told, arrived')
    BY <1>2, <2>2, PrefixOfConcat
  <2> QED
    BY <2>1, <2>3, <2>4
<1>7. CASE recorded' = Flushed /\ pending' = <<>> /\ arrived' = arrived
  <2>1. /\ recorded' \in Seq(Seq(Piece)) /\ FlattenSeq(recorded') = arrived
        /\ \A e \in Range(recorded') : Run(e)
    BY <1>2, <1>7
  <2>2. FlattenSeq(recorded') \o pending' = arrived'
    BY <1>5, <1>7, <2>1
  <2>3. HistoryInv'
    BY <1>1, <1>7, <2>1, <2>2, NothingRun DEF HistoryInv, OnlyRunsMerge, Run
  <2>4. Promise(Told, arrived)
    <3>1. CASE pending = <<>>
      BY <1>2, <1>5, <1>7, <3>1 DEF Promise
    <3>2. CASE pending # <<>>
      BY <1>4, <1>7, <3>2 DEF Promise
    <3> QED
      BY <3>1, <3>2
  <2> QED
    BY <2>1, <2>3, <2>4 DEF Told
<1>8. ASSUME NEW p \in Piece, arrived' = Append(arrived, p),
             recorded' = Append(Flushed, <<p>>), pending' = <<>>
      PROVE  HistoryInv' /\ Promise(Told, FlattenSeq(recorded'))
  <2>1. /\ recorded' \in Seq(Seq(Piece)) /\ FlattenSeq(recorded') = arrived'
        /\ \A e \in Range(recorded') : Run(e)
    BY <1>2, <1>8, AloneIs
  <2>2. FlattenSeq(recorded') \o pending' = arrived'
    BY <1>3, <1>8, <2>1, ConcatEmptySeq
  <2>3. HistoryInv'
    BY <1>1, <1>8, <2>1, <2>2, NothingRun DEF HistoryInv, OnlyRunsMerge, Run
  <2>4. Promise(Told, arrived')
    BY <1>6, <1>8 DEF Promise
  <2> QED
    BY <2>1, <2>3, <2>4
<1>9. ASSUME NEW p \in Piece, arrived' = Append(arrived, p),
             recorded' = Flushed, pending' = <<p>>, p.stream # ""
      PROVE  HistoryInv' /\ Promise(Told, FlattenSeq(recorded'))
  <2>1. /\ recorded' \in Seq(Seq(Piece)) /\ FlattenSeq(recorded') = arrived
        /\ \A e \in Range(recorded') : Run(e)
    BY <1>2, <1>9
  <2>2. FlattenSeq(recorded') \o pending' = arrived'
    BY <1>6, <1>9, <2>1
  <2>3. HistoryInv'
    BY <1>1, <1>9, <2>1, <2>2, AloneRun, AloneStream DEF HistoryInv, OnlyRunsMerge, Run, OneStream
  <2>4. Promise(Told, arrived)
    BY <1>4, <1>6, <1>9 DEF Promise
  <2> QED
    BY <2>1, <2>3, <2>4
<1>10. ASSUME NEW p \in Piece, arrived' = Append(arrived, p),
              Kept, pending' = Append(pending, p), Merges(p)
       PROVE  HistoryInv' /\ Promise(Told, FlattenSeq(recorded'))
  <2>1. FlattenSeq(recorded') = Told /\ recorded' = recorded
    BY <1>10 DEF Kept, Told
  <2>2. Told \o pending' = arrived'
    <3>1. pending' = pending \o <<p>> /\ <<p>> \in Seq(Piece)
      BY <1>2, <1>10, AppendIsConcat, OneType
    <3>2. Told \o (pending \o <<p>>) = (Told \o pending) \o <<p>>
      <4> DEFINE one == <<p>>
      <4>1. /\ Told \in Seq(Piece) /\ pending \in Seq(Piece)
            /\ one \in Seq(Piece)
        BY <1>2, <3>1
      <4> HIDE DEF one
      <4>2. (Told \o pending) \o one = Told \o (pending \o one)
        BY ONLY <4>1, ConcatAssociative
      <4> QED
        BY <4>2 DEF one
    <3> QED
      BY <1>2, <1>6, <1>10, <3>1, <3>2
  <2>3. Run(pending') /\ OneStream(pending')
    BY <1>10, MergedRun
  <2>4. HistoryInv'
    BY <1>1, <2>1, <2>2, <2>3 DEF HistoryInv, OnlyRunsMerge, Run, OneStream
  <2>5. Promise(Told, Told)
    BY <1>4, <1>6, <1>10 DEF Promise
  <2> QED
    BY <2>1, <2>4, <2>5
<1>11. CASE Kept /\ pending' = pending /\ arrived' = arrived
  <2>1. FlattenSeq(recorded') = Told /\ recorded' = recorded
    BY <1>11 DEF Kept, Told
  <2>2. HistoryInv'
    BY <1>1, <1>11, <2>1 DEF HistoryInv, OnlyRunsMerge, Run, OneStream, Told
  <2>3. Promise(Told, Told)
    BY <1>11 DEF Promise
  <2> QED
    BY <2>1, <2>2, <2>3 DEF Told
<1> QED
  BY <1>1, <1>7, <1>8, <1>9, <1>10, <1>11 DEF StepShape, Told

LEMMA InitHistory == ASSUME Init PROVE HistoryInv /\ Promised!Init
<1>1. PacedInv
  BY InitPaced
<1>2. recorded = <<>> /\ pending = <<>> /\ arrived = <<>>
  BY DEF Init
<1>3. DOMAIN <<>> = {} /\ <<>> \in Seq(Seq(Piece)) /\ <<>> \o <<>> = <<>>
  OBVIOUS
<1>4. OnlyRunsMerge
  BY <1>2, <1>3 DEF OnlyRunsMerge, Range
<1>5. HistoryInv
  BY <1>1, <1>2, <1>3, <1>4, FlattenNothing, NothingRun DEF HistoryInv
<1>6. Promised!Init
  BY <1>2, FlattenNothing DEF Promised!Init
<1> QED
  BY <1>5, <1>6

LEMMA HistoryHolds == Spec => []HistoryInv
<1>1. Init => HistoryInv
  BY InitHistory
<1>2. HistoryInv /\ [Next]_vars => HistoryInv'
  BY NextHistory
<1> QED
  BY <1>1, <1>2, PTL DEF Spec

\* The coalescer's state is consistent, and what it merges are adjacent
\* deltas of one stream within the size limit (text-delta-coalescer.ts, push
\* and flush; emitEvent of the session manager records the result).
THEOREM RunsAreMerged == Spec => []CoalescerInv
<1>1. HistoryInv => CoalescerInv
  BY DEF HistoryInv, PacedInv, CoalescerInv
<1> QED
  BY <1>1, HistoryHolds, PTL

\* The safety part of HistoryAsPromised: with coalescing, late output and
\* relaunches, each step of the session records what StreamedHistory
\* promises, in order, nothing twice and nothing left out.  That a lag is
\* made good in the end is left to TLC.
THEOREM HistoryIsPromised ==
    Spec => Promised!Init /\ [][Promised!Next]_Promised!vars
<1>1. Init => Promised!Init
  BY InitHistory
<1>2. HistoryInv /\ [Next]_vars => [Promised!Next]_Promised!vars
  <2> SUFFICES ASSUME HistoryInv, [Next]_vars
               PROVE  [Promised!Next]_Promised!vars
    OBVIOUS
  <2>1. Promise(FlattenSeq(recorded), FlattenSeq(recorded'))
    BY NextHistory
  <2>2. /\ \A s, t : Promised!IsPrefix(s, t) <=> IsPrefix(s, t)
        /\ \A s, t : Promised!IsStrictPrefix(s, t) <=> IsStrictPrefix(s, t)
    BY DEF Promised!IsPrefix, Promised!IsStrictPrefix, IsPrefix, IsStrictPrefix
  <2> QED
    BY <2>1, <2>2
       DEF Promise, Promised!Next, Promised!vars, Promised!Produce,
           Promised!Record
<1> QED
  BY <1>1, <1>2, HistoryHolds, PTL DEF Spec
=============================================================================
