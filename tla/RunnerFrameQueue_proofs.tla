----------------------- MODULE RunnerFrameQueue_proofs -----------------------
(***************************************************************************)
(* Proofs about RunnerFrameQueue, for any kinds of frames and sizes, any   *)
(* limits, inventories and number of frames: frames are handled in the     *)
(* order of their arrival, what is prepared ahead is released once, and a  *)
(* socket that is read has room for what it may send.                      *)
(***************************************************************************)
EXTENDS RunnerFrameQueue, FiniteSetTheorems, SequenceTheorems,
        WellFoundedInduction, TLAPS

-----------------------------------------------------------------------------
(* Bounded sets of numbers.                                                *)

LEMMA LessIsWellFounded ==
    IsWellFoundedOn({pair \in Nat \X Nat : pair[1] < pair[2]}, Nat)
BY NatLessThanWellFounded DEF OpToRel

LEMMA LeastExists ==
    ASSUME NEW S, S \subseteq Nat, S # {}
    PROVE  \E m \in S : \A k \in S : m <= k
<1> DEFINE R == {pair \in Nat \X Nat : pair[1] < pair[2]}
<1>1. PICK m \in S : \A k \in S : <<k, m>> \notin R
  BY LessIsWellFounded, WFMin
<1>2. ASSUME NEW k \in S PROVE m <= k
  <2>1. <<k, m>> \in Nat \X Nat
    OBVIOUS
  <2>2. ~(k < m)
    BY <1>1, <2>1
  <2> QED
    BY <2>2
<1> QED
  BY <1>2

LEMMA MaxExists ==
    ASSUME NEW b \in Nat, NEW S, S \subseteq 0 .. b, S # {}
    PROVE  Max(S) \in S /\ \A k \in S : k <= Max(S)
<1> DEFINE T == {b - k : k \in S}
<1>1. T \subseteq Nat /\ T # {}
  <2>1. \A k \in S : b - k \in Nat
    OBVIOUS
  <2> QED
    BY <2>1
<1>2. PICK m \in T : \A k \in T : m <= k
  BY <1>1, LeastExists
<1>3. PICK x \in S : m = b - x
  OBVIOUS
<1>4. \A k \in S : x >= k
  <2>1. SUFFICES ASSUME NEW k \in S PROVE x >= k
    OBVIOUS
  <2>2. b - k \in T
    OBVIOUS
  <2>3. b - x <= b - k
    BY <1>2, <1>3, <2>2
  <2>4. b \in Nat /\ x \in Nat /\ k \in Nat
    OBVIOUS
  <2> HIDE DEF T
  <2> QED
    BY ONLY <2>3, <2>4
<1>5. Max(S) \in S /\ \A k \in S : Max(S) >= k
  BY <1>4 DEF Max
<1> QED
  BY <1>5

LEMMA MaxOfTwo ==
    ASSUME NEW a \in Int, NEW b \in Int
    PROVE  Max({a, b}) = IF a >= b THEN a ELSE b
<1>1. \E x \in {a, b} : \A y \in {a, b} : x >= y
  OBVIOUS
<1>2. Max({a, b}) \in {a, b} /\ \A y \in {a, b} : Max({a, b}) >= y
  BY <1>1 DEF Max
<1> QED
  BY <1>2

LEMMA MinOfTwo ==
    ASSUME NEW a \in Int, NEW b \in Int
    PROVE  Min({a, b}) = IF a <= b THEN a ELSE b
<1>1. \E x \in {a, b} : \A y \in {a, b} : x <= y
  OBVIOUS
<1>2. Min({a, b}) \in {a, b} /\ \A y \in {a, b} : Min({a, b}) <= y
  BY <1>1 DEF Min
<1> QED
  BY <1>2

LEMMA FunctionIsSeq ==
    ASSUME NEW n \in Nat, NEW T, NEW f \in [1 .. n -> T]
    PROVE  f \in Seq(T) /\ Len(f) = n /\ DOMAIN f = 1 .. n
<1>1. f \in Seq(T)
  OBVIOUS
<1>2. DOMAIN f = 1 .. Len(f) /\ Len(f) \in Nat
  BY <1>1, LenProperties
<1> QED
  BY <1>1, <1>2

LEMMA ConcatParts ==
    ASSUME NEW T, NEW f \in Seq(T), NEW g \in Seq(T)
    PROVE  /\ f \o g \in Seq(T) /\ Len(f \o g) = Len(f) + Len(g)
           /\ DOMAIN f = 1 .. Len(f) /\ Len(f) \in Nat
           /\ \A n \in 1 .. Len(f) : (f \o g)[n] = f[n]
           /\ \A n \in 1 .. Len(g) : (f \o g)[Len(f) + n] = g[n]
<1> DEFINE h == f \o g
<1>1. /\ DOMAIN f = 1 .. Len(f) /\ Len(f) \in Nat /\ Len(g) \in Nat
  BY LenProperties
<1>2. /\ h \in Seq(T) /\ Len(h) = Len(f) + Len(g)
      /\ \A n \in 1 .. Len(f) + Len(g) :
            h[n] = IF n <= Len(f) THEN f[n] ELSE g[n - Len(f)]
  BY ConcatProperties
<1> HIDE DEF h
<1>3. \A n \in 1 .. Len(f) : h[n] = f[n]
  BY <1>1, <1>2
<1>4. ASSUME NEW n \in 1 .. Len(g) PROVE h[Len(f) + n] = g[n]
  <2>1. /\ Len(f) + n \in 1 .. Len(f) + Len(g)
        /\ ~(Len(f) + n <= Len(f)) /\ Len(f) + n - Len(f) = n
    BY <1>1
  <2> QED
    BY <1>2, <2>1
<1> QED
  BY <1>1, <1>2, <1>3, <1>4 DEF h

-----------------------------------------------------------------------------
(* The bytes of a sequence of frames.                                      *)

LEMMA UnitsOf ==
    ASSUME NEW frames, NEW u
    PROVE  u \in Units(frames) <=>
             \E i \in DOMAIN frames :
                 u \in {frames[i].id} \X (1 .. SizeOf[frames[i].kind])
BY DEF Units

LEMMA SizeOfFrame ==
    ASSUME NEW frames \in Seq(Frame), NEW i \in DOMAIN frames
    PROVE  /\ frames[i] \in Frame /\ frames[i].id \in FrameId
           /\ frames[i].kind \in Kind
           /\ SizeOf[frames[i].kind] \in Nat
           /\ 2 * SizeOf[frames[i].kind] <= ByteLimit
<1>1. frames[i] \in Frame
  BY ElementOfSeq
<1> QED
  BY <1>1, LimitAssumption DEF Frame

LEMMA UnitsFinite ==
    ASSUME NEW frames \in Seq(Frame)
    PROVE  /\ IsFiniteSet(Units(frames))
           /\ Bytes(frames) \in Nat
<1> DEFINE All == FrameId \X (1 .. ByteLimit)
<1>1. ByteLimit \in Nat /\ MaxFrames \in Nat
  BY LimitAssumption
<1>2. IsFiniteSet(All)
  <2>1. IsFiniteSet(1 .. MaxFrames) /\ IsFiniteSet(1 .. ByteLimit)
    BY <1>1, FS_Interval
  <2> QED
    BY <2>1, FS_Product DEF FrameId
<1>3. Units(frames) \subseteq All
  <2>1. SUFFICES ASSUME NEW u \in Units(frames) PROVE u \in All
    OBVIOUS
  <2>2. PICK i \in DOMAIN frames :
          u \in {frames[i].id} \X (1 .. SizeOf[frames[i].kind])
    BY UnitsOf
  <2>3. u = <<u[1], u[2]>> /\ u[1] = frames[i].id
        /\ u[2] \in 1 .. SizeOf[frames[i].kind]
    BY <2>2
  <2>4. u[1] \in FrameId /\ u[2] \in 1 .. ByteLimit
    BY <1>1, <2>3, SizeOfFrame
  <2> QED
    BY <2>3, <2>4
<1> HIDE DEF All
<1>4. IsFiniteSet(Units(frames))
  BY <1>2, <1>3, FS_Subset
<1> QED
  BY <1>4, FS_CardinalityType DEF Bytes

LEMMA NoBytes == Bytes(<<>>) = 0
<1>1. Units(<<>>) = {}
  BY DEF Units
<1> QED
  BY <1>1, FS_EmptySet DEF Bytes

\* Preparing a frame does not change its bytes.
LEMMA SameBytes ==
    ASSUME NEW f, NEW g, DOMAIN f = DOMAIN g,
           \A i \in DOMAIN f : f[i].id = g[i].id /\ f[i].kind = g[i].kind
    PROVE  Bytes(f) = Bytes(g)
<1>1. \A u : u \in Units(f) <=> u \in Units(g)
  BY UnitsOf
<1>2. Units(f) = Units(g)
  BY <1>1
<1> QED
  BY <1>2 DEF Bytes

\* The bytes of two sequences that share no frame.
LEMMA BytesOfTwo ==
    ASSUME NEW f \in Seq(Frame), NEW g \in Seq(Frame), NEW h,
           \A i \in DOMAIN f, j \in DOMAIN g : f[i].id # g[j].id,
           \A u : u \in Units(h) <=> u \in Units(f) \/ u \in Units(g)
    PROVE  Bytes(h) = Bytes(f) + Bytes(g)
<1>1. Units(h) = Units(f) \cup Units(g)
  OBVIOUS
<1>2. Units(f) \cap Units(g) = {}
  <2>1. SUFFICES ASSUME NEW u, u \in Units(f), u \in Units(g) PROVE FALSE
    OBVIOUS
  <2>2. PICK i \in DOMAIN f : u \in {f[i].id} \X (1 .. SizeOf[f[i].kind])
    BY <2>1, UnitsOf
  <2>3. PICK j \in DOMAIN g : u \in {g[j].id} \X (1 .. SizeOf[g[j].kind])
    BY <2>1, UnitsOf
  <2>4. u[1] = f[i].id /\ u[1] = g[j].id
    BY <2>2, <2>3
  <2> QED
    BY <2>4
<1>3. Bytes(f) \in Nat /\ Bytes(g) \in Nat
      /\ IsFiniteSet(Units(f)) /\ IsFiniteSet(Units(g))
  BY UnitsFinite
<1>4. Cardinality(Units(f) \cup Units(g))
        = Cardinality(Units(f)) + Cardinality(Units(g)) - Cardinality({})
  BY <1>2, <1>3, FS_Union
<1> QED
  BY <1>1, <1>3, <1>4, FS_EmptySet DEF Bytes

LEMMA RowOfUnits ==
    ASSUME NEW id, NEW size \in Nat
    PROVE  Cardinality({id} \X (1 .. size)) = size
<1>1. IsFiniteSet({id}) /\ Cardinality({id}) = 1
  BY FS_Singleton
<1>2. /\ IsFiniteSet(1 .. size)
      /\ Cardinality(1 .. size) = IF 1 > size THEN 0 ELSE size - 1 + 1
  BY FS_Interval
<1>3. Cardinality(1 .. size) = size
  BY <1>2
<1>4. Cardinality({id} \X (1 .. size))
        = Cardinality({id}) * Cardinality(1 .. size)
  BY <1>1, <1>2, FS_Product
<1>5. Cardinality({id} \X (1 .. size)) = 1 * size
  BY <1>1, <1>3, <1>4
<1> QED
  BY <1>5

LEMMA BytesOfOne ==
    ASSUME NEW x \in Frame
    PROVE  <<x>> \in Seq(Frame) /\ Bytes(<<x>>) = SizeOf[x.kind]
<1>1. <<x>> \in Seq(Frame) /\ DOMAIN <<x>> = {1} /\ <<x>>[1] = x
  OBVIOUS
<1>2. SizeOf[x.kind] \in Nat
  BY LimitAssumption DEF Frame
<1>3. Units(<<x>>) = {x.id} \X (1 .. SizeOf[x.kind])
  BY <1>1 DEF Units
<1>4. Cardinality({x.id} \X (1 .. SizeOf[x.kind])) = SizeOf[x.kind]
  BY <1>2, RowOfUnits
<1>5. Bytes(<<x>>) = SizeOf[x.kind]
  BY <1>3, <1>4 DEF Bytes
<1> QED
  BY <1>1, <1>5

LEMMA BytesOfAppend ==
    ASSUME NEW f \in Seq(Frame), NEW x \in Frame,
           \A i \in DOMAIN f : f[i].id # x.id
    PROVE  Bytes(Append(f, x)) = Bytes(f) + SizeOf[x.kind]
<1> DEFINE g == <<x>>
           h == Append(f, x)
<1>1. g \in Seq(Frame) /\ DOMAIN g = {1} /\ g[1] = x
  OBVIOUS
<1>2. /\ DOMAIN h = 1 .. Len(f) + 1 /\ DOMAIN f = 1 .. Len(f) /\ Len(f) \in Nat
      /\ \A i \in DOMAIN f : h[i] = f[i]
      /\ h[Len(f) + 1] = x
  BY AppendProperties, LenProperties
<1> HIDE DEF g, h
<1>3. \A u : u \in Units(h) <=> u \in Units(f) \/ u \in Units(g)
  <2>1. SUFFICES ASSUME NEW u
                 PROVE  u \in Units(h) <=> u \in Units(f) \/ u \in Units(g)
    OBVIOUS
  <2>2. ASSUME u \in Units(h) PROVE u \in Units(f) \/ u \in Units(g)
    <3>1. PICK i \in DOMAIN h : u \in {h[i].id} \X (1 .. SizeOf[h[i].kind])
      BY <2>2, UnitsOf
    <3>2. CASE i \in DOMAIN f
      BY <1>2, <3>1, <3>2, UnitsOf
    <3>3. CASE i = Len(f) + 1
      <4>1. 1 \in DOMAIN g /\ u \in {g[1].id} \X (1 .. SizeOf[g[1].kind])
        BY <1>1, <1>2, <3>1, <3>3
      <4> QED
        BY <4>1, UnitsOf
    <3> QED
      BY <1>2, <3>2, <3>3
  <2>3. ASSUME u \in Units(f) PROVE u \in Units(h)
    <3>1. PICK i \in DOMAIN f : u \in {f[i].id} \X (1 .. SizeOf[f[i].kind])
      BY <2>3, UnitsOf
    <3>2. i \in DOMAIN h /\ u \in {h[i].id} \X (1 .. SizeOf[h[i].kind])
      BY <1>2, <3>1
    <3> QED
      BY <3>2, UnitsOf
  <2>4. ASSUME u \in Units(g) PROVE u \in Units(h)
    <3>1. u \in {x.id} \X (1 .. SizeOf[x.kind])
      BY <1>1, <2>4, UnitsOf
    <3>2. Len(f) + 1 \in DOMAIN h
      BY <1>2
    <3> QED
      BY <1>2, <3>1, <3>2, UnitsOf
  <2> QED
    BY <2>2, <2>3, <2>4
<1>4. Bytes(h) = Bytes(f) + Bytes(g)
  BY <1>1, <1>3, BytesOfTwo
<1> QED
  BY <1>4, BytesOfOne DEF g, h

LEMMA BytesOfParts ==
    ASSUME NEW h \in Seq(Frame), NEW n \in 0 .. Len(h), NEW k \in Nat,
           \A i \in DOMAIN h : h[i].id = k + i
    PROVE  Bytes(h) = Bytes(SubSeq(h, 1, n)) + Bytes(SubSeq(h, n + 1, Len(h)))
<1> DEFINE f == SubSeq(h, 1, n)
           g == SubSeq(h, n + 1, Len(h))
<1>1. /\ Len(h) \in Nat /\ DOMAIN h = 1 .. Len(h)
      /\ f \in Seq(Frame) /\ DOMAIN f = 1 .. n
      /\ \A i \in DOMAIN f : f[i] = h[i]
  BY LenProperties
<1>2. /\ g \in Seq(Frame) /\ DOMAIN g = 1 .. Len(h) - n
      /\ \A i \in DOMAIN g : g[i] = h[n + i]
  BY LenProperties
<1> HIDE DEF f, g
<1>3. \A i \in DOMAIN f, j \in DOMAIN g : f[i].id # g[j].id
  <2>1. SUFFICES ASSUME NEW i \in DOMAIN f, NEW j \in DOMAIN g
                 PROVE  f[i].id # g[j].id
    OBVIOUS
  <2>2. i \in DOMAIN h /\ n + j \in DOMAIN h
    BY <1>1, <1>2
  <2>3. f[i].id = k + i /\ g[j].id = k + (n + j)
    BY <1>1, <1>2, <2>2
  <2> QED
    BY <1>1, <1>2, <2>3
<1>4. \A u : u \in Units(h) <=> u \in Units(f) \/ u \in Units(g)
  <2>1. SUFFICES ASSUME NEW u
                 PROVE  u \in Units(h) <=> u \in Units(f) \/ u \in Units(g)
    OBVIOUS
  <2>2. ASSUME u \in Units(h) PROVE u \in Units(f) \/ u \in Units(g)
    <3>1. PICK i \in DOMAIN h : u \in {h[i].id} \X (1 .. SizeOf[h[i].kind])
      BY <2>2, UnitsOf
    <3>2. CASE i <= n
      <4>1. i \in DOMAIN f /\ h[i] = f[i]
        BY <1>1, <3>2
      <4> QED
        BY <3>1, <4>1, UnitsOf
    <3>3. CASE ~(i <= n)
      <4>1. i - n \in DOMAIN g /\ h[i] = g[i - n]
        BY <1>1, <1>2, <3>3
      <4> QED
        BY <3>1, <4>1, UnitsOf
    <3> QED
      BY <3>2, <3>3
  <2>3. ASSUME u \in Units(f) PROVE u \in Units(h)
    <3>1. PICK i \in DOMAIN f : u \in {f[i].id} \X (1 .. SizeOf[f[i].kind])
      BY <2>3, UnitsOf
    <3>2. i \in DOMAIN h /\ h[i] = f[i]
      BY <1>1
    <3> QED
      BY <3>1, <3>2, UnitsOf
  <2>4. ASSUME u \in Units(g) PROVE u \in Units(h)
    <3>1. PICK i \in DOMAIN g : u \in {g[i].id} \X (1 .. SizeOf[g[i].kind])
      BY <2>4, UnitsOf
    <3>2. n + i \in DOMAIN h /\ h[n + i] = g[i]
      BY <1>1, <1>2
    <3> QED
      BY <3>1, <3>2, UnitsOf
  <2> QED
    BY <2>2, <2>3, <2>4
<1>5. Bytes(h) = Bytes(f) + Bytes(g)
  BY ONLY h \in Seq(Frame), <1>1, <1>2, <1>3, <1>4, BytesOfTwo
<1> QED
  BY <1>5 DEF f, g

-----------------------------------------------------------------------------
(* The queue.  h is the number of frames handed to handlers so far.        *)

Call == [id : FrameId, value : BOOLEAN]

Queue == [pending : Seq(Frame), bytes : Nat, closed : BOOLEAN,
          pressured : BOOLEAN, paused : BOOLEAN, reserve : Nat,
          frames : Nat, preparedCount : Nat, handlingRunnerWide : BOOLEAN,
          asked : Seq(Call)]

\* What waits are the frames that follow, and their bytes are counted.
Waiting(s, h) ==
    /\ \A i \in DOMAIN s.pending : s.pending[i].id = h + i
    /\ s.bytes = Bytes(s.pending) /\ s.bytes <= ByteLimit
    /\ s.closed => s.pending = <<>>

\* A prefix of it is prepared, none of it after a frame about the runner.
Prefix(s) ==
    /\ s.preparedCount <= Len(s.pending)
    /\ \A i \in 1 .. s.preparedCount : \A j \in 1 .. i - 1 :
          s.pending[j].kind \notin Wide
    /\ \A i \in DOMAIN s.pending :
          s.pending[i].prepared
            <=> i <= s.preparedCount /\ s.pending[i].kind \in Stages

\* prepare was called for the frames up to the end of that prefix.
Asked(s, h) ==
    /\ \A n \in DOMAIN s.asked : s.asked[n].id = n
    /\ s.closed \/ Len(s.asked) = h + s.preparedCount
    /\ \A i \in 1 .. s.preparedCount :
          s.asked[h + i].value <=> s.pending[i].kind \in Stages

Sound(s, h) ==
    /\ s \in Queue
    /\ s.frames >= s.reserve + FrameLimit
    /\ Waiting(s, h) /\ Prefix(s) /\ Asked(s, h)

\* What an update of the pressure leaves: a queue that is not under pressure
\* has room, one that is has frames.
Relieved(s) ==
    /\ ~s.pressured /\ ~s.closed =>
          Len(s.pending) < s.frames /\ 4 * s.bytes < ByteLimit
    /\ s.pressured => s.pending # <<>>

\* The socket heard of it as far as it obeys.
Heard(s, sk) ==
    /\ sk = "open" => s.paused = s.pressured
    /\ sk # "closed" /\ s.paused => s.pressured

LEMMA HighFramesBound ==
    ASSUME NEW s \in Queue, s.frames >= s.reserve + FrameLimit
    PROVE  /\ HighFrames(s) \in Nat
           /\ 1 <= HighFrames(s) /\ HighFrames(s) <= s.frames
<1> DEFINE half == (s.frames - s.reserve) \div 2
           cap == Min({PressureCap, half})
<1>1. /\ s.frames \in Nat /\ s.reserve \in Nat /\ PressureCap \in Nat
      /\ s.frames - s.reserve >= 1
  BY LimitAssumption DEF Queue
<1>2. half \in Nat /\ half <= s.frames - s.reserve
  BY <1>1
<1> HIDE DEF half
<1>3. cap \in Nat /\ cap <= half
  BY <1>1, <1>2, MinOfTwo
<1> HIDE DEF cap
<1>4. Max({1, cap}) = IF 1 >= cap THEN 1 ELSE cap
  BY <1>3, MaxOfTwo
<1>5. HighFrames(s) = s.reserve + Max({1, cap})
  BY DEF HighFrames, half, cap
<1> QED
  BY <1>1, <1>2, <1>3, <1>4, <1>5

LEMMA UpdateFields ==
    ASSUME NEW s \in Queue, NEW sk
    PROVE  LET t == UpdatePressure(s, sk)
           IN  /\ t \in Queue
               /\ t.pending = s.pending /\ t.bytes = s.bytes
               /\ t.closed = s.closed /\ t.pressured = UnderPressure(s)
               /\ t.reserve = s.reserve /\ t.frames = s.frames
               /\ t.preparedCount = s.preparedCount /\ t.asked = s.asked
               /\ t.handlingRunnerWide = s.handlingRunnerWide
               /\ t.paused = IF /\ UnderPressure(s) # s.pressured
                                /\ Obeys(sk, UnderPressure(s))
                             THEN UnderPressure(s) ELSE s.paused
<1>1. UnderPressure(s) \in BOOLEAN
  BY DEF UnderPressure
<1> DEFINE u == UnderPressure(s)
           p == IF u # s.pressured /\ Obeys(sk, u) THEN u ELSE s.paused
<1>2. p \in BOOLEAN /\ u \in BOOLEAN
  BY <1>1 DEF Queue
<1>3. UpdatePressure(s, sk) = [s EXCEPT !.pressured = u, !.paused = p]
  BY DEF UpdatePressure
<1> HIDE DEF u, p
<1>4. UpdatePressure(s, sk) =
        [pending |-> s.pending, bytes |-> s.bytes, closed |-> s.closed,
         pressured |-> u, paused |-> p, reserve |-> s.reserve,
         frames |-> s.frames, preparedCount |-> s.preparedCount,
         handlingRunnerWide |-> s.handlingRunnerWide, asked |-> s.asked]
  BY <1>3 DEF Queue
<1>5. UpdatePressure(s, sk) \in Queue
  BY <1>2, <1>4 DEF Queue
<1> QED
  BY <1>4, <1>5 DEF u, p

LEMMA UpdateKeeps ==
    ASSUME NEW s, NEW h \in Nat, Sound(s, h),
           NEW sk \in {"open", "closing", "terminated", "closed"}
    PROVE  LET t == UpdatePressure(s, sk)
           IN  /\ Sound(t, h) /\ Relieved(t)
               /\ Heard(s, sk) => Heard(t, sk)
<1> DEFINE t == UpdatePressure(s, sk)
<1>1. s \in Queue
  BY DEF Sound
<1>2. /\ t \in Queue
      /\ t.pending = s.pending /\ t.bytes = s.bytes
      /\ t.closed = s.closed /\ t.pressured = UnderPressure(s)
      /\ t.reserve = s.reserve /\ t.frames = s.frames
      /\ t.preparedCount = s.preparedCount /\ t.asked = s.asked
      /\ t.paused = IF /\ UnderPressure(s) # s.pressured
                       /\ Obeys(sk, UnderPressure(s))
                    THEN UnderPressure(s) ELSE s.paused
  BY <1>1, UpdateFields
<1> HIDE DEF t
<1>3. Sound(t, h)
  BY <1>2 DEF Sound, Waiting, Prefix, Asked
<1>4. Relieved(t)
  <2>1. /\ HighFrames(s) \in Nat
        /\ 1 <= HighFrames(s) /\ HighFrames(s) <= s.frames
    BY HighFramesBound DEF Sound
  <2>2. /\ ByteLimit \in Nat \ {0} /\ s.bytes \in Nat /\ s.frames \in Nat
        /\ s.pending \in Seq(Frame) /\ Len(s.pending) \in Nat
        /\ s.pressured \in BOOLEAN /\ s.closed \in BOOLEAN
    BY <1>1, LimitAssumption, LenProperties DEF Queue
  <2>3. s.pending = <<>> => s.bytes = 0 /\ Len(s.pending) = 0
    BY NoBytes DEF Sound, Waiting
  <2>4. ASSUME ~UnderPressure(s), ~s.closed
        PROVE  Len(s.pending) < s.frames /\ 4 * s.bytes < ByteLimit
    BY <2>1, <2>2, <2>4 DEF UnderPressure
  <2>5. ASSUME UnderPressure(s) PROVE s.pending # <<>>
    BY <2>1, <2>2, <2>3, <2>5 DEF UnderPressure
  <2> QED
    BY <1>2, <2>4, <2>5 DEF Relieved
<1>5. ASSUME Heard(s, sk) PROVE Heard(t, sk)
  <2>1. CASE UnderPressure(s) = s.pressured
    BY <1>2, <1>5, <2>1 DEF Heard
  <2>2. CASE UnderPressure(s) # s.pressured /\ Obeys(sk, UnderPressure(s))
    <3>1. t.paused = t.pressured
      BY <1>2, <2>2
    <3> QED
      BY <3>1 DEF Heard
  <2>3. CASE UnderPressure(s) # s.pressured /\ ~Obeys(sk, UnderPressure(s))
    <3>1. sk # "open" /\ t.paused = s.paused
      BY <1>2, <2>3 DEF Obeys
    <3>2. CASE UnderPressure(s)
      BY <1>2, <3>1, <3>2 DEF Heard
    <3>3. CASE ~UnderPressure(s)
      <4>1. sk \notin {"closing", "terminated"}
        BY <2>3, <3>3 DEF Obeys
      <4> QED
        BY <1>2, <3>1, <4>1 DEF Heard
    <3> QED
      BY <3>2, <3>3
  <2> QED
    BY <2>1, <2>2, <2>3
<1> QED
  BY <1>3, <1>4, <1>5 DEF t

-----------------------------------------------------------------------------
(* Preparing ahead.                                                        *)

LEMMA PreparedToBounds ==
    ASSUME NEW s \in Queue, s.preparedCount <= Len(s.pending)
    PROVE  /\ PreparedTo(s) \in Nat
           /\ s.preparedCount <= PreparedTo(s)
           /\ PreparedTo(s) <= Len(s.pending)
           /\ s.pending # <<>> => PreparedTo(s) >= 1
           /\ \A j \in 1 .. PreparedTo(s) - 1 :
                j >= s.preparedCount => s.pending[j].kind \notin Wide
<1> DEFINE low == Max({1, s.preparedCount})
           S == {n \in s.preparedCount .. Len(s.pending) :
                    \A i \in low .. n - 1 : s.pending[i].kind \notin Wide}
<1>1. /\ s.preparedCount \in Nat /\ s.pending \in Seq(Frame)
      /\ Len(s.pending) \in Nat
      /\ s.pending # <<>> => Len(s.pending) >= 1
  BY EmptySeq, LenProperties DEF Queue
<1>2. low \in Nat /\ low = IF 1 >= s.preparedCount THEN 1 ELSE s.preparedCount
  BY <1>1, MaxOfTwo
<1> HIDE DEF low
<1>3. s.preparedCount \in S
  BY <1>1, <1>2
<1>4. s.pending # <<>> /\ s.preparedCount = 0 => 1 \in S
  BY <1>1, <1>2
<1>5. S \subseteq 0 .. Len(s.pending)
  BY <1>1
<1>6. PreparedTo(s) = Max(S)
  BY DEF PreparedTo, low
<1>7. Max(S) \in S /\ \A k \in S : k <= Max(S)
  <2> HIDE DEF S
  <2> QED
    BY <1>1, <1>3, <1>5, MaxExists
<1>8. /\ Max(S) \in Nat /\ s.preparedCount <= Max(S)
      /\ Max(S) <= Len(s.pending)
      /\ \A i \in low .. Max(S) - 1 : s.pending[i].kind \notin Wide
  <2>1. \A n \in S :
           /\ n \in Nat /\ s.preparedCount <= n /\ n <= Len(s.pending)
           /\ \A i \in low .. n - 1 : s.pending[i].kind \notin Wide
    BY <1>1
  <2> HIDE DEF S
  <2> QED
    BY <1>7, <2>1
<1>9. s.pending # <<>> => Max(S) >= 1
  <2> HIDE DEF S
  <2> QED
    BY <1>1, <1>4, <1>7, <1>8
<1> DEFINE m == Max(S)
<1>10. m \in Nat /\ \A i \in low .. m - 1 : s.pending[i].kind \notin Wide
  BY <1>8
<1> HIDE DEF m
<1>11. \A j \in 1 .. m - 1 :
          j >= s.preparedCount => s.pending[j].kind \notin Wide
  BY <1>1, <1>2, <1>10
<1> QED
  BY <1>6, <1>8, <1>9, <1>11 DEF m

LEMMA PrepareFields ==
    ASSUME NEW s \in Queue, s.preparedCount <= Len(s.pending)
    PROVE  LET t == Prepare(s)
               to == PreparedTo(s)
               count == s.preparedCount
           IN  /\ t \in Queue
               /\ t.bytes = s.bytes /\ t.closed = s.closed
               /\ t.pressured = s.pressured /\ t.paused = s.paused
               /\ t.reserve = s.reserve /\ t.frames = s.frames
               /\ t.handlingRunnerWide = s.handlingRunnerWide
               /\ t.preparedCount = to
               /\ DOMAIN t.pending = DOMAIN s.pending
               /\ Len(t.pending) = Len(s.pending)
               /\ \A i \in DOMAIN s.pending :
                    /\ t.pending[i].id = s.pending[i].id
                    /\ t.pending[i].kind = s.pending[i].kind
                    /\ t.pending[i].prepared <=>
                         \/ s.pending[i].prepared
                         \/ /\ count < i /\ i <= to
                            /\ s.pending[i].kind \in Stages
               /\ Len(t.asked) = Len(s.asked) + (to - count)
               /\ \A n \in DOMAIN s.asked : t.asked[n] = s.asked[n]
               /\ \A n \in 1 .. to - count :
                    /\ t.asked[Len(s.asked) + n].id = s.pending[count + n].id
                    /\ t.asked[Len(s.asked) + n].value
                         <=> s.pending[count + n].kind \in Stages
<1> DEFINE to == PreparedTo(s)
           count == s.preparedCount
           Returns(i) == s.pending[i].kind \in Stages
           pending == [i \in DOMAIN s.pending |->
                          IF i \in count + 1 .. to /\ Returns(i)
                          THEN [s.pending[i] EXCEPT !.prepared = TRUE]
                          ELSE s.pending[i]]
           more == [n \in 1 .. to - count |->
                       [id |-> s.pending[count + n].id,
                        value |-> Returns(count + n)]]
           asked == s.asked \o more
<1>1. /\ to \in Nat /\ count \in Nat /\ count <= to /\ to <= Len(s.pending)
  BY PreparedToBounds DEF Queue
<1>2. /\ s.pending \in Seq(Frame) /\ DOMAIN s.pending = 1 .. Len(s.pending)
      /\ Len(s.pending) \in Nat
      /\ \A i \in DOMAIN s.pending : s.pending[i] \in Frame
  BY LenProperties, ElementOfSeq DEF Queue
<1>3. Prepare(s) = [s EXCEPT !.pending = pending, !.preparedCount = to,
                             !.asked = asked]
  BY DEF Prepare
<1> HIDE DEF to
<1>4. /\ DOMAIN pending = DOMAIN s.pending
      /\ \A i \in DOMAIN s.pending :
           /\ pending[i] \in Frame
           /\ pending[i].id = s.pending[i].id
           /\ pending[i].kind = s.pending[i].kind
           /\ pending[i].prepared <=>
                \/ s.pending[i].prepared
                \/ count < i /\ i <= to /\ s.pending[i].kind \in Stages
  <2>1. DOMAIN pending = DOMAIN s.pending
    OBVIOUS
  <2>2. SUFFICES ASSUME NEW i \in DOMAIN s.pending
                 PROVE  /\ pending[i] \in Frame
                        /\ pending[i].id = s.pending[i].id
                        /\ pending[i].kind = s.pending[i].kind
                        /\ pending[i].prepared <=>
                             \/ s.pending[i].prepared
                             \/ /\ count < i /\ i <= to
                                /\ s.pending[i].kind \in Stages
    BY <2>1
  <2>3. CASE i \in count + 1 .. to /\ Returns(i)
    <3>1. pending[i] = [s.pending[i] EXCEPT !.prepared = TRUE]
      BY <2>3
    <3>2. pending[i] = [id |-> s.pending[i].id, kind |-> s.pending[i].kind,
                        prepared |-> TRUE]
      BY <1>2, <3>1 DEF Frame
    <3>3. count < i /\ i <= to
      BY <1>1, <2>3
    <3> QED
      BY <1>2, <2>3, <3>2, <3>3 DEF Frame
  <2>4. CASE ~(i \in count + 1 .. to /\ Returns(i))
    <3>1. pending[i] = s.pending[i]
      BY <2>4
    <3>2. ~(count < i /\ i <= to /\ Returns(i))
      BY <1>1, <1>2, <2>4
    <3> QED
      BY <1>2, <3>1, <3>2
  <2> QED
    BY <2>3, <2>4
<1> HIDE DEF pending
<1>5. pending \in Seq(Frame) /\ Len(pending) = Len(s.pending)
  <2>1. pending = [i \in 1 .. Len(s.pending) |-> pending[i]]
    BY <1>2 DEF pending
  <2>2. pending \in [1 .. Len(s.pending) -> Frame]
    BY <1>2, <1>4, <2>1
  <2> QED
    BY <1>2, <2>2, LenProperties
<1>6. more \in Seq(Call) /\ Len(more) = to - count
  <2>1. \A n \in 1 .. to - count : more[n] \in Call
    <3>1. SUFFICES ASSUME NEW n \in 1 .. to - count
                   PROVE  more[n] \in Call
      OBVIOUS
    <3>2. count + n \in DOMAIN s.pending
      BY <1>1, <1>2
    <3>3. s.pending[count + n].id \in FrameId
      BY <1>2, <3>2 DEF Frame
    <3> QED
      BY <3>3 DEF Call
  <2>2. more \in [1 .. to - count -> Call]
    BY <2>1
  <2>3. to - count \in Nat
    BY <1>1
  <2> HIDE DEF more
  <2> QED
    BY <2>2, <2>3, FunctionIsSeq
<1>7. \A n \in 1 .. to - count :
         /\ more[n].id = s.pending[count + n].id
         /\ more[n].value <=> s.pending[count + n].kind \in Stages
  OBVIOUS
<1> HIDE DEF more
<1>8. /\ asked \in Seq(Call)
      /\ Len(asked) = Len(s.asked) + (to - count)
      /\ Len(s.asked) \in Nat /\ DOMAIN s.asked = 1 .. Len(s.asked)
      /\ \A n \in 1 .. Len(s.asked) : asked[n] = s.asked[n]
      /\ \A n \in 1 .. to - count : asked[Len(s.asked) + n] = more[n]
  <2>1. s.asked \in Seq(Call)
    BY DEF Queue
  <2>2. /\ Len(s.asked) \in Nat /\ DOMAIN s.asked = 1 .. Len(s.asked)
        /\ to - count \in Nat
    BY <1>1, <2>1, LenProperties
  <2>3. /\ asked \in Seq(Call) /\ Len(asked) = Len(s.asked) + Len(more)
        /\ \A n \in 1 .. Len(s.asked) : asked[n] = s.asked[n]
        /\ \A n \in 1 .. Len(more) : asked[Len(s.asked) + n] = more[n]
    <3> DEFINE old == s.asked
    <3>1. old \in Seq(Call) /\ more \in Seq(Call)
      BY <1>6, <2>1
    <3> HIDE DEF old
    <3>2. /\ old \o more \in Seq(Call)
          /\ Len(old \o more) = Len(old) + Len(more)
          /\ \A n \in 1 .. Len(old) : (old \o more)[n] = old[n]
          /\ \A n \in 1 .. Len(more) : (old \o more)[Len(old) + n] = more[n]
      BY <3>1, ConcatParts
    <3> QED
      BY <3>2 DEF old
  <2> HIDE DEF asked
  <2> QED
    BY <1>6, <2>2, <2>3
<1> HIDE DEF asked
<1>9. Prepare(s) =
        [pending |-> pending, bytes |-> s.bytes, closed |-> s.closed,
         pressured |-> s.pressured, paused |-> s.paused,
         reserve |-> s.reserve, frames |-> s.frames, preparedCount |-> to,
         handlingRunnerWide |-> s.handlingRunnerWide, asked |-> asked]
  BY <1>3 DEF Queue
<1>10. Prepare(s) \in Queue
  BY <1>1, <1>5, <1>8, <1>9 DEF Queue
<1> DEFINE t == Prepare(s)
<1>11. /\ t.pending = pending /\ t.bytes = s.bytes /\ t.closed = s.closed
       /\ t.pressured = s.pressured /\ t.paused = s.paused
       /\ t.reserve = s.reserve /\ t.frames = s.frames
       /\ t.handlingRunnerWide = s.handlingRunnerWide
       /\ t.preparedCount = to /\ t.asked = asked
  BY <1>9
<1> HIDE DEF t
<1>12. /\ \A n \in DOMAIN s.asked : t.asked[n] = s.asked[n]
       /\ \A n \in 1 .. to - count :
            /\ t.asked[Len(s.asked) + n].id = s.pending[count + n].id
            /\ t.asked[Len(s.asked) + n].value
                 <=> s.pending[count + n].kind \in Stages
  BY <1>7, <1>8, <1>11
<1>13. \A i \in DOMAIN s.pending :
           /\ t.pending[i].id = s.pending[i].id
           /\ t.pending[i].kind = s.pending[i].kind
           /\ t.pending[i].prepared <=>
                \/ s.pending[i].prepared
                \/ count < i /\ i <= to /\ s.pending[i].kind \in Stages
  BY <1>4, <1>11
<1>14. t \in Queue /\ DOMAIN t.pending = DOMAIN s.pending
       /\ Len(t.pending) = Len(s.pending)
       /\ Len(t.asked) = Len(s.asked) + (to - count)
  BY <1>4, <1>5, <1>8, <1>10, <1>11 DEF t
<1> QED
  BY <1>11, <1>12, <1>13, <1>14 DEF to, t

\* What the steps of the queue keep.
Alike(s, t) ==
    /\ t.closed = s.closed /\ t.pressured = s.pressured
    /\ t.paused = s.paused /\ t.frames = s.frames /\ t.bytes = s.bytes
    /\ Len(t.pending) = Len(s.pending)

\* The frames whose value has left the queue.
Out(s) == {i \in DOMAIN s.asked : s.asked[i].value /\ i \notin Holding(s.pending)}

LEMMA HoldingOf ==
    ASSUME NEW frames, NEW x
    PROVE  x \in Holding(frames)
             <=> \E i \in DOMAIN frames : frames[i].prepared /\ frames[i].id = x
BY DEF Holding

\* How the frames of the queue and the requests for preparation line up.
LEMMA Beyond ==
    ASSUME NEW l \in Nat, NEW d \in Nat, NEW c \in Nat, c <= d,
           NEW n \in Nat, n <= l + (d - c), ~(n <= l)
    PROVE  n - l \in 1 .. d - c /\ n = l + (n - l)
OBVIOUS

LEMMA Ahead ==
    ASSUME NEW l \in Nat, NEW d \in Nat, NEW c \in Nat, d <= l,
           NEW m \in 1 .. d - c
    PROVE  c + m \in 1 .. l /\ c < c + m /\ c + m <= d
OBVIOUS

LEMMA NoneAhead ==
    ASSUME NEW d, NEW c, d = 0, c = 0, NEW m \in 1 .. d - c
    PROVE  FALSE
OBVIOUS

LEMMA Regroup ==
    ASSUME NEW h \in Nat, NEW c \in Nat, NEW m \in Nat
    PROVE  h + (c + m) = (h + c) + m
OBVIOUS

LEMMA PrepareKeeps ==
    ASSUME NEW s, NEW h \in Nat, Sound(s, h)
    PROVE  LET t == Prepare(s)
           IN  /\ Sound(t, h) /\ Alike(s, t) /\ Out(t) = Out(s)
               /\ t.handlingRunnerWide = s.handlingRunnerWide
               /\ s.pending # <<>> => t.preparedCount >= 1
               /\ t.preparedCount >= s.preparedCount
               /\ \A n \in DOMAIN s.asked :
                    n \in DOMAIN t.asked /\ t.asked[n] = s.asked[n]
<1> DEFINE t == Prepare(s)
           to == PreparedTo(s)
           count == s.preparedCount
<1>1. s \in Queue /\ count <= Len(s.pending)
  BY DEF Sound, Prefix
<1>2. /\ to \in Nat /\ count <= to /\ to <= Len(s.pending)
      /\ s.pending # <<>> => to >= 1
      /\ \A j \in 1 .. to - 1 : j >= count => s.pending[j].kind \notin Wide
  BY <1>1, PreparedToBounds
<1>3. /\ t \in Queue
      /\ t.bytes = s.bytes /\ t.closed = s.closed
      /\ t.pressured = s.pressured /\ t.paused = s.paused
      /\ t.reserve = s.reserve /\ t.frames = s.frames
      /\ t.handlingRunnerWide = s.handlingRunnerWide
      /\ t.preparedCount = to
      /\ DOMAIN t.pending = DOMAIN s.pending
      /\ Len(t.pending) = Len(s.pending)
      /\ Len(t.asked) = Len(s.asked) + (to - count)
  BY <1>1, PrepareFields
<1>4. \A i \in DOMAIN s.pending :
         /\ t.pending[i].id = s.pending[i].id
         /\ t.pending[i].kind = s.pending[i].kind
         /\ t.pending[i].prepared <=>
              \/ s.pending[i].prepared
              \/ count < i /\ i <= to /\ s.pending[i].kind \in Stages
  BY <1>1, PrepareFields
<1>5. /\ \A n \in DOMAIN s.asked : t.asked[n] = s.asked[n]
      /\ \A n \in 1 .. to - count :
           /\ t.asked[Len(s.asked) + n].id = s.pending[count + n].id
           /\ t.asked[Len(s.asked) + n].value
                <=> s.pending[count + n].kind \in Stages
  BY <1>1, PrepareFields
<1> HIDE DEF t, to
<1>6. /\ count \in Nat /\ Len(s.pending) \in Nat /\ Len(s.asked) \in Nat
      /\ DOMAIN s.pending = 1 .. Len(s.pending)
      /\ DOMAIN s.asked = 1 .. Len(s.asked)
      /\ DOMAIN t.asked = 1 .. Len(t.asked)
      /\ s.pending = <<>> => Len(s.pending) = 0
      /\ Len(s.pending) = 0 => s.pending = <<>>
  BY <1>1, <1>3, LenProperties, EmptySeq DEF Queue
<1>7. s.closed \/ Len(s.asked) = h + count
  BY DEF Sound, Asked
<1>8. s.closed => to = 0 /\ count = 0
  BY <1>2, <1>6 DEF Sound, Waiting
<1>9. Waiting(t, h)
  <2>1. Bytes(t.pending) = Bytes(s.pending)
    BY <1>3, <1>4, SameBytes
  <2>2. t.closed => t.pending = <<>>
    <3>1. SUFFICES ASSUME s.closed PROVE t.pending = <<>>
      BY <1>3
    <3>2. Len(t.pending) = 0
      BY <1>3, <1>6, <3>1 DEF Sound, Waiting
    <3> QED
      BY <1>3, <3>2, EmptySeq DEF Queue
  <2> QED
    BY <1>3, <1>4, <2>1, <2>2 DEF Sound, Waiting
<1>10. Prefix(t)
  <2>1. ASSUME NEW i \in 1 .. to, NEW j \in 1 .. i - 1
        PROVE  t.pending[j].kind \notin Wide
    <3>1. j \in DOMAIN s.pending /\ t.pending[j].kind = s.pending[j].kind
      BY <1>2, <1>4, <1>6, <2>1
    <3>2. CASE j >= count
      BY <1>2, <2>1, <3>1, <3>2
    <3>3. CASE ~(j >= count)
      <4>1. count \in 1 .. count /\ j \in 1 .. count - 1
        BY <1>6, <2>1, <3>3
      <4> QED
        BY <3>1, <4>1 DEF Sound, Prefix
    <3> QED
      BY <3>2, <3>3
  <2>2. ASSUME NEW i \in DOMAIN t.pending
        PROVE  t.pending[i].prepared
                 <=> i <= to /\ t.pending[i].kind \in Stages
    <3>1. i \in DOMAIN s.pending /\ i \in Nat
      BY <1>3, <1>6, <2>2
    <3>2. s.pending[i].prepared
            <=> i <= count /\ s.pending[i].kind \in Stages
      BY <3>1 DEF Sound, Prefix
    <3> QED
      BY <1>2, <1>4, <1>6, <3>1, <3>2
  <2> QED
    BY <1>2, <1>3, <2>1, <2>2 DEF Prefix
<1>11. \A n \in DOMAIN t.asked : t.asked[n].id = n
  <2>1. SUFFICES ASSUME NEW n \in DOMAIN t.asked PROVE t.asked[n].id = n
    OBVIOUS
  <2>2. CASE n \in DOMAIN s.asked
    BY <1>5, <2>2 DEF Sound, Asked
  <2>3. CASE n \notin DOMAIN s.asked
    <3> DEFINE m == n - Len(s.asked)
    <3>0. n \in Nat /\ n <= Len(s.asked) + (to - count) /\ ~(n <= Len(s.asked))
      <4>1. n \in 1 .. Len(t.asked) /\ n \notin 1 .. Len(s.asked)
        BY <1>6, <2>3
      <4> QED
        BY <1>3, <1>6, <4>1
    <3>1. m \in 1 .. to - count /\ n = Len(s.asked) + m
      BY ONLY <1>2, <1>6, <3>0, Beyond DEF m
    <3> HIDE DEF m
    <3>2. t.asked[n].id = s.pending[count + m].id
      BY <1>5, <3>1
    <3>3. count + m \in DOMAIN s.pending
      BY ONLY <1>2, <1>6, <3>1, Ahead
    <3>4. t.asked[n].id = h + (count + m)
      BY <3>2, <3>3 DEF Sound, Waiting
    <3>5. Len(s.asked) = h + count
      <4>1. ~s.closed
        BY ONLY <1>8, <3>1, NoneAhead
      <4> QED
        BY <1>7, <4>1
    <3>6. m \in Nat
      BY <3>1
    <3> QED
      BY ONLY <1>6, <3>1, <3>4, <3>5, <3>6, Regroup, h \in Nat
  <2> QED
    BY <2>2, <2>3
<1>12. ASSUME NEW i \in 1 .. to
       PROVE  t.asked[h + i].value <=> t.pending[i].kind \in Stages
  <2>1. i \in DOMAIN s.pending /\ Len(s.asked) = h + count
    BY <1>2, <1>6, <1>7, <1>8, <1>12
  <2>2. CASE i <= count
    <3>1. h + i \in DOMAIN s.asked /\ i \in 1 .. count
      BY <1>6, <1>12, <2>1, <2>2
    <3>2. s.asked[h + i].value <=> s.pending[i].kind \in Stages
      BY <3>1 DEF Sound, Asked
    <3> QED
      BY <1>4, <1>5, <2>1, <3>1, <3>2
  <2>3. CASE ~(i <= count)
    <3>1. /\ i - count \in 1 .. to - count
          /\ h + i = Len(s.asked) + (i - count) /\ count + (i - count) = i
      BY <1>2, <1>6, <1>12, <2>1, <2>3
    <3>2. t.asked[Len(s.asked) + (i - count)].value
            <=> s.pending[count + (i - count)].kind \in Stages
      BY <1>5, <3>1
    <3> QED
      BY <1>4, <2>1, <3>1, <3>2
  <2> QED
    BY <2>2, <2>3
<1>13. Asked(t, h)
  <2>1. t.closed \/ Len(t.asked) = h + to
    BY <1>2, <1>3, <1>6, <1>7
  <2> QED
    BY <1>3, <1>11, <1>12, <2>1 DEF Asked
<1>14. Sound(t, h)
  BY <1>3, <1>9, <1>10, <1>13 DEF Sound
<1>15. \A n \in DOMAIN s.asked :
          n \in DOMAIN t.asked /\ t.asked[n] = s.asked[n]
  BY <1>2, <1>3, <1>5, <1>6
<1>16. ASSUME NEW i \in Out(t) PROVE i \in Out(s)
  <2>1. /\ i \in DOMAIN t.asked /\ t.asked[i].value
        /\ i \notin Holding(t.pending)
    BY <1>16 DEF Out
  <2>2. CASE i \in DOMAIN s.asked
    <3>1. i \notin Holding(s.pending)
      <4>1. SUFFICES ASSUME NEW k \in DOMAIN s.pending,
                            s.pending[k].prepared, s.pending[k].id = i
                     PROVE  FALSE
        BY HoldingOf
      <4>2. t.pending[k].prepared /\ t.pending[k].id = i
        BY <1>4, <4>1
      <4> QED
        BY <1>3, <2>1, <4>2, HoldingOf
    <3> QED
      BY <1>5, <2>1, <2>2, <3>1 DEF Out
  <2>3. CASE i \notin DOMAIN s.asked
    <3>0. /\ i \in Nat /\ i <= Len(s.asked) + (to - count)
          /\ ~(i <= Len(s.asked))
      <4>1. i \in 1 .. Len(t.asked) /\ i \notin 1 .. Len(s.asked)
        BY <1>6, <2>1, <2>3
      <4> QED
        BY <1>3, <1>6, <4>1
    <3> DEFINE m == i - Len(s.asked)
               k == count + m
    <3>1. m \in 1 .. to - count /\ i = Len(s.asked) + m
      BY ONLY <1>2, <1>6, <3>0, Beyond DEF m
    <3> HIDE DEF m
    <3>2. k \in DOMAIN s.pending /\ count < k /\ k <= to
      BY ONLY <1>2, <1>6, <3>1, Ahead DEF k
    <3>3. /\ t.asked[i].id = s.pending[k].id
          /\ t.asked[i].value <=> s.pending[k].kind \in Stages
      BY <1>5, <3>1
    <3> HIDE DEF k
    <3>4. t.pending[k].prepared /\ t.pending[k].id = i
      BY <1>4, <1>11, <2>1, <3>2, <3>3
    <3> QED
      BY <1>3, <2>1, <3>2, <3>4, HoldingOf
  <2> QED
    BY <2>2, <2>3
<1>17. ASSUME NEW i \in Out(s) PROVE i \in Out(t)
  <2>1. /\ i \in DOMAIN s.asked /\ s.asked[i].value
        /\ i \notin Holding(s.pending)
    BY <1>17 DEF Out
  <2>2. i \notin Holding(t.pending)
    <3>1. SUFFICES ASSUME NEW k \in DOMAIN t.pending,
                          t.pending[k].prepared, t.pending[k].id = i
                   PROVE  FALSE
      BY HoldingOf
    <3>2. k \in DOMAIN s.pending /\ s.pending[k].id = i /\ k \in Nat
      BY <1>3, <1>4, <1>6, <3>1
    <3>3. ~s.pending[k].prepared
      BY <2>1, <3>2, HoldingOf
    <3>4. count < k /\ i = h + k
      BY <1>4, <3>1, <3>2, <3>3 DEF Sound, Waiting
    <3>5. ~s.closed
      BY <1>2, <1>4, <1>6, <1>8, <3>1, <3>2, <3>3
    <3> QED
      BY <1>6, <1>7, <2>1, <3>2, <3>4, <3>5
  <2> QED
    BY <1>15, <2>1, <2>2 DEF Out
<1>18. Out(t) = Out(s)
  BY <1>16, <1>17
<1> QED
  BY <1>2, <1>3, <1>14, <1>15, <1>18 DEF Alike, t, to

LEMMA PrepareAheadKeeps ==
    ASSUME NEW s, NEW h \in Nat, Sound(s, h)
    PROVE  LET t == PrepareAhead(s)
           IN  /\ Sound(t, h) /\ Alike(s, t) /\ Out(t) = Out(s)
               /\ t.handlingRunnerWide = s.handlingRunnerWide
               /\ s.handlingRunnerWide => t.preparedCount = s.preparedCount
               /\ s.pending # <<>> /\ ~s.handlingRunnerWide =>
                    t.preparedCount >= 1
               /\ \A n \in DOMAIN s.asked :
                    n \in DOMAIN t.asked /\ t.asked[n] = s.asked[n]
<1>1. CASE s.handlingRunnerWide
  <2>1. PrepareAhead(s) = s
    BY <1>1 DEF PrepareAhead
  <2> QED
    BY <1>1, <2>1 DEF Alike
<1>2. CASE ~s.handlingRunnerWide
  <2>1. PrepareAhead(s) = Prepare(s)
    BY <1>2 DEF PrepareAhead
  <2> QED
    BY <1>2, <2>1, PrepareKeeps
<1> QED
  BY <1>1, <1>2

LEMMA AlikeKeeps ==
    ASSUME NEW s, NEW t, Alike(s, t), s \in Queue, t \in Queue
    PROVE  /\ Relieved(s) => Relieved(t)
           /\ \A sk : Heard(s, sk) => Heard(t, sk)
           /\ s.pending = <<>> <=> t.pending = <<>>
<1>1. /\ \A seq \in Seq(Frame) : seq = <<>> <=> Len(seq) = 0
      /\ s.pending \in Seq(Frame) /\ t.pending \in Seq(Frame)
  BY EmptySeq DEF Queue
<1>2. s.pending = <<>> <=> t.pending = <<>>
  BY <1>1 DEF Alike
<1>3. Relieved(s) => Relieved(t)
  BY <1>2 DEF Alike, Relieved
<1>4. \A sk : Heard(s, sk) => Heard(t, sk)
  BY DEF Alike, Heard
<1> QED
  BY <1>2, <1>3, <1>4

LEMMA UpdateOut ==
    ASSUME NEW s \in Queue, NEW sk
    PROVE  Out(UpdatePressure(s, sk)) = Out(s)
BY UpdateFields DEF Out

-----------------------------------------------------------------------------
(* Frames come and go.                                                     *)

LEMMA PushKeeps ==
    ASSUME NEW s, NEW h \in Nat, Sound(s, h), ~s.closed,
           NEW k \in Kind, s.bytes + SizeOf[k] <= ByteLimit,
           accepted = h + Len(s.pending), accepted + 1 \in FrameId
    PROVE  LET t == Push(s, k)
           IN  /\ Sound(t, h) /\ Out(t) = Out(s)
               /\ t.closed = s.closed /\ t.pressured = s.pressured
               /\ t.paused = s.paused /\ t.asked = s.asked
               /\ t.preparedCount = s.preparedCount
               /\ t.handlingRunnerWide = s.handlingRunnerWide
               /\ Len(t.pending) = Len(s.pending) + 1
<1> DEFINE x == [id |-> accepted + 1, kind |-> k, prepared |-> FALSE]
           pending == Append(s.pending, x)
           bytes == s.bytes + SizeOf[k]
<1>1. x \in Frame /\ x.id = accepted + 1 /\ x.kind = k /\ ~x.prepared
  BY DEF Frame
<1>2. s \in Queue /\ s.pending \in Seq(Frame) /\ s.bytes \in Nat
      /\ SizeOf[k] \in Nat /\ ByteLimit \in Nat
  BY LimitAssumption DEF Sound, Queue
<1>3. Push(s, k) = [s EXCEPT !.pending = pending, !.bytes = bytes]
  BY DEF Push
<1> HIDE DEF x
<1>4. /\ pending \in Seq(Frame) /\ Len(pending) = Len(s.pending) + 1
      /\ DOMAIN s.pending = 1 .. Len(s.pending) /\ Len(s.pending) \in Nat
      /\ DOMAIN pending = 1 .. Len(s.pending) + 1
      /\ \A i \in DOMAIN s.pending : pending[i] = s.pending[i]
      /\ pending[Len(s.pending) + 1] = x
  BY <1>1, <1>2, AppendProperties, LenProperties
<1>5. \A i \in DOMAIN s.pending : s.pending[i].id # x.id
  BY <1>1, <1>4 DEF Sound, Waiting
<1>6. Bytes(pending) = Bytes(s.pending) + SizeOf[k]
  BY <1>1, <1>2, <1>5, BytesOfAppend
<1>7. bytes = Bytes(pending) /\ bytes <= ByteLimit /\ bytes \in Nat
  BY <1>2, <1>6 DEF Sound, Waiting
<1> HIDE DEF pending, bytes
<1> DEFINE t == Push(s, k)
<1>8. t = [pending |-> pending, bytes |-> bytes, closed |-> s.closed,
           pressured |-> s.pressured, paused |-> s.paused,
           reserve |-> s.reserve, frames |-> s.frames,
           preparedCount |-> s.preparedCount,
           handlingRunnerWide |-> s.handlingRunnerWide, asked |-> s.asked]
  BY <1>2, <1>3 DEF Queue
<1>9. t \in Queue
  BY <1>2, <1>4, <1>7, <1>8 DEF Queue
<1>10. /\ t.pending = pending /\ t.bytes = bytes /\ t.closed = s.closed
       /\ t.pressured = s.pressured /\ t.paused = s.paused
       /\ t.reserve = s.reserve /\ t.frames = s.frames
       /\ t.preparedCount = s.preparedCount /\ t.asked = s.asked
       /\ t.handlingRunnerWide = s.handlingRunnerWide
  BY <1>8
<1> HIDE DEF t
<1>11. s.preparedCount \in Nat /\ s.preparedCount <= Len(s.pending)
  BY <1>2 DEF Sound, Prefix, Queue
<1>12. Waiting(t, h)
  <2>1. \A i \in DOMAIN pending : pending[i].id = h + i
    <3>1. SUFFICES ASSUME NEW i \in DOMAIN pending
                   PROVE  pending[i].id = h + i
      OBVIOUS
    <3>2. CASE i \in DOMAIN s.pending
      BY <1>4, <3>2 DEF Sound, Waiting
    <3>3. CASE i = Len(s.pending) + 1
      BY <1>1, <1>4, <3>3
    <3> QED
      BY <1>4, <3>2, <3>3
  <2> QED
    BY <1>7, <1>10, <2>1 DEF Waiting
<1>13. Prefix(t)
  <2>1. ASSUME NEW i \in 1 .. s.preparedCount, NEW j \in 1 .. i - 1
        PROVE  pending[j].kind \notin Wide
    <3>1. j \in DOMAIN s.pending
      BY <1>4, <1>11
    <3> QED
      BY <1>4, <3>1 DEF Sound, Prefix
  <2>2. ASSUME NEW i \in DOMAIN pending
        PROVE  pending[i].prepared
                 <=> i <= s.preparedCount /\ pending[i].kind \in Stages
    <3>1. CASE i \in DOMAIN s.pending
      BY <1>4, <3>1 DEF Sound, Prefix
    <3>2. CASE i = Len(s.pending) + 1
      BY <1>1, <1>4, <1>11, <3>2
    <3> QED
      BY <1>4, <2>2, <3>1, <3>2
  <2> QED
    BY <1>4, <1>10, <1>11, <2>1, <2>2 DEF Prefix
<1>14. Asked(t, h)
  <2>1. ASSUME NEW i \in 1 .. s.preparedCount
        PROVE  s.asked[h + i].value <=> pending[i].kind \in Stages
    <3>1. i \in DOMAIN s.pending
      BY <1>4, <1>11
    <3> QED
      BY <1>4, <3>1 DEF Sound, Asked
  <2> QED
    BY <1>10, <2>1 DEF Sound, Asked
<1>15. Sound(t, h)
  BY <1>9, <1>10, <1>12, <1>13, <1>14 DEF Sound
<1>16. \A i : i \in Holding(pending) <=> i \in Holding(s.pending)
  <2>1. SUFFICES ASSUME NEW i
                 PROVE  i \in Holding(pending) <=> i \in Holding(s.pending)
    OBVIOUS
  <2>2. ASSUME i \in Holding(pending) PROVE i \in Holding(s.pending)
    <3>1. PICK n \in DOMAIN pending : pending[n].prepared /\ pending[n].id = i
      BY <2>2, HoldingOf
    <3>2. n \in DOMAIN s.pending
      BY <1>1, <1>4, <3>1
    <3> QED
      BY <1>4, <3>1, <3>2, HoldingOf
  <2>3. ASSUME i \in Holding(s.pending) PROVE i \in Holding(pending)
    <3>1. PICK n \in DOMAIN s.pending :
            s.pending[n].prepared /\ s.pending[n].id = i
      BY <2>3, HoldingOf
    <3>2. n \in DOMAIN pending
      BY <1>4
    <3> QED
      BY <1>4, <3>1, <3>2, HoldingOf
  <2> QED
    BY <2>2, <2>3
<1>17. Out(t) = Out(s)
  BY <1>10, <1>16 DEF Out
<1> QED
  BY <1>4, <1>10, <1>15, <1>17 DEF t

LEMMA RunLengthBounds ==
    ASSUME NEW s, NEW h \in Nat, Sound(s, h), s.preparedCount >= 1
    PROVE  /\ RunLength(s) \in 1 .. s.preparedCount
           /\ RunLength(s) > 1 =>
                \A i \in 1 .. RunLength(s) : ~s.pending[i].prepared
<1> DEFINE limit == Min({RunLimit, Len(s.pending)})
           S == {n \in 1 .. limit :
                   n = 1 \/ (/\ n <= s.preparedCount
                             /\ \A i \in 1 .. n : JoinsRun(s.pending[i]))}
<1>1. /\ s.preparedCount \in Nat /\ Len(s.pending) \in Nat
      /\ s.preparedCount <= Len(s.pending) /\ RunLimit \in Nat \ {0}
  BY LimitAssumption, LenProperties DEF Sound, Prefix, Queue
<1>2. limit \in Nat /\ limit >= 1
  BY <1>1, MinOfTwo
<1> HIDE DEF limit
<1>3. 1 \in S /\ S \subseteq 0 .. limit
  BY <1>2
<1>4. \A n \in S : /\ n \in 1 .. s.preparedCount
                   /\ n > 1 => \A i \in 1 .. n : ~s.pending[i].prepared
  BY <1>1, <1>2 DEF JoinsRun
<1>5. RunLength(s) = Max(S)
  BY DEF RunLength, limit
<1> HIDE DEF S
<1>6. Max(S) \in S
  BY <1>2, <1>3, MaxExists
<1> QED
  BY <1>4, <1>5, <1>6

\* What is behind the first n elements of a sequence.
LEMMA RestOf ==
    ASSUME NEW T, NEW p \in Seq(T), NEW n \in Nat, NEW m \in Nat,
           1 <= n, n <= m, m <= Len(p)
    PROVE  LET rest == SubSeq(p, n + 1, Len(p))
           IN  /\ rest \in Seq(T) /\ Len(rest) = Len(p) - n
               /\ DOMAIN rest = 1 .. Len(p) - n
               /\ \A i \in DOMAIN rest :
                    n + i \in DOMAIN p /\ rest[i] = p[n + i]
<1> DEFINE rest == SubSeq(p, n + 1, Len(p))
           k == Len(p)
<1>1. k \in Nat /\ DOMAIN p = 1 .. k
  BY LenProperties
<1>2. \A i \in 1 .. k : p[i] \in T
  BY <1>1, ElementOfSeq
<1> HIDE DEF k
<1>9. k \in Nat /\ n <= k
  <2>1. k \in Nat /\ m <= k
    BY <1>1 DEF k
  <2> QED
    BY ONLY <2>1, n \in Nat, m \in Nat, n <= m
<1>3. /\ n + 1 \in Int /\ k \in Int /\ k - n \in Nat /\ k - (n + 1) + 1 = k - n
      /\ (IF n + 1 <= k THEN k - (n + 1) + 1 ELSE 0) = k - n
      /\ \A i \in n + 1 .. k : i \in 1 .. k
  BY <1>9
<1>4. \A i \in 1 .. k - n : n + i \in 1 .. k /\ (n + 1) + i - 1 = n + i
  BY <1>1
<1>5. rest = SubSeq(p, n + 1, k)
  BY DEF k
<1> HIDE DEF rest
<1>6. /\ rest \in Seq(T) /\ Len(rest) = k - n
      /\ \A i \in 1 .. k - n : rest[i] = p[(n + 1) + i - 1]
  BY <1>2, <1>3, <1>5, SubSeqProperties
<1>7. DOMAIN rest = 1 .. k - n
  BY <1>6, LenProperties
<1>8. \A i \in DOMAIN rest : n + i \in DOMAIN p /\ rest[i] = p[n + i]
  BY <1>1, <1>4, <1>6, <1>7
<1> QED
  BY <1>6, <1>7, <1>8 DEF k, rest

LEMMA TakeKeeps ==
    ASSUME NEW s, NEW h \in Nat, Sound(s, h), NEW n \in 1 .. s.preparedCount
    PROVE  LET t == TakeNext(s, n)
               taken == SubSeq(s.pending, 1, n)
           IN  /\ Sound(t, h + n)
               /\ t.preparedCount = s.preparedCount - n
               /\ t.closed = s.closed /\ t.pressured = s.pressured
               /\ t.paused = s.paused /\ t.asked = s.asked
               /\ Len(t.pending) = Len(s.pending) - n
               /\ taken \in Seq(Frame) /\ Len(taken) = n
               /\ DOMAIN taken = 1 .. n
               /\ \A i \in 1 .. n : i \in DOMAIN s.pending
                                     /\ taken[i] = s.pending[i]
               /\ Out(t) = Out(s) \cup Holding(taken)
               /\ \A i \in Holding(taken) : i \notin Out(s)
<1> DEFINE taken == SubSeq(s.pending, 1, n)
           rest == SubSeq(s.pending, n + 1, Len(s.pending))
           count == s.preparedCount
<1>1. /\ s \in Queue /\ count \in Nat /\ count <= Len(s.pending)
      /\ Len(s.pending) \in Nat /\ s.pending \in Seq(Frame)
      /\ DOMAIN s.pending = 1 .. Len(s.pending)
      /\ n \in Nat /\ 1 <= n /\ n <= count
      /\ s.bytes \in Nat /\ ByteLimit \in Nat
  BY LimitAssumption, LenProperties DEF Sound, Prefix, Queue
<1>2. /\ taken \in Seq(Frame) /\ Len(taken) = n /\ DOMAIN taken = 1 .. n
      /\ \A i \in 1 .. n : i \in DOMAIN s.pending /\ taken[i] = s.pending[i]
  BY <1>1, LenProperties
<1>3. /\ rest \in Seq(Frame) /\ Len(rest) = Len(s.pending) - n
      /\ DOMAIN rest = 1 .. Len(s.pending) - n
      /\ \A i \in DOMAIN rest :
           n + i \in DOMAIN s.pending /\ rest[i] = s.pending[n + i]
  BY ONLY <1>1, RestOf DEF rest
<1>4. ~s.closed
  BY <1>1, EmptySeq DEF Sound, Waiting
<1>5. Max({0, count - n}) = count - n
  BY <1>1, MaxOfTwo
<1>6. Bytes(s.pending) = Bytes(taken) + Bytes(rest)
  <2> DEFINE all == s.pending
  <2>1. /\ all \in Seq(Frame) /\ n \in 0 .. Len(all)
        /\ \A i \in DOMAIN all : all[i].id = h + i
    BY <1>1 DEF Sound, Waiting
  <2> HIDE DEF all
  <2>2. Bytes(all) = Bytes(SubSeq(all, 1, n))
                      + Bytes(SubSeq(all, n + 1, Len(all)))
    BY <2>1, BytesOfParts
  <2> QED
    BY <2>2 DEF all
<1> DEFINE bytes == s.bytes - Bytes(taken)
<1>7. bytes = Bytes(rest) /\ bytes \in Nat /\ bytes <= ByteLimit
  <2>1. Bytes(taken) \in Nat /\ Bytes(rest) \in Nat
    BY <1>2, <1>3, UnitsFinite
  <2>2. s.bytes = Bytes(s.pending) /\ s.bytes <= ByteLimit
    BY DEF Sound, Waiting
  <2> HIDE DEF taken, rest
  <2> QED
    BY <1>1, <1>6, <2>1, <2>2
<1>8. TakeNext(s, n) = [s EXCEPT !.pending = rest, !.preparedCount = count - n,
                                 !.bytes = bytes]
  BY <1>5 DEF TakeNext
<1> HIDE DEF taken, rest, bytes
<1> DEFINE t == TakeNext(s, n)
<1>9. t = [pending |-> rest, bytes |-> bytes, closed |-> s.closed,
           pressured |-> s.pressured, paused |-> s.paused,
           reserve |-> s.reserve, frames |-> s.frames,
           preparedCount |-> count - n,
           handlingRunnerWide |-> s.handlingRunnerWide, asked |-> s.asked]
  BY <1>1, <1>8 DEF Queue
<1>10. t \in Queue
  BY <1>1, <1>3, <1>7, <1>9 DEF Queue
<1>11. /\ t.pending = rest /\ t.bytes = bytes /\ t.closed = s.closed
       /\ t.pressured = s.pressured /\ t.paused = s.paused
       /\ t.reserve = s.reserve /\ t.frames = s.frames
       /\ t.preparedCount = count - n /\ t.asked = s.asked
  BY <1>9
<1> HIDE DEF t
<1>12. Waiting(t, h + n)
  <2>1. ASSUME NEW i \in DOMAIN rest PROVE rest[i].id = (h + n) + i
    <3>1. rest[i].id = h + (n + i)
      BY <1>3 DEF Sound, Waiting
    <3> QED
      BY <1>1, <1>3, <3>1
  <2> QED
    BY <1>4, <1>7, <1>11, <2>1 DEF Waiting
<1>13. Prefix(t)
  <2>1. ASSUME NEW i \in 1 .. count - n, NEW j \in 1 .. i - 1
        PROVE  rest[j].kind \notin Wide
    <3>1. /\ j \in DOMAIN rest /\ n + i \in 1 .. count
          /\ n + j \in 1 .. (n + i) - 1
      BY <1>1, <1>3
    <3>2. s.pending[n + j].kind \notin Wide
      BY <3>1 DEF Sound, Prefix
    <3> QED
      BY <1>3, <3>1, <3>2
  <2>2. ASSUME NEW i \in DOMAIN rest
        PROVE  rest[i].prepared <=> i <= count - n /\ rest[i].kind \in Stages
    <3>1. s.pending[n + i].prepared
            <=> n + i <= count /\ s.pending[n + i].kind \in Stages
      BY <1>3 DEF Sound, Prefix
    <3> QED
      BY <1>1, <1>3, <3>1
  <2> QED
    BY <1>1, <1>3, <1>11, <2>1, <2>2 DEF Prefix
<1>14. Asked(t, h + n)
  <2>1. ASSUME NEW i \in 1 .. count - n
        PROVE  s.asked[(h + n) + i].value <=> rest[i].kind \in Stages
    <3>3. i \in Nat /\ n + i \in 1 .. count
      BY <1>1
    <3>4. i \in DOMAIN rest
      BY <1>1, <1>3
    <3>1. n + i \in 1 .. count /\ h + (n + i) = (h + n) + i
          /\ i \in DOMAIN rest
      BY <1>1, <3>3, <3>4
    <3>2. s.asked[h + (n + i)].value <=> s.pending[n + i].kind \in Stages
      BY <3>1 DEF Sound, Asked
    <3> QED
      BY <1>3, <3>1, <3>2
  <2>2. Len(s.asked) = (h + n) + (count - n)
    BY <1>1, <1>4 DEF Sound, Asked
  <2> QED
    BY <1>11, <2>1, <2>2 DEF Sound, Asked
<1>15. Sound(t, h + n)
  BY <1>10, <1>11, <1>12, <1>13, <1>14 DEF Sound
<1>16. \A i \in Holding(taken) : i \in Holding(s.pending)
  BY <1>2, HoldingOf
<1>17. \A i \in Holding(taken) : i \notin Out(s)
  BY <1>16 DEF Out
<1>18. ASSUME NEW i \in Out(s) PROVE i \in Out(t)
  <2>1. i \in DOMAIN s.asked /\ s.asked[i].value /\ i \notin Holding(s.pending)
    BY <1>18 DEF Out
  <2>2. i \notin Holding(rest)
    BY <1>3, <2>1, HoldingOf
  <2> QED
    BY <1>11, <2>1, <2>2 DEF Out
<1>19. ASSUME NEW i \in Holding(taken) PROVE i \in Out(t)
  <2>1. PICK k \in 1 .. n : taken[k].prepared /\ taken[k].id = i
    BY <1>2, <1>19, HoldingOf
  <2>2. /\ k \in DOMAIN s.pending /\ s.pending[k].prepared
        /\ s.pending[k].id = i /\ k \in 1 .. count
    BY <1>1, <1>2, <2>1
  <2>3. i = h + k /\ s.pending[k].kind \in Stages
    BY <2>2 DEF Sound, Waiting, Prefix
  <2>4. s.asked[i].value
    BY <2>2, <2>3 DEF Sound, Asked
  <2>5. i \in DOMAIN s.asked
    <3>1. Len(s.asked) = h + count /\ DOMAIN s.asked = 1 .. Len(s.asked)
      BY <1>1, <1>4, LenProperties DEF Sound, Asked, Queue
    <3> QED
      BY <1>1, <2>1, <2>2, <2>3, <3>1
  <2>6. i \notin Holding(rest)
    <3>1. SUFFICES ASSUME NEW m \in DOMAIN rest, rest[m].id = i PROVE FALSE
      BY HoldingOf
    <3>2. i = (h + n) + m
      BY <1>11, <1>12, <3>1 DEF Waiting
    <3> QED
      BY <1>1, <1>3, <2>1, <2>3, <3>2
  <2> QED
    BY <1>11, <2>4, <2>5, <2>6 DEF Out
<1>20. ASSUME NEW i \in Out(t), i \notin Holding(taken) PROVE i \in Out(s)
  <2>1. i \in DOMAIN s.asked /\ s.asked[i].value /\ i \notin Holding(rest)
    BY <1>11, <1>20 DEF Out
  <2>2. i \notin Holding(s.pending)
    <3>1. SUFFICES ASSUME NEW k \in DOMAIN s.pending,
                          s.pending[k].prepared, s.pending[k].id = i
                   PROVE  FALSE
      BY HoldingOf
    <3>2. CASE k <= n
      <4>1. k \in DOMAIN taken /\ taken[k] = s.pending[k]
        BY <1>1, <1>2, <3>2
      <4> QED
        BY <1>20, <3>1, <4>1, HoldingOf
    <3>3. CASE ~(k <= n)
      <4>1. k - n \in DOMAIN rest /\ n + (k - n) = k
        BY <1>1, <1>3, <3>3
      <4>2. rest[k - n] = s.pending[k]
        BY <1>3, <4>1
      <4> QED
        BY <2>1, <3>1, <4>1, <4>2, HoldingOf
    <3> QED
      BY <3>2, <3>3
  <2> QED
    BY <2>1, <2>2 DEF Out
<1>21. Out(t) = Out(s) \cup Holding(taken)
  BY <1>18, <1>19, <1>20
<1> QED
  BY <1>2, <1>3, <1>11, <1>15, <1>17, <1>21 DEF t, taken

LEMMA DropKeeps ==
    ASSUME NEW s, NEW h \in Nat, Sound(s, h),
           NEW sk \in {"open", "closing", "terminated", "closed"}
    PROVE  LET t == Dropped(s, sk)
           IN  /\ Sound(t, h) /\ Relieved(t)
               /\ Heard(s, sk) => Heard(t, sk)
               /\ t.closed /\ t.pending = <<>> /\ t.preparedCount = 0
               /\ t.asked = s.asked
               /\ t.handlingRunnerWide = s.handlingRunnerWide
               /\ Out(t) = Out(s) \cup Holding(s.pending)
<1> DEFINE u == [s EXCEPT !.closed = TRUE, !.pending = <<>>,
                          !.preparedCount = 0, !.bytes = 0]
           t == Dropped(s, sk)
<1>0. s \in Queue
  BY DEF Sound
<1>1. s \in Queue /\ ByteLimit \in Nat /\ <<>> \in Seq(Frame)
      /\ Len(<<>>) = 0 /\ DOMAIN <<>> = {}
  BY LimitAssumption DEF Sound
<1>3. u \in Queue
  BY <1>0, <1>1 DEF Queue
<1>4. /\ u.pending = <<>> /\ u.bytes = 0 /\ u.closed = TRUE
      /\ u.pressured = s.pressured /\ u.paused = s.paused
      /\ u.reserve = s.reserve /\ u.frames = s.frames
      /\ u.preparedCount = 0 /\ u.asked = s.asked
      /\ u.handlingRunnerWide = s.handlingRunnerWide
  BY <1>0 DEF Queue
<1>5. t = UpdatePressure(u, sk)
  BY DEF Dropped
<1> HIDE DEF u, t
<1>6. Sound(u, h)
  <2>1. Waiting(u, h)
    BY <1>1, <1>4, NoBytes DEF Waiting
  <2>2. Prefix(u)
    BY <1>1, <1>4 DEF Prefix
  <2>3. Asked(u, h)
    BY <1>4 DEF Sound, Asked
  <2> QED
    BY <1>3, <1>4, <2>1, <2>2, <2>3 DEF Sound
<1>7. /\ Sound(t, h) /\ Relieved(t)
      /\ Heard(u, sk) => Heard(t, sk)
  BY <1>5, <1>6, UpdateKeeps
<1>8. /\ t.pending = <<>> /\ t.closed /\ t.preparedCount = 0
      /\ t.asked = s.asked
      /\ t.handlingRunnerWide = s.handlingRunnerWide
  BY <1>3, <1>4, <1>5, UpdateFields
<1>9. Heard(s, sk) => Heard(u, sk)
  BY <1>4 DEF Heard
<1>10. Out(t) = Out(s) \cup Holding(s.pending)
  <2>1. \A i : i \notin Holding(<<>>)
    BY <1>1, HoldingOf
  <2>2. \A i : i \in Out(t) <=> i \in DOMAIN s.asked /\ s.asked[i].value
    BY <1>8, <2>1 DEF Out
  <2>3. ASSUME NEW i \in Holding(s.pending)
        PROVE  i \in DOMAIN s.asked /\ s.asked[i].value
    <3>1. PICK k \in DOMAIN s.pending :
            s.pending[k].prepared /\ s.pending[k].id = i
      BY <2>3, HoldingOf
    <3>2. i = h + k /\ k <= s.preparedCount /\ s.pending[k].kind \in Stages
      BY <3>1 DEF Sound, Waiting, Prefix
    <3>3. DOMAIN s.pending = 1 .. Len(s.pending) /\ Len(s.pending) \in Nat
          /\ DOMAIN s.asked = 1 .. Len(s.asked) /\ s.preparedCount \in Nat
      BY <1>1, LenProperties DEF Queue
    <3>4. ~s.closed
      BY <1>1, <3>1 DEF Sound, Waiting
    <3>5. Len(s.asked) = h + s.preparedCount
      BY <3>4 DEF Sound, Asked
    <3>6. k \in 1 .. s.preparedCount /\ i \in DOMAIN s.asked
      BY <3>2, <3>3, <3>5
    <3> QED
      BY <3>2, <3>6 DEF Sound, Asked
  <2> QED
    BY <2>2, <2>3 DEF Out
<1> QED
  BY <1>7, <1>8, <1>9, <1>10 DEF t

LEMMA MarkKeeps ==
    ASSUME NEW s, NEW h \in Nat, Sound(s, h), NEW wide \in BOOLEAN
    PROVE  LET t == [s EXCEPT !.handlingRunnerWide = wide]
           IN  /\ Sound(t, h) /\ Alike(s, t) /\ Out(t) = Out(s)
               /\ t.handlingRunnerWide = wide
               /\ t.pending = s.pending /\ t.asked = s.asked
               /\ t.preparedCount = s.preparedCount
<1> DEFINE t == [s EXCEPT !.handlingRunnerWide = wide]
<1>1. s \in Queue
  BY DEF Sound
<1>2. t \in Queue
  BY <1>1 DEF Queue
<1>3. /\ t.pending = s.pending /\ t.bytes = s.bytes
      /\ t.closed = s.closed /\ t.pressured = s.pressured
      /\ t.paused = s.paused /\ t.reserve = s.reserve
      /\ t.frames = s.frames /\ t.preparedCount = s.preparedCount
      /\ t.asked = s.asked
  BY <1>1 DEF Queue
<1>4. t.handlingRunnerWide = wide
  BY <1>1 DEF Queue
<1> HIDE DEF t
<1>5. Sound(t, h)
  BY <1>2, <1>3 DEF Sound, Waiting, Prefix, Asked
<1> QED
  BY <1>3, <1>4, <1>5 DEF Alike, Out, t

-----------------------------------------------------------------------------
(* The loop around the queue.                                              *)

Sockets == {"open", "closing", "terminated", "closed"}

Typed ==
    /\ run \in Seq(Frame) /\ attached \in BOOLEAN
    /\ drain \in {"idle", "handling", "yielding", "flushing"}
    /\ sock \in Sockets
    /\ accepted \in 0 .. MaxFrames
    /\ handled \in Seq(FrameId) /\ discarded \in [FrameId -> Nat]

\* Frames were handled in order, and what is missing was dropped.
Ordered ==
    /\ \A i \in DOMAIN handled : handled[i] = i
    /\ Len(handled) + Len(q.pending) <= accepted
    /\ q.closed \/ Len(handled) + Len(q.pending) = accepted

Queued ==
    /\ Sound(q, Len(handled)) /\ Relieved(q) /\ Heard(q, sock)
    /\ q.pending # <<>> => drain # "idle"

\* The frames in hand: their values have left the queue, and one about the
\* runner keeps anything from being prepared.
InHandling ==
    /\ drain = "handling" <=> run # <<>>
    /\ drain # "handling" => ~q.handlingRunnerWide
    /\ Holding(run) \subseteq Out(q)
    /\ Len(run) > 1 => Holding(run) = {}
    /\ \A i \in DOMAIN run : run[i].kind \in Wide =>
          i = Len(run) /\ q.handlingRunnerWide /\ q.preparedCount = 0

Released ==
    \A i \in FrameId :
        discarded[i] = IF i \in Out(q) /\ i \notin Holding(run) THEN 1 ELSE 0

\* Inductive.
IInv == Typed /\ Ordered /\ Queued /\ InHandling /\ Released

LEMMA BeginRunKeeps ==
    ASSUME NEW s, Typed, Sound(s, Len(handled)), Heard(s, sock),
           \A i \in DOMAIN handled : handled[i] = i,
           s.pending # <<>>, ~s.handlingRunnerWide,
           \A i \in FrameId : discarded[i] = IF i \in Out(s) THEN 1 ELSE 0,
           BeginRun(s), UNCHANGED <<sock, discarded>>
    PROVE  /\ run' \in Seq(Frame) /\ drain' = "handling"
           /\ handled' \in Seq(FrameId)
           /\ \A i \in DOMAIN handled' : handled'[i] = i
           /\ Len(handled') + Len(q'.pending) = Len(handled) + Len(s.pending)
           /\ q'.closed = s.closed
           /\ Queued' /\ InHandling' /\ Released'
<1> DEFINE h == Len(handled)
           ready == PrepareAhead(s)
           n == RunLength(ready)
           taken == SubSeq(ready.pending, 1, n)
           rest == TakeNext(ready, n)
           left == UpdatePressure(rest, sock)
           some == AnyWide(taken)
           wide == [left EXCEPT !.handlingRunnerWide = some]
<1>1. /\ run' = taken /\ handled' = handled \o Ids(taken)
      /\ drain' = "handling" /\ q' = PrepareAhead(wide)
  <2>1. PICK a \in {PrepareAhead(s)} :
          \E m \in {RunLength(a)} :
          \E b \in {SubSeq(a.pending, 1, m)} : \E d \in {TakeNext(a, m)} :
          \E c \in {UpdatePressure(d, sock)} :
          \E w \in {[c EXCEPT !.handlingRunnerWide = AnyWide(b)]} :
            /\ run' = b /\ handled' = handled \o Ids(b)
            /\ drain' = "handling"
            /\ q' = PrepareAhead(w)
    BY Zenon DEF BeginRun
  <2>2. a = ready
    OBVIOUS
  <2> HIDE DEF ready
  <2>3. PICK m \in {RunLength(ready)} :
          \E b \in {SubSeq(ready.pending, 1, m)} :
          \E d \in {TakeNext(ready, m)} :
          \E c \in {UpdatePressure(d, sock)} :
          \E w \in {[c EXCEPT !.handlingRunnerWide = AnyWide(b)]} :
            /\ run' = b /\ handled' = handled \o Ids(b)
            /\ drain' = "handling"
            /\ q' = PrepareAhead(w)
    BY <2>1, <2>2
  <2>4. m = n
    OBVIOUS
  <2> HIDE DEF n
  <2>5. PICK b \in {taken} :
          \E d \in {rest} : \E c \in {UpdatePressure(d, sock)} :
          \E w \in {[c EXCEPT !.handlingRunnerWide = AnyWide(b)]} :
            /\ run' = b /\ handled' = handled \o Ids(b)
            /\ drain' = "handling"
            /\ q' = PrepareAhead(w)
    BY <2>3, <2>4
  <2>6. b = taken
    OBVIOUS
  <2> HIDE DEF taken
  <2>7. PICK d \in {rest} : \E c \in {UpdatePressure(d, sock)} :
          \E w \in {[c EXCEPT !.handlingRunnerWide = some]} :
            /\ run' = taken /\ handled' = handled \o Ids(taken)
            /\ drain' = "handling"
            /\ q' = PrepareAhead(w)
    BY <2>5, <2>6
  <2>8. d = rest
    OBVIOUS
  <2> HIDE DEF rest
  <2>9. PICK c \in {left} :
          \E w \in {[c EXCEPT !.handlingRunnerWide = some]} :
            /\ run' = taken /\ handled' = handled \o Ids(taken)
            /\ drain' = "handling"
            /\ q' = PrepareAhead(w)
    BY <2>7, <2>8
  <2>10. c = left
    OBVIOUS
  <2> HIDE DEF left
  <2> QED
    BY <2>9, <2>10
<1>2. h \in Nat /\ DOMAIN handled = 1 .. h /\ handled \in Seq(FrameId)
      /\ sock \in Sockets
  BY LenProperties DEF Typed
<1>3. /\ Sound(ready, h) /\ Alike(s, ready) /\ Out(ready) = Out(s)
      /\ ready.preparedCount >= 1
  BY <1>2, PrepareAheadKeeps
<1>4. Heard(ready, sock) /\ Len(ready.pending) = Len(s.pending)
      /\ ready.closed = s.closed
  BY <1>3, AlikeKeeps DEF Sound, Alike
<1> HIDE DEF ready
<1>5. /\ n \in 1 .. ready.preparedCount
      /\ n > 1 => \A i \in 1 .. n : ~ready.pending[i].prepared
  BY <1>2, <1>3, RunLengthBounds
<1> HIDE DEF n
<1>6. /\ Sound(rest, h + n)
      /\ rest.preparedCount = ready.preparedCount - n
      /\ rest.closed = ready.closed /\ rest.pressured = ready.pressured
      /\ rest.paused = ready.paused /\ rest.asked = ready.asked
      /\ Len(rest.pending) = Len(ready.pending) - n
      /\ Out(rest) = Out(ready) \cup Holding(taken)
      /\ \A i \in Holding(taken) : i \notin Out(ready)
  <2>1. h \in Nat /\ Sound(ready, h) /\ n \in 1 .. ready.preparedCount
    BY <1>2, <1>3, <1>5
  <2> HIDE DEF h
  <2>2. /\ Sound(rest, h + n)
        /\ rest.preparedCount = ready.preparedCount - n
        /\ rest.closed = ready.closed /\ rest.pressured = ready.pressured
        /\ rest.paused = ready.paused /\ rest.asked = ready.asked
        /\ Len(rest.pending) = Len(ready.pending) - n
    BY ONLY <2>1, TakeKeeps
  <2>3. /\ Out(rest) = Out(ready) \cup Holding(taken)
        /\ \A i \in Holding(taken) : i \notin Out(ready)
    BY ONLY <2>1, TakeKeeps
  <2> QED
    BY <2>2, <2>3 DEF h
<1>7. /\ taken \in Seq(Frame) /\ Len(taken) = n /\ DOMAIN taken = 1 .. n
      /\ \A i \in 1 .. n : i \in DOMAIN ready.pending
                            /\ taken[i] = ready.pending[i]
  BY <1>2, <1>3, <1>5, TakeKeeps
<1>8. n \in Nat /\ 1 <= n /\ h + n \in Nat
      /\ ready.preparedCount \in Nat /\ Len(ready.pending) \in Nat
  BY <1>2, <1>3, <1>5, LenProperties DEF Sound, Queue
<1> HIDE DEF taken, rest
<1>9. rest \in Queue /\ Heard(rest, sock)
  BY <1>4, <1>6 DEF Sound, Heard
<1>10. /\ Sound(left, h + n) /\ Relieved(left) /\ Heard(left, sock)
       /\ left.pending = rest.pending /\ left.closed = rest.closed
       /\ left.preparedCount = rest.preparedCount
       /\ Out(left) = Out(rest)
  BY <1>2, <1>6, <1>8, <1>9, UpdateKeeps, UpdateFields, UpdateOut DEF Sockets
<1> HIDE DEF left
<1>11. some \in BOOLEAN
  BY DEF AnyWide
<1> HIDE DEF some
<1>12. /\ Sound(wide, h + n) /\ Alike(left, wide)
       /\ Out(wide) = Out(left) /\ wide.handlingRunnerWide = some
       /\ wide.pending = left.pending
       /\ wide.preparedCount = left.preparedCount
  BY <1>8, <1>10, <1>11, MarkKeeps
<1> HIDE DEF wide
<1>13. Relieved(wide) /\ Heard(wide, sock)
  BY <1>10, <1>12, AlikeKeeps DEF Sound
<1>14. /\ Sound(q', h + n) /\ Alike(wide, q') /\ Out(q') = Out(wide)
       /\ q'.handlingRunnerWide = some
       /\ some => q'.preparedCount = wide.preparedCount
  BY <1>1, <1>8, <1>12, PrepareAheadKeeps
<1>15. Relieved(q') /\ Heard(q', sock)
  BY <1>12, <1>13, <1>14, AlikeKeeps DEF Sound
<1>16. /\ handled' \in Seq(FrameId) /\ Len(handled') = h + n
       /\ \A i \in DOMAIN handled' : handled'[i] = i
  <2> DEFINE ids == Ids(taken)
  <2>1. /\ ids \in [1 .. n -> FrameId]
        /\ \A i \in 1 .. n : ids[i] = h + i
    <3>1. ASSUME NEW i \in 1 .. n
          PROVE  taken[i].id \in FrameId /\ taken[i].id = h + i
      <4>1. taken[i].id = h + i
        BY <1>3, <1>7 DEF Sound, Waiting
      <4>2. taken[i] \in Frame
        BY <1>7, ElementOfSeq
      <4> QED
        BY <4>1, <4>2 DEF Frame
    <3> QED
      BY <1>7, <3>1 DEF Ids
  <2>2. handled' = handled \o ids
    BY <1>1
  <2> HIDE DEF ids
  <2>3. ids \in Seq(FrameId) /\ Len(ids) = n
    BY <1>8, <2>1, FunctionIsSeq
  <2>4. /\ handled' \in Seq(FrameId) /\ Len(handled') = h + n
        /\ \A i \in 1 .. h : handled'[i] = handled[i]
        /\ \A i \in 1 .. n : handled'[h + i] = ids[i]
    <3>1. handled \in Seq(FrameId) /\ ids \in Seq(FrameId)
      BY <1>2, <2>3
    <3>2. /\ handled \o ids \in Seq(FrameId)
          /\ Len(handled \o ids) = Len(handled) + Len(ids)
          /\ \A i \in 1 .. Len(handled) : (handled \o ids)[i] = handled[i]
          /\ \A i \in 1 .. Len(ids) :
               (handled \o ids)[Len(handled) + i] = ids[i]
      BY <3>1, ConcatParts
    <3> QED
      BY <2>2, <2>3, <3>2
  <2>5. DOMAIN handled' = 1 .. h + n
    BY <2>4, LenProperties
  <2>6. ASSUME NEW i \in DOMAIN handled' PROVE handled'[i] = i
    <3>1. CASE i <= h
      BY <1>2, <2>4, <2>5, <3>1
    <3>2. CASE ~(i <= h)
      <4>1. i - h \in 1 .. n /\ h + (i - h) = i
        BY <1>2, <1>8, <2>5, <3>2
      <4> QED
        BY <2>1, <2>4, <4>1
    <3> QED
      BY <3>1, <3>2
  <2> QED
    BY <2>4, <2>6
<1>17. Queued'
  BY <1>1, <1>14, <1>15, <1>16 DEF Queued
<1>18. /\ q'.closed = s.closed
       /\ Len(q'.pending) = Len(ready.pending) - n
  BY <1>4, <1>6, <1>10, <1>12, <1>14 DEF Alike
<1>19. Len(handled') + Len(q'.pending) = h + Len(s.pending)
  BY <1>2, <1>4, <1>8, <1>16, <1>18
<1>20. Out(q') = Out(s) \cup Holding(run')
  BY <1>1, <1>3, <1>6, <1>10, <1>12, <1>14
<1>21. \A i \in Holding(run') : i \notin Out(s)
  BY <1>1, <1>3, <1>6
<1>22. Released'
  <2>1. ASSUME NEW i \in FrameId
        PROVE  i \in Out(q') /\ i \notin Holding(run') <=> i \in Out(s)
    BY <1>20, <1>21
  <2> QED
    BY <2>1 DEF Released
<1>23. run' \in Seq(Frame) /\ Len(run') = n /\ DOMAIN run' = 1 .. n
       /\ \A i \in 1 .. n : run'[i] = ready.pending[i]
  BY <1>1, <1>7
<1>24. InHandling'
  <2>1. run' # <<>>
    BY <1>8, <1>23, EmptySeq
  <2>2. Len(run') > 1 => Holding(run') = {}
    <3>1. SUFFICES ASSUME n > 1, NEW i \in DOMAIN run', run'[i].prepared
                   PROVE  FALSE
      BY <1>23, HoldingOf
    <3> QED
      BY <1>5, <1>23, <3>1
  <2>3. ASSUME NEW i \in DOMAIN run', run'[i].kind \in Wide
        PROVE  /\ i = Len(run') /\ q'.handlingRunnerWide
               /\ q'.preparedCount = 0
    <3>1. ready.pending[i].kind \in Wide /\ i \in 1 .. n
      BY <1>23, <2>3
    <3>2. i = n
      <4>1. SUFFICES ASSUME i # n PROVE FALSE
        OBVIOUS
      <4>2. i \in 1 .. n - 1
        BY <1>8, <3>1, <4>1
      <4> QED
        BY <1>3, <1>5, <3>1, <4>2 DEF Sound, Prefix
    <3>3. ready.preparedCount = n
      <4>1. SUFFICES ASSUME ready.preparedCount # n PROVE FALSE
        OBVIOUS
      <4>2. /\ ready.preparedCount \in 1 .. ready.preparedCount
            /\ n \in 1 .. ready.preparedCount - 1
        BY <1>5, <1>8, <4>1
      <4> QED
        BY <1>3, <3>1, <3>2, <4>2 DEF Sound, Prefix
    <3>4. some
      <4>1. i \in DOMAIN taken /\ taken[i].kind \in Wide
        BY <1>1, <1>7, <3>1
      <4> QED
        BY <4>1 DEF some, AnyWide
    <3>5. q'.preparedCount = 0
      BY <1>6, <1>8, <1>10, <1>12, <1>14, <3>3, <3>4
    <3> QED
      BY <1>14, <1>23, <3>2, <3>4, <3>5
  <2>4. Holding(run') \subseteq Out(q')
    BY <1>20
  <2> QED
    BY <1>1, <2>1, <2>2, <2>3, <2>4 DEF InHandling
<1> QED
  BY <1>1, <1>16, <1>17, <1>18, <1>19, <1>22, <1>23, <1>24

-----------------------------------------------------------------------------
(* The steps of the route and the loop.                                    *)

LEMMA HoldingNothing == Holding(<<>>) = {}
<1>1. DOMAIN <<>> = {}
  OBVIOUS
<1>2. \A x : x \notin Holding(<<>>)
  BY <1>1, HoldingOf
<1> QED
  BY <1>2

\* Whatever values the frames in hand carry are released at the end.
LEMMA InHandIs ==
    ASSUME Typed, InHandling
    PROVE  InHand = Holding(run)
<1>1. Len(run) \in Nat
  BY LenProperties DEF Typed
<1>2. CASE Len(run) = 0
  <2>1. run = <<>>
    BY <1>2, EmptySeq DEF Typed
  <2> QED
    BY <1>2, <2>1, HoldingNothing DEF InHand
<1>3. CASE Len(run) = 1
  BY <1>3 DEF InHand
<1>4. CASE Len(run) > 1
  <2> DEFINE len == Len(run)
  <2>1. Len(run) # 1
    <3>1. len > 1 /\ len \in Nat
      BY <1>1, <1>4
    <3> HIDE DEF len
    <3>2. len # 1
      BY <3>1
    <3> QED
      BY <3>2 DEF len
  <2>2. InHand = {}
    BY <2>1 DEF InHand
  <2>3. Holding(run) = {}
    BY <1>4 DEF InHandling
  <2> QED
    BY <2>2, <2>3
<1> DEFINE len == Len(run)
<1>5. len \in Nat /\ (len = 0 => InHand = Holding(run))
      /\ (len = 1 => InHand = Holding(run))
      /\ (len > 1 => InHand = Holding(run))
  BY <1>1, <1>2, <1>3, <1>4
<1> HIDE DEF len
<1> QED
  BY <1>5

\* All that is prepared is in the prefix that close() walks.
LEMMA PrefixHolds ==
    ASSUME NEW s, NEW h \in Nat, Sound(s, h)
    PROVE  Holding(SubSeq(s.pending, 1, s.preparedCount)) = Holding(s.pending)
<1> DEFINE first == SubSeq(s.pending, 1, s.preparedCount)
<1>1. /\ s.pending \in Seq(Frame) /\ s.preparedCount \in Nat
      /\ s.preparedCount <= Len(s.pending) /\ Len(s.pending) \in Nat
      /\ DOMAIN s.pending = 1 .. Len(s.pending)
  BY LenProperties DEF Sound, Queue, Prefix
<1>2. /\ DOMAIN first = 1 .. s.preparedCount
      /\ \A i \in 1 .. s.preparedCount : first[i] = s.pending[i]
  <2> DEFINE pending == s.pending
             count == s.preparedCount
  <2>1. /\ pending \in Seq(Frame) /\ count \in Nat /\ count <= Len(pending)
        /\ Len(pending) \in Nat
    BY <1>1
  <2> HIDE DEF pending, count
  <2>2. /\ SubSeq(pending, 1, count) = [i \in 1 .. count |-> pending[i]]
    BY <2>1, SubSeqProperties
  <2> QED
    BY <2>2 DEF pending, count
<1> HIDE DEF first
<1>3. \A i \in DOMAIN s.pending : s.pending[i].prepared => i <= s.preparedCount
  BY DEF Sound, Prefix
<1>4. \A x : x \in Holding(first) <=> x \in Holding(s.pending)
  <2>1. ASSUME NEW x \in Holding(first) PROVE x \in Holding(s.pending)
    <3>1. PICK i \in DOMAIN first : first[i].prepared /\ first[i].id = x
      BY HoldingOf, <2>1
    <3>2. i \in DOMAIN s.pending /\ s.pending[i] = first[i]
      BY <1>1, <1>2, <3>1
    <3> QED
      BY <3>1, <3>2, HoldingOf
  <2>2. ASSUME NEW x \in Holding(s.pending) PROVE x \in Holding(first)
    <3>1. PICK i \in DOMAIN s.pending : s.pending[i].prepared /\ s.pending[i].id = x
      BY HoldingOf, <2>2
    <3>2. i \in DOMAIN first /\ s.pending[i] = first[i]
      BY <1>1, <1>2, <1>3, <3>1
    <3> QED
      BY <3>1, <3>2, HoldingOf
  <2> QED
    BY <2>1, <2>2
<1> QED
  BY <1>4 DEF first

LEMMA CloseKeeps ==
    ASSUME NEW s, NEW sk \in Sockets, NEW also,
           Typed, Sound(s, Len(handled)), Heard(s, sk),
           also \subseteq Holding(run), Holding(run) \subseteq Out(s),
           \A i \in FrameId : discarded[i] =
               IF i \in Out(s) /\ i \notin Holding(run) THEN 1 ELSE 0,
           Close(s, sk, also)
    PROVE  /\ Sound(q', Len(handled)) /\ Relieved(q') /\ Heard(q', sk)
           /\ q'.closed /\ q'.pending = <<>> /\ q'.preparedCount = 0
           /\ q'.handlingRunnerWide = s.handlingRunnerWide
           /\ Out(s) \subseteq Out(q')
           /\ discarded' \in [FrameId -> Nat]
           /\ \A i \in FrameId : discarded'[i] =
               IF i \in Out(q') /\ (i \notin Holding(run) \/ i \in also)
               THEN 1 ELSE 0
<1> DEFINE ids == Holding(s.pending) \cup also
<1>1. Len(handled) \in Nat
  BY LenProperties DEF Typed
<1>2. q' = Dropped(s, sk)
  BY DEF Close
<1>3. /\ Sound(q', Len(handled)) /\ Relieved(q') /\ Heard(q', sk)
      /\ q'.closed /\ q'.pending = <<>> /\ q'.preparedCount = 0
      /\ q'.handlingRunnerWide = s.handlingRunnerWide
      /\ Out(q') = Out(s) \cup Holding(s.pending)
  BY <1>1, <1>2, DropKeeps DEF Sockets
<1>4. discarded' = [i \in FrameId |-> discarded[i] + IF i \in ids THEN 1 ELSE 0]
  BY <1>1, PrefixHolds DEF Close, Discard
<1>5. \A i \in Out(s) : i \notin Holding(s.pending)
  BY DEF Out
<1> HIDE DEF ids
<1>6. ASSUME NEW i \in FrameId
      PROVE  /\ discarded'[i] \in Nat
             /\ discarded'[i] =
                 IF i \in Out(q') /\ (i \notin Holding(run) \/ i \in also)
                 THEN 1 ELSE 0
  <2>1. discarded'[i] = discarded[i] + IF i \in ids THEN 1 ELSE 0
    BY <1>4
  <2>2. i \in ids <=> i \in Holding(s.pending) \/ i \in also
    BY DEF ids
  <2>3. discarded[i] = IF i \in Out(s) /\ i \notin Holding(run) THEN 1 ELSE 0
    OBVIOUS
  <2>4. CASE i \in Out(s) /\ i \notin Holding(run)
    BY <1>3, <1>5, <2>1, <2>2, <2>3, <2>4
  <2>5. CASE i \in Holding(run)
    BY <1>3, <1>5, <2>1, <2>2, <2>3, <2>5
  <2>6. CASE i \notin Out(s)
    BY <1>3, <2>1, <2>2, <2>3, <2>6
  <2> QED
    BY <2>4, <2>5, <2>6
<1>7. discarded' \in [FrameId -> Nat]
  BY <1>4, <1>6
<1> QED
  BY <1>3, <1>6, <1>7

LEMMA Counts ==
    ASSUME Typed
    PROVE  /\ Len(handled) \in Nat /\ accepted \in Nat /\ MaxFrames \in Nat
           /\ sock \in Sockets
           /\ \A s \in Queue : Len(s.pending) \in Nat
                               /\ (s.pending = <<>> <=> Len(s.pending) = 0)
BY LimitAssumption, LenProperties, EmptySeq DEF Typed, Queue

LEMMA InitHolds == ASSUME Init PROVE IInv
<1>1. /\ FrameLimit \in Nat /\ FrameLimit >= 1 /\ ByteLimit \in Nat /\ MaxFrames \in Nat
      /\ ByteLimit >= 1
  BY LimitAssumption
<1>2. /\ \A S : <<>> \in Seq(S)
      /\ Len(<<>>) = 0 /\ DOMAIN <<>> = {}
  OBVIOUS
<1>3. q \in Queue
  BY <1>1, <1>2 DEF Init, Queue
<1>4. /\ q.pending = <<>> /\ q.bytes = 0 /\ q.closed = FALSE
      /\ q.pressured = FALSE /\ q.paused = FALSE /\ q.reserve = 0
      /\ q.frames = FrameLimit /\ q.preparedCount = 0
      /\ q.handlingRunnerWide = FALSE /\ q.asked = <<>>
  BY DEF Init
<1>5. Len(handled) = 0 /\ handled = <<>> /\ run = <<>>
  BY <1>2 DEF Init
<1>6. Sound(q, Len(handled))
  <2>1. Waiting(q, 0)
    BY <1>1, <1>2, <1>4, NoBytes DEF Waiting
  <2>2. Prefix(q)
    BY <1>2, <1>4 DEF Prefix
  <2>3. Asked(q, 0)
    BY <1>2, <1>4 DEF Asked
  <2> QED
    <3>1. q.frames >= q.reserve + FrameLimit
      BY <1>1, <1>4
    <3> QED
      BY <1>3, <1>5, <2>1, <2>2, <2>3, <3>1 DEF Sound
<1>7. Relieved(q) /\ Heard(q, sock)
  <2>1. Len(q.pending) < q.frames /\ 4 * q.bytes < ByteLimit
    <3>1. Len(q.pending) = 0
      BY <1>2, <1>4
    <3> QED
      BY <1>1, <1>4, <3>1
  <2> QED
    BY <1>4, <2>1 DEF Relieved, Heard
<1>8. Typed
  <2>1. run \in Seq(Frame) /\ handled \in Seq(FrameId)
    BY <1>5
  <2>2. sock \in Sockets /\ attached \in BOOLEAN
        /\ drain \in {"idle", "handling", "yielding", "flushing"}
    BY DEF Init, Sockets
  <2>3. discarded \in [FrameId -> Nat] /\ accepted = 0
    BY DEF Init
  <2>4. accepted \in 0 .. MaxFrames
    BY <1>1, <2>3
  <2> QED
    BY <2>1, <2>2, <2>3, <2>4 DEF Typed
<1>9. Ordered
  BY <1>2, <1>4, <1>5 DEF Init, Ordered
<1>10. Queued
  BY <1>4, <1>6, <1>7 DEF Queued
<1>11. Out(q) = {}
  BY <1>2, <1>4 DEF Out
<1>12. InHandling
  BY <1>2, <1>4, <1>5, HoldingNothing DEF Init, InHandling
<1>13. Released
  BY <1>11 DEF Init, Released
<1> QED
  BY <1>8, <1>9, <1>10, <1>12, <1>13 DEF IInv

LEMMA EnqueueHolds ==
    ASSUME IInv, NEW k \in Kind, Enqueue(k)
    PROVE  IInv'
<1> DEFINE h == Len(handled)
           longer == Push(q, k)
           loaded == UpdatePressure(longer, sock)
           pushed == PrepareAhead(loaded)
<1>1. Typed /\ Ordered /\ Queued /\ InHandling /\ Released
  BY DEF IInv
<1>2. Sound(q, h) /\ Heard(q, sock) /\ q \in Queue /\ ~q.closed
  BY <1>1 DEF Queued, Sound, Enqueue
<1>3. h \in Nat /\ accepted \in Nat /\ MaxFrames \in Nat /\ sock \in Sockets
      /\ Len(q.pending) \in Nat /\ (q.pending = <<>> <=> Len(q.pending) = 0)
  BY <1>1, <1>2, Counts
<1>4. accepted = h + Len(q.pending)
  BY <1>1, <1>2 DEF Ordered
<1>5. accepted + 1 \in FrameId /\ accepted' = accepted + 1
      /\ accepted' \in 0 .. MaxFrames
  BY <1>3 DEF Enqueue, FrameId
<1>6. q.bytes + SizeOf[k] <= ByteLimit
  BY <1>2, LimitAssumption DEF Enqueue, Overflows, Queue
<1>7. IF drain = "idle" THEN BeginRun(pushed)
      ELSE q' = pushed /\ UNCHANGED <<drain, run, handled>>
  <2>1. \E a \in {longer} : \E b \in {UpdatePressure(a, sock)} :
        \E c \in {PrepareAhead(b)} :
          IF drain = "idle" THEN BeginRun(c)
          ELSE q' = c /\ UNCHANGED <<drain, run, handled>>
    BY DEF Enqueue
  <2> HIDE DEF longer
  <2>2. \E b \in {loaded} : \E c \in {PrepareAhead(b)} :
          IF drain = "idle" THEN BeginRun(c)
          ELSE q' = c /\ UNCHANGED <<drain, run, handled>>
    BY <2>1
  <2> HIDE DEF loaded
  <2>3. \E c \in {pushed} :
          IF drain = "idle" THEN BeginRun(c)
          ELSE q' = c /\ UNCHANGED <<drain, run, handled>>
    BY <2>2
  <2> HIDE DEF pushed
  <2> QED
    BY <2>3
<1>8. sock' = sock /\ attached' = attached /\ discarded' = discarded
  BY DEF Enqueue
<1>9. /\ Sound(longer, h) /\ Out(longer) = Out(q)
      /\ longer.closed = q.closed /\ longer.pressured = q.pressured
      /\ longer.paused = q.paused
      /\ longer.preparedCount = q.preparedCount
      /\ longer.handlingRunnerWide = q.handlingRunnerWide
      /\ Len(longer.pending) = Len(q.pending) + 1
  BY <1>2, <1>3, <1>4, <1>5, <1>6, PushKeeps
<1> HIDE DEF longer
<1>10. longer \in Queue /\ Heard(longer, sock)
  BY <1>2, <1>9 DEF Sound, Heard
<1>11. /\ Sound(loaded, h) /\ Relieved(loaded) /\ Heard(loaded, sock)
       /\ loaded.pending = longer.pending /\ loaded.closed = longer.closed
       /\ loaded.preparedCount = longer.preparedCount
       /\ loaded.handlingRunnerWide = longer.handlingRunnerWide
       /\ Out(loaded) = Out(longer)
  BY <1>3, <1>9, <1>10, UpdateKeeps, UpdateFields, UpdateOut DEF Sockets
<1> HIDE DEF loaded
<1>12. /\ Sound(pushed, h) /\ Alike(loaded, pushed)
       /\ Out(pushed) = Out(loaded)
       /\ pushed.handlingRunnerWide = loaded.handlingRunnerWide
       /\ loaded.handlingRunnerWide =>
            pushed.preparedCount = loaded.preparedCount
  BY <1>3, <1>11, PrepareAheadKeeps
<1>13. Relieved(pushed) /\ Heard(pushed, sock) /\ pushed \in Queue
  BY <1>11, <1>12, AlikeKeeps DEF Sound
<1>14. /\ Len(pushed.pending) = Len(q.pending) + 1 /\ pushed.pending # <<>>
       /\ pushed.closed = q.closed
  <2>1. Len(pushed.pending) = Len(q.pending) + 1 /\ pushed.closed = q.closed
    BY <1>9, <1>11, <1>12 DEF Alike
  <2>2. pushed.pending = <<>> <=> Len(pushed.pending) = 0
    BY <1>1, <1>13, Counts
  <2> QED
    BY <1>3, <2>1, <2>2
<1>15. Out(pushed) = Out(q)
  BY <1>9, <1>11, <1>12
<1> HIDE DEF pushed
<1>16. CASE drain = "idle"
  <2>1. BeginRun(pushed)
    BY <1>7, <1>16
  <2>2. run = <<>> /\ ~q.handlingRunnerWide
    BY <1>1, <1>16 DEF InHandling
  <2>3. ~pushed.handlingRunnerWide
    BY <1>9, <1>11, <1>12, <2>2
  <2>4. \A i \in FrameId : discarded[i] = IF i \in Out(pushed) THEN 1 ELSE 0
    BY <1>1, <1>15, <2>2, HoldingNothing DEF Released
  <2>5. \A i \in DOMAIN handled : handled[i] = i
    BY <1>1 DEF Ordered
  <2>6. UNCHANGED <<sock, discarded>>
    BY <1>8
  <2>7. /\ run' \in Seq(Frame) /\ drain' = "handling"
        /\ handled' \in Seq(FrameId)
        /\ \A i \in DOMAIN handled' : handled'[i] = i
        /\ Len(handled') + Len(q'.pending) = Len(handled) + Len(pushed.pending)
        /\ q'.closed = pushed.closed
        /\ Queued' /\ InHandling' /\ Released'
    BY <1>1, <1>12, <1>13, <1>14, <2>1, <2>3, <2>4, <2>5, <2>6, BeginRunKeeps
  <2>8. Typed'
    BY <1>1, <1>5, <1>8, <2>7 DEF Typed
  <2>9. Len(handled') + Len(q'.pending) = accepted'
    BY <1>3, <1>4, <1>5, <1>14, <2>7
  <2>10. Ordered'
    BY <1>5, <2>7, <2>9 DEF Ordered
  <2> QED
    BY <2>7, <2>8, <2>10 DEF IInv
<1>17. CASE drain # "idle"
  <2>1. q' = pushed /\ drain' = drain /\ run' = run /\ handled' = handled
    BY <1>7, <1>17
  <2>2. Typed'
    BY <1>1, <1>5, <1>8, <2>1 DEF Typed
  <2>3. Len(handled') + Len(q'.pending) = accepted'
    BY <1>3, <1>4, <1>5, <1>14, <2>1
  <2>4. Ordered'
    BY <1>1, <1>5, <2>1, <2>3 DEF Ordered
  <2>5. Queued'
    BY <1>8, <1>12, <1>13, <1>17, <2>1 DEF Queued
  <2>6. Out(q') = Out(q) /\ Out(q)' = Out(q')
    BY <1>15, <2>1 DEF Out
  <2>7. /\ q'.handlingRunnerWide = q.handlingRunnerWide
        /\ q.handlingRunnerWide => q'.preparedCount = q.preparedCount
    BY <1>9, <1>11, <1>12, <2>1
  <2>8. InHandling'
    BY <1>1, <2>1, <2>6, <2>7 DEF InHandling
  <2>9. Released'
    BY <1>1, <1>8, <2>1, <2>6 DEF Released
  <2> QED
    BY <2>2, <2>4, <2>5, <2>8, <2>9 DEF IInv
<1> QED
  BY <1>16, <1>17

\* A socket that was told of the pause is told of nothing by its end.
LEMMA HeardAtEnd ==
    ASSUME NEW s, NEW sk \in Sockets, Heard(s, sk),
           NEW next, next \in {"closing", "terminated", "closed"},
           sk = "closed" => next = "closed"
    PROVE  Heard(s, next)
BY DEF Heard, Sockets

\* What a close() without an ending handler leaves.
LEMMA ClosedHolds ==
    ASSUME IInv, NEW sk \in Sockets, Heard(q, sk), Close(q, sk, {}),
           sock' \in Sockets, Heard(q', sock'), attached' \in BOOLEAN,
           UNCHANGED <<run, accepted, handled>>,
           drain' = drain \/ (run = <<>> /\ drain' = "idle" /\ drain # "handling")
    PROVE  IInv'
<1>1. Typed /\ Ordered /\ Queued /\ InHandling /\ Released
  BY DEF IInv
<1>2. /\ Sound(q', Len(handled)) /\ Relieved(q') /\ Heard(q', sk)
      /\ q'.closed /\ q'.pending = <<>> /\ q'.preparedCount = 0
      /\ q'.handlingRunnerWide = q.handlingRunnerWide
      /\ Out(q) \subseteq Out(q')
      /\ discarded' \in [FrameId -> Nat]
      /\ \A i \in FrameId : discarded'[i] =
           IF i \in Out(q') /\ (i \notin Holding(run) \/ i \in {})
           THEN 1 ELSE 0
  <2>1. /\ Sound(q, Len(handled)) /\ {} \subseteq Holding(run)
        /\ Holding(run) \subseteq Out(q)
        /\ \A i \in FrameId : discarded[i] =
             IF i \in Out(q) /\ i \notin Holding(run) THEN 1 ELSE 0
    BY <1>1 DEF Queued, InHandling, Released
  <2> QED
    BY <1>1, <2>1, CloseKeeps
<1>3. Typed'
  BY <1>1, <1>2 DEF Typed
<1>4. Len(handled) \in Nat /\ accepted \in Nat /\ Len(q.pending) \in Nat
      /\ Len(q'.pending) = 0
  BY <1>1, <1>2, Counts DEF Queued, Sound
<1>5. Len(handled') + Len(q'.pending) <= accepted'
  <2>1. Len(handled) + Len(q.pending) <= accepted
    BY <1>1 DEF Ordered
  <2> QED
    BY <1>4, <2>1
<1>6. Ordered'
  BY <1>1, <1>2, <1>5 DEF Ordered
<1>7. Queued'
  BY <1>2 DEF Queued
<1>8. Out(q)' = Out(q')
  BY DEF Out
<1>9. InHandling'
  BY <1>1, <1>2, <1>8 DEF InHandling
<1>10. Released'
  BY <1>2, <1>8 DEF Released
<1> QED
  BY <1>3, <1>6, <1>7, <1>9, <1>10 DEF IInv

LEMMA TerminateFacts ==
    ASSUME Typed, Terminate
    PROVE  /\ sock' \in Sockets
           /\ \A s : Heard(s, sock) => Heard(s, sock')
<1>1. /\ sock \in Sockets
      /\ sock' \in {"closing", "terminated", "closed"}
      /\ sock = "closed" => sock' = "closed"
  BY DEF Typed, Terminate, Sockets
<1>2. sock' \in Sockets
  BY <1>1 DEF Sockets
<1> QED
  BY <1>1, <1>2, HeardAtEnd

LEMMA OverflowHolds ==
    ASSUME IInv, NEW k \in Kind, EnqueueOverflow(k)
    PROVE  IInv'
<1>1. Typed /\ Queued /\ sock \in Sockets /\ Heard(q, sock)
  BY DEF IInv, Typed, Queued
<1>2. Close(q, sock, {}) /\ Terminate
      /\ UNCHANGED <<drain, run, attached, accepted, handled>>
  BY DEF EnqueueOverflow
<1>3. sock' \in Sockets /\ attached' \in BOOLEAN
  BY <1>1, <1>2, TerminateFacts DEF Typed
<1>4. Heard(q', sock')
  <2>1. q' = Dropped(q, sock)
    BY <1>2 DEF Close
  <2>2. Sound(q, Len(handled)) /\ Len(handled) \in Nat
    BY <1>1, Counts DEF Queued
  <2>3. Heard(q', sock)
    BY <1>1, <2>1, <2>2, DropKeeps DEF Sockets
  <2> QED
    BY <1>1, <1>2, <2>3, TerminateFacts
<1> QED
  BY <1>1, <1>2, <1>3, <1>4, ClosedHolds

LEMMA FlushThrowsHolds == ASSUME IInv, FlushThrows PROVE IInv'
<1>1. Typed /\ Queued /\ InHandling /\ sock \in Sockets /\ Heard(q, sock)
  BY DEF IInv, Typed, Queued
<1>2. Close(q, sock, {}) /\ Terminate
      /\ drain = "flushing" /\ drain' = "idle"
      /\ UNCHANGED <<run, attached, accepted, handled>>
  BY DEF FlushThrows
<1>3. sock' \in Sockets /\ attached' \in BOOLEAN
  BY <1>1, <1>2, TerminateFacts DEF Typed
<1>4. Heard(q', sock')
  <2>1. q' = Dropped(q, sock)
    BY <1>2 DEF Close
  <2>2. Sound(q, Len(handled)) /\ Len(handled) \in Nat
    BY <1>1, Counts DEF Queued
  <2>3. Heard(q', sock)
    BY <1>1, <2>1, <2>2, DropKeeps DEF Sockets
  <2> QED
    BY <1>1, <1>2, <2>3, TerminateFacts
<1>5. run = <<>> /\ drain # "handling"
  BY <1>1, <1>2 DEF InHandling
<1> QED
  BY <1>1, <1>2, <1>3, <1>4, <1>5, ClosedHolds

LEMMA GoneHolds == ASSUME IInv, Gone PROVE IInv'
<1>1. Typed /\ Queued
  BY DEF IInv
<1>2. Close(q, "closed", {}) /\ sock' = "closed" /\ attached' = FALSE
      /\ UNCHANGED <<drain, run, accepted, handled>>
  BY DEF Gone
<1>3. "closed" \in Sockets /\ sock' \in Sockets /\ attached' \in BOOLEAN
  BY <1>2 DEF Sockets
<1>4. Heard(q, "closed") /\ Heard(q', sock')
  BY <1>2 DEF Heard
<1> QED
  BY <1>2, <1>3, <1>4, ClosedHolds

LEMMA ThrowsHolds == ASSUME IInv, HandlerThrows PROVE IInv'
<1> DEFINE ended == [q EXCEPT !.handlingRunnerWide = FALSE]
           h == Len(handled)
<1>1. Typed /\ Ordered /\ Queued /\ InHandling /\ Released
  BY DEF IInv
<1>2. Close(ended, sock, InHand) /\ Terminate /\ run' = <<>>
      /\ drain' = "idle" /\ UNCHANGED <<attached, accepted, handled>>
  BY DEF HandlerThrows
<1>3. Sound(q, h) /\ Heard(q, sock) /\ sock \in Sockets /\ h \in Nat
      /\ q \in Queue
  BY <1>1, Counts DEF Queued, Typed, Sound
<1>4. Sound(ended, h) /\ Alike(q, ended) /\ Out(ended) = Out(q)
      /\ ended.handlingRunnerWide = FALSE
  BY <1>3, MarkKeeps
<1> HIDE DEF ended
<1>5. Heard(ended, sock)
  BY <1>3, <1>4, AlikeKeeps DEF Sound
<1>6. InHand = Holding(run)
  BY <1>1, InHandIs
<1>7. /\ Sound(q', h) /\ Relieved(q') /\ Heard(q', sock)
      /\ q'.closed /\ q'.pending = <<>> /\ q'.preparedCount = 0
      /\ q'.handlingRunnerWide = ended.handlingRunnerWide
      /\ discarded' \in [FrameId -> Nat]
      /\ \A i \in FrameId : discarded'[i] =
           IF i \in Out(q') /\ (i \notin Holding(run) \/ i \in InHand)
           THEN 1 ELSE 0
  <2>1. /\ InHand \subseteq Holding(run) /\ Holding(run) \subseteq Out(ended)
        /\ \A i \in FrameId : discarded[i] =
             IF i \in Out(ended) /\ i \notin Holding(run) THEN 1 ELSE 0
    BY <1>1, <1>4, <1>6 DEF InHandling, Released
  <2> QED
    BY <1>1, <1>2, <1>3, <1>4, <1>5, <2>1, CloseKeeps
<1>8. sock' \in Sockets /\ Heard(q', sock')
  BY <1>1, <1>2, <1>7, TerminateFacts
<1>9. Typed'
  <2>1. run' \in Seq(Frame)
    BY <1>2
  <2> QED
    BY <1>1, <1>2, <1>7, <1>8, <2>1 DEF Typed
<1>10. Ordered'
  <2>1. Len(handled) \in Nat /\ accepted \in Nat /\ Len(q.pending) \in Nat
        /\ Len(q'.pending) = 0
    BY <1>1, <1>3, <1>7, Counts DEF Sound
  <2>2. Len(handled) + Len(q.pending) <= accepted
    BY <1>1 DEF Ordered
  <2>3. Len(handled') + Len(q'.pending) <= accepted'
    BY <1>2, <2>1, <2>2
  <2> QED
    BY <1>1, <1>2, <1>7, <2>3 DEF Ordered
<1>11. Queued'
  BY <1>2, <1>7, <1>8 DEF Queued
<1>12. Holding(run') = {} /\ Len(run') = 0 /\ DOMAIN run' = {}
  BY <1>2, HoldingNothing
<1>13. InHandling'
  BY <1>2, <1>4, <1>7, <1>12 DEF InHandling
<1>14. Released'
  BY <1>6, <1>7, <1>12 DEF Released, Out
<1> QED
  BY <1>9, <1>10, <1>11, <1>13, <1>14 DEF IInv

LEMMA ReturnsHolds == ASSUME IInv, HandlerReturns PROVE IInv'
<1> DEFINE ended == [q EXCEPT !.handlingRunnerWide = FALSE]
           h == Len(handled)
<1>1. Typed /\ Ordered /\ Queued /\ InHandling /\ Released
  BY DEF IInv
<1>2. q' = PrepareAhead(ended) /\ Discard(InHand) /\ run' = <<>>
      /\ drain' = "yielding" /\ UNCHANGED <<sock, attached, accepted, handled>>
  <2>1. \E x \in {ended} : q' = PrepareAhead(x)
    BY DEF HandlerReturns
  <2> HIDE DEF ended
  <2> QED
    BY <2>1 DEF HandlerReturns
<1>3. Sound(q, h) /\ Relieved(q) /\ Heard(q, sock) /\ h \in Nat
  BY <1>1, Counts DEF Queued
<1>4. Sound(ended, h) /\ Alike(q, ended) /\ Out(ended) = Out(q)
      /\ ended.handlingRunnerWide = FALSE
  BY <1>3, MarkKeeps
<1> HIDE DEF ended
<1>5. /\ Sound(q', h) /\ Alike(ended, q') /\ Out(q') = Out(ended)
      /\ q'.handlingRunnerWide = FALSE
  BY <1>2, <1>3, <1>4, PrepareAheadKeeps
<1>6. Relieved(q') /\ Heard(q', sock)
  BY <1>3, <1>4, <1>5, AlikeKeeps DEF Sound
<1>7. Len(q'.pending) = Len(q.pending) /\ q'.closed = q.closed
  BY <1>4, <1>5 DEF Alike
<1>8. \A i \in FrameId :
        discarded'[i] = discarded[i] + IF i \in Holding(run) THEN 1 ELSE 0
  BY <1>1, <1>2, InHandIs DEF Discard
<1>9. Holding(run) \subseteq Out(q')
  BY <1>1, <1>4, <1>5 DEF InHandling
<1>10. \A i \in FrameId : /\ discarded'[i] = IF i \in Out(q') THEN 1 ELSE 0
                          /\ discarded'[i] \in Nat
  BY <1>1, <1>4, <1>5, <1>8, <1>9 DEF Released
<1>11. Typed'
  <2>1. run' \in Seq(Frame) /\ discarded' \in [FrameId -> Nat]
    BY <1>2, <1>10 DEF Discard
  <2> QED
    BY <1>1, <1>2, <2>1 DEF Typed
<1>12. Ordered'
  BY <1>1, <1>2, <1>7 DEF Ordered
<1>13. Queued'
  BY <1>2, <1>5, <1>6 DEF Queued
<1>14. Holding(run') = {} /\ Len(run') = 0 /\ DOMAIN run' = {}
  BY <1>2, HoldingNothing
<1>15. InHandling'
  BY <1>2, <1>5, <1>14 DEF InHandling
<1>16. Released'
  BY <1>10, <1>14 DEF Released, Out
<1> QED
  BY <1>11, <1>12, <1>13, <1>15, <1>16 DEF IInv

\* The loop goes round with frames waiting and none in hand.
LEMMA RoundHolds ==
    ASSUME IInv, drain # "handling", q.pending # <<>>, BeginRun(q),
           UNCHANGED <<sock, attached, accepted, discarded>>
    PROVE  IInv'
<1>1. Typed /\ Ordered /\ Queued /\ InHandling /\ Released
  BY DEF IInv
<1>2. run = <<>> /\ ~q.handlingRunnerWide
  BY <1>1 DEF InHandling
<1>3. /\ Sound(q, Len(handled)) /\ Heard(q, sock)
      /\ \A i \in DOMAIN handled : handled[i] = i
  BY <1>1 DEF Queued, Ordered
<1>4. \A i \in FrameId : discarded[i] = IF i \in Out(q) THEN 1 ELSE 0
  BY <1>1, <1>2, HoldingNothing DEF Released
<1>5. UNCHANGED <<sock, discarded>>
  OBVIOUS
<1>6. /\ run' \in Seq(Frame) /\ drain' = "handling"
      /\ handled' \in Seq(FrameId)
      /\ \A i \in DOMAIN handled' : handled'[i] = i
      /\ Len(handled') + Len(q'.pending) = Len(handled) + Len(q.pending)
      /\ q'.closed = q.closed
      /\ Queued' /\ InHandling' /\ Released'
  BY <1>1, <1>2, <1>3, <1>4, <1>5, BeginRunKeeps
<1>7. Typed'
  BY <1>1, <1>6 DEF Typed
<1>8. Ordered'
  BY <1>1, <1>6 DEF Ordered
<1> QED
  BY <1>6, <1>7, <1>8 DEF IInv

\* The loop moves on or ends with nothing waiting and none in hand.
LEMMA LoopHolds ==
    ASSUME IInv, drain # "handling", q.pending = <<>>,
           drain' \in {"idle", "flushing"},
           UNCHANGED <<q, run, handled, sock, attached, accepted, discarded>>
    PROVE  IInv'
<1>1. Typed /\ Ordered /\ Queued /\ InHandling /\ Released
  BY DEF IInv
<1>2. Typed'
  BY <1>1 DEF Typed
<1>3. Ordered' /\ Released'
  BY <1>1 DEF Ordered, Released, Out
<1>4. Queued'
  BY <1>1 DEF Queued
<1>5. InHandling'
  BY <1>1 DEF InHandling, Out
<1> QED
  BY <1>2, <1>3, <1>4, <1>5 DEF IInv

LEMMA NextTurnHolds == ASSUME IInv, NextTurn PROVE IInv'
<1>1. drain = "yielding" /\ UNCHANGED <<sock, attached, accepted, discarded>>
  BY DEF NextTurn
<1>2. CASE q.pending = <<>>
  <2>1. drain' \in {"idle", "flushing"} /\ UNCHANGED <<q, run, handled>>
    BY <1>2 DEF NextTurn
  <2> QED
    BY <1>1, <1>2, <2>1, LoopHolds
<1>3. CASE q.pending # <<>>
  <2>1. ~q.closed
    BY <1>3 DEF IInv, Queued, Sound, Waiting
  <2>2. BeginRun(q)
    BY <1>3, <2>1 DEF NextTurn
  <2> QED
    BY <1>1, <1>3, <2>2, RoundHolds
<1> QED
  BY <1>2, <1>3

LEMMA FlushedHolds == ASSUME IInv, Flushed PROVE IInv'
<1>1. drain = "flushing" /\ UNCHANGED <<sock, attached, accepted, discarded>>
  BY DEF Flushed
<1>2. CASE q.pending = <<>>
  BY <1>1, <1>2, LoopHolds DEF Flushed
<1>3. CASE q.pending # <<>>
  BY <1>1, <1>3, RoundHolds DEF Flushed
<1> QED
  BY <1>2, <1>3

LEMMA ReserveHolds ==
    ASSUME IInv, NEW n \in Inventories, ReserveInventory(n)
    PROVE  IInv'
<1> DEFINE reserve == Max({q.reserve, n})
           frames == Max({q.frames, n + FrameLimit})
           h == Len(handled)
<1>1. Typed /\ Ordered /\ Queued /\ InHandling /\ Released
  BY DEF IInv
<1>2. /\ q' = [q EXCEPT !.reserve = reserve, !.frames = frames]
      /\ attached' = TRUE
      /\ UNCHANGED <<drain, run, sock, accepted, handled, discarded>>
  BY DEF ReserveInventory
<1>3. Sound(q, h) /\ Relieved(q) /\ Heard(q, sock) /\ h \in Nat /\ q \in Queue
  BY <1>1, Counts DEF Queued, Sound
<1>4. /\ q.reserve \in Nat /\ q.frames \in Nat /\ n \in Nat
      /\ FrameLimit \in Nat /\ q.frames >= q.reserve + FrameLimit
      /\ Len(q.pending) \in Nat
  BY <1>3, LimitAssumption, LenProperties DEF Queue, Sound
<1>5. /\ reserve = IF q.reserve >= n THEN q.reserve ELSE n
      /\ frames = IF q.frames >= n + FrameLimit THEN q.frames ELSE n + FrameLimit
  BY <1>4, MaxOfTwo
<1>6. /\ reserve \in Nat /\ frames \in Nat /\ frames >= q.frames
      /\ frames >= reserve + FrameLimit
  <2> DEFINE r == q.reserve
             f == q.frames
             R == reserve
             F == frames
  <2>1. /\ r \in Nat /\ f \in Nat /\ n \in Nat /\ FrameLimit \in Nat
        /\ f >= r + FrameLimit
        /\ R = IF r >= n THEN r ELSE n
        /\ F = IF f >= n + FrameLimit THEN f ELSE n + FrameLimit
    BY <1>4, <1>5
  <2> HIDE DEF r, f, R, F
  <2>2. R \in Nat /\ F \in Nat /\ F >= f /\ F >= R + FrameLimit
    BY <2>1
  <2> QED
    BY <2>2 DEF r, f, R, F
<1> HIDE DEF reserve, frames
<1>7. q' \in Queue
  BY <1>2, <1>3, <1>6 DEF Queue
<1>8. /\ q'.pending = q.pending /\ q'.bytes = q.bytes
      /\ q'.closed = q.closed /\ q'.pressured = q.pressured
      /\ q'.paused = q.paused /\ q'.preparedCount = q.preparedCount
      /\ q'.asked = q.asked /\ q'.handlingRunnerWide = q.handlingRunnerWide
  BY <1>2, <1>3 DEF Queue
<1>9. q'.reserve = reserve /\ q'.frames = frames
  BY <1>2, <1>3 DEF Queue
<1>10. Sound(q', h)
  BY <1>3, <1>6, <1>7, <1>8, <1>9 DEF Sound, Waiting, Prefix, Asked
<1>11. Relieved(q')
  <2>1. Len(q.pending) < q.frames => Len(q.pending) < q'.frames
    BY <1>4, <1>6, <1>9
  <2> QED
    BY <1>3, <1>8, <2>1 DEF Relieved
<1>12. Heard(q', sock)
  BY <1>3, <1>8 DEF Heard
<1>13. Typed'
  BY <1>1, <1>2 DEF Typed
<1>14. Ordered'
  BY <1>1, <1>2, <1>8 DEF Ordered
<1>15. Queued'
  BY <1>1, <1>2, <1>8, <1>10, <1>11, <1>12 DEF Queued
<1>16. Out(q)' = Out(q)
  BY <1>8 DEF Out
<1>17. InHandling'
  BY <1>1, <1>2, <1>8, <1>16 DEF InHandling
<1>18. Released'
  BY <1>1, <1>2, <1>16 DEF Released
<1> QED
  BY <1>13, <1>14, <1>15, <1>17, <1>18 DEF IInv

\* Steps of the socket that leave the queue and the loop alone.
LEMMA SocketHolds ==
    ASSUME IInv, UNCHANGED <<q, drain, run, accepted, handled, discarded>>,
           attached' \in BOOLEAN,
           sock' = sock \/ (sock = "open" /\ sock' = "closing")
    PROVE  IInv'
<1>1. Typed /\ Ordered /\ Queued /\ InHandling /\ Released
  BY DEF IInv
<1>2. sock' \in Sockets /\ Heard(q, sock')
  BY <1>1 DEF Typed, Queued, Sockets, Heard
<1>3. Typed'
  BY <1>1, <1>2 DEF Typed
<1>4. Ordered' /\ Released' /\ InHandling'
  BY <1>1 DEF Ordered, Released, InHandling, Out
<1>5. Queued'
  BY <1>1, <1>2 DEF Queued
<1> QED
  BY <1>3, <1>4, <1>5 DEF IInv

LEMMA NextHolds == ASSUME IInv, [Next]_vars PROVE IInv'
<1>1. CASE \E k \in Kind : Enqueue(k)
  BY <1>1, EnqueueHolds
<1>2. CASE \E k \in Kind : EnqueueOverflow(k)
  BY <1>2, OverflowHolds
<1>3. CASE \E n \in Inventories : ReserveInventory(n)
  BY <1>3, ReserveHolds
<1>4. CASE HandlerReturns
  BY <1>4, ReturnsHolds
<1>5. CASE HandlerThrows
  BY <1>5, ThrowsHolds
<1>6. CASE NextTurn
  BY <1>6, NextTurnHolds
<1>7. CASE Flushed
  BY <1>7, FlushedHolds
<1>8. CASE FlushThrows
  BY <1>8, FlushThrowsHolds
<1>9. CASE StartClose
  <2>1. attached \in BOOLEAN
    BY DEF IInv, Typed
  <2> QED
    BY <1>9, <2>1, SocketHolds DEF StartClose
<1>10. CASE Replaced
  BY <1>10, SocketHolds DEF Replaced
<1>11. CASE PeerAnswersClose \/ SocketDestroyed \/ ConnectionLost
  BY <1>11, GoneHolds DEF PeerAnswersClose, SocketDestroyed, ConnectionLost
<1>12. CASE UNCHANGED vars
  <2>1. attached \in BOOLEAN
    BY DEF IInv, Typed
  <2> QED
    BY <1>12, <2>1, SocketHolds DEF vars
<1> QED
  BY <1>1, <1>2, <1>3, <1>4, <1>5, <1>6, <1>7, <1>8, <1>9, <1>10, <1>11,
     <1>12 DEF Next

-----------------------------------------------------------------------------
(* What the runs check follows.                                            *)

LEMMA TypeFollows == ASSUME IInv PROVE TypeOK
<1>1. Typed /\ Queued
  BY DEF IInv
<1>2. q \in Queue /\ q.preparedCount <= Len(q.pending) /\ q.bytes <= ByteLimit
  BY <1>1 DEF Queued, Sound, Waiting, Prefix
<1>3. /\ q.pending \in Seq(Frame) /\ q.frames \in Nat /\ q.reserve \in Nat
      /\ {q.closed, q.pressured, q.paused, q.handlingRunnerWide, attached}
           \subseteq BOOLEAN
      /\ q.asked \in Seq([id : FrameId, value : BOOLEAN])
  BY <1>1, <1>2 DEF Queue, Call, Typed
<1>4. q.preparedCount \in 0 .. Len(q.pending)
  <2>1. q.preparedCount \in Nat /\ Len(q.pending) \in Nat
    BY <1>2, LenProperties DEF Queue
  <2> QED
    BY <1>2, <2>1
<1>5. q.bytes \in 0 .. ByteLimit
  <2>1. q.bytes \in Nat /\ ByteLimit \in Nat
    BY <1>2, LimitAssumption DEF Queue
  <2> QED
    BY <1>2, <2>1
<1> QED
  BY <1>1, <1>3, <1>4, <1>5 DEF TypeOK, Typed, Sockets

LEMMA OrderFollows == ASSUME IInv PROVE InArrivalOrder
<1> DEFINE ids == Ids(q.pending)
           order == handled \o ids
           h == Len(handled)
           p == Len(q.pending)
<1>1. Typed /\ Ordered /\ Queued
  BY DEF IInv
<1>2. /\ h \in Nat /\ p \in Nat /\ handled \in Seq(FrameId)
      /\ DOMAIN handled = 1 .. h
      /\ q.pending \in Seq(Frame) /\ DOMAIN q.pending = 1 .. p
  BY <1>1, LenProperties DEF Typed, Queued, Sound, Queue
<1>3. /\ ids \in [1 .. p -> FrameId]
      /\ \A i \in 1 .. p : ids[i] = h + i
  <2>1. ASSUME NEW i \in 1 .. p
        PROVE  q.pending[i].id \in FrameId /\ q.pending[i].id = h + i
    <3>1. q.pending[i].id = h + i
      BY <1>1, <1>2 DEF Queued, Sound, Waiting
    <3>2. q.pending[i] \in Frame
      BY <1>2, ElementOfSeq
    <3> QED
      BY <3>1, <3>2 DEF Frame
  <2> QED
    BY <1>2, <2>1 DEF Ids
<1> HIDE DEF ids, h, p
<1>4. ids \in Seq(FrameId) /\ Len(ids) = p
  BY <1>2, <1>3, FunctionIsSeq
<1>5. /\ order \in Seq(FrameId) /\ Len(order) = h + p
      /\ \A i \in 1 .. h : order[i] = handled[i]
      /\ \A i \in 1 .. p : order[h + i] = ids[i]
  <2>1. handled \in Seq(FrameId) /\ ids \in Seq(FrameId)
    BY <1>2, <1>4
  <2>2. /\ handled \o ids \in Seq(FrameId)
        /\ Len(handled \o ids) = Len(handled) + Len(ids)
        /\ \A i \in 1 .. Len(handled) : (handled \o ids)[i] = handled[i]
        /\ \A i \in 1 .. Len(ids) : (handled \o ids)[Len(handled) + i] = ids[i]
    BY <2>1, ConcatParts
  <2> QED
    BY <1>4, <2>2 DEF h
<1> HIDE DEF order
<1>6. order = [i \in DOMAIN order |-> order[i]] /\ DOMAIN order = 1 .. h + p
  BY <1>5, LenProperties
<1>7. ASSUME NEW i \in 1 .. h + p PROVE order[i] = i
  <2>1. CASE i <= h
    BY <1>1, <1>2, <1>5, <2>1 DEF Ordered
  <2>2. CASE ~(i <= h)
    <3>1. i - h \in 1 .. p /\ h + (i - h) = i
      BY <1>2, <2>2
    <3> QED
      BY <1>3, <1>5, <3>1
  <2> QED
    BY <2>1, <2>2
<1>8. order = [i \in 1 .. Len(order) |-> i]
  BY <1>5, <1>6, <1>7
<1>9. q.closed \/ Len(order) = accepted
  BY <1>1, <1>5 DEF Ordered, h, p
<1> QED
  BY <1>8, <1>9 DEF InArrivalOrder, order, ids

LEMMA PauseFollows == ASSUME IInv PROVE PausedOnlyWithWork
BY DEF IInv, Queued, Heard, Relieved, PausedOnlyWithWork

LEMMA WideFollows == ASSUME IInv PROVE NothingPastWide
<1>1. Queued /\ InHandling /\ q \in Queue
  BY DEF IInv, Queued, Sound
<1>2. ASSUME NEW i \in 1 .. q.preparedCount, NEW j \in FrameId, j < i
      PROVE  q.pending[j].kind \notin Wide
  <2>1. j \in 1 .. i - 1
    <3>1. q.preparedCount \in Nat /\ MaxFrames \in Nat
      BY <1>1, LimitAssumption DEF Queue
    <3>2. i \in Nat /\ j \in Nat /\ 1 <= j
      BY <3>1 DEF FrameId
    <3> QED
      BY <1>2, <3>2
  <2> QED
    BY <1>1, <2>1 DEF Queued, Sound, Prefix
<1> QED
  BY <1>1, <1>2 DEF NothingPastWide, InHandling

LEMMA StagedFollows == ASSUME IInv PROVE StagedOnce
<1>1. /\ \A n \in DOMAIN q.asked : q.asked[n].id = n
      /\ q.closed => q.pending = <<>>
  BY DEF IInv, Queued, Sound, Asked, Waiting
<1>2. ASSUME NEW i \in FrameId
      PROVE  discarded[i] =
               IF /\ i \in DOMAIN q.asked /\ q.asked[i].value
                  /\ i \notin Holding(q.pending) \cup Holding(run)
               THEN 1 ELSE 0
  BY DEF IInv, Released, Out
<1> QED
  BY <1>1, <1>2 DEF StagedOnce

LEMMA RoomFollows == ASSUME IInv PROVE RoomWhileReading
<1> SUFFICES ASSUME sock = "open", ~q.paused, ~q.closed, NEW k \in Kind
             PROVE  ~Overflows(q, k)
  BY DEF RoomWhileReading
<1>1. Len(q.pending) < q.frames /\ 4 * q.bytes < ByteLimit /\ q \in Queue
  BY DEF IInv, Queued, Sound, Heard, Relieved
<1>2. Len(q.pending) \in Nat /\ q.frames \in Nat
  BY <1>1, LenProperties DEF Queue
<1>3. ~(Len(q.pending) >= q.frames)
  BY <1>1, <1>2
<1>4. /\ q.bytes \in Nat /\ SizeOf[k] \in Nat /\ ByteLimit \in Nat
      /\ 2 * SizeOf[k] <= ByteLimit
  BY <1>1, LimitAssumption DEF Queue
<1>5. ~(q.bytes + SizeOf[k] > ByteLimit)
  BY <1>1, <1>4
<1> QED
  BY <1>3, <1>5 DEF Overflows

LEMMA InvariantHolds == Spec => []IInv
<1>1. Init => IInv
  BY InitHolds
<1>2. IInv /\ [Next]_vars => IInv'
  BY NextHolds
<1> QED
  BY <1>1, <1>2, PTL DEF Spec

\* Frames reach their handlers in the order of their arrival, none twice and
\* none skipped while the queue is open, and a paused socket always has a
\* frame waiting and a loop that will take it: enqueue, drain, close and
\* updatePressure of RunnerFrameQueue, for every limit and every number of
\* frames.
THEOREM QueueHolds == Spec => []QueueInv
<1>1. IInv => QueueInv
  BY TypeFollows, OrderFollows, PauseFollows DEF QueueInv
<1> QED
  BY <1>1, InvariantHolds, PTL

\* prepare is called once for each frame, in order and never past a frame
\* about the whole runner that is still to be handled, and each value it
\* returns is held by one owner or was released once: prepareAhead, the
\* handler's finally block and close().
THEOREM PreparationHolds == Spec => []PreparationInv
<1>1. IInv => PreparationInv
  BY WideFollows, StagedFollows DEF PreparationInv
<1> QED
  BY <1>1, InvariantHolds, PTL

\* A socket that honours the pause is never cut off for a full queue:
\* updatePressure against the limits of enqueue, also after reserveInventory
\* moved them.
THEOREM RoomHolds == Spec => []RoomWhileReading
<1>1. IInv => RoomWhileReading
  BY RoomFollows
<1> QED
  BY <1>1, InvariantHolds, PTL
=============================================================================
