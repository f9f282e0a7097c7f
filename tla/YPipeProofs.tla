---------------------------- MODULE YPipeProofs ----------------------------
(***************************************************************************)
(* Proofs about the two implementations of ypipe_base_t: YPipe, for every  *)
(* set of payloads, every bound on the number of cells and both kinds of   *)
(* reader, and at the end Conflate, for every number of messages.          *)
(***************************************************************************)
EXTENDS YPipe, SequenceTheorems, TLAPS

(* What a subsequence of a queue looks like, frame by frame. *)
LEMMA SubSeqElements ==
  ASSUME NEW S, NEW s \in Seq(S), NEW m \in Nat, m >= 1, NEW n \in Nat, n <= Len(s)
  PROVE  /\ SubSeq(s, m, n) \in Seq(S)
         /\ Len(SubSeq(s, m, n)) = IF m <= n THEN n - m + 1 ELSE 0
         /\ \A i \in 1 .. n - m + 1 : SubSeq(s, m, n)[i] = s[m + i - 1]
<1>1. \A i \in m .. n : s[i] \in S
  BY ElementOfSeq
<1> QED
  BY <1>1, SubSeqProperties

(* Two sequences that agree up to n have the same subsequences up to n. *)
LEMMA SameSubSeq ==
  ASSUME NEW S, NEW s \in Seq(S), NEW t \in Seq(S), NEW m \in Nat, m >= 1,
         NEW n \in Nat, n <= Len(s), n <= Len(t),
         \A i \in m .. n : s[i] = t[i]
  PROVE  SubSeq(s, m, n) = SubSeq(t, m, n)
<1>2. /\ SubSeq(s, m, n) \in Seq(S)
      /\ Len(SubSeq(s, m, n)) = IF m <= n THEN n - m + 1 ELSE 0
      /\ \A i \in 1 .. n - m + 1 : SubSeq(s, m, n)[i] = s[m + i - 1]
  BY SubSeqElements
<1>3. /\ SubSeq(t, m, n) \in Seq(S)
      /\ Len(SubSeq(t, m, n)) = IF m <= n THEN n - m + 1 ELSE 0
      /\ \A i \in 1 .. n - m + 1 : SubSeq(t, m, n)[i] = t[m + i - 1]
  BY SMTT(30), SubSeqElements
<1>4. \A i \in 1 .. n - m + 1 : m + i - 1 \in m .. n
  OBVIOUS
<1>5. \A i \in 1 .. n - m + 1 : SubSeq(s, m, n)[i] = SubSeq(t, m, n)[i]
  BY <1>2, <1>3, <1>4
<1>6. 1 .. Len(SubSeq(s, m, n)) = 1 .. n - m + 1
  BY <1>2
<1> QED
  BY <1>2, <1>3, <1>5, <1>6, SeqEqual

(* Init establishes every part of the invariant. *)
LEMMA InitInvariant == Init => IInv
<1> SUFFICES ASSUME Init PROVE IInv
  OBVIOUS
<1>1. queue \in Seq(Frame) /\ got \in Seq(Frame) /\ Len(queue) = 0
  BY EmptySeq DEF Init
<1>2. SubSeq(queue, 1, front) = <<>>
  BY SubSeqEmpty DEF Init
<1>3. TypeOK
  BY <1>1 DEF Init, TypeOK
<1>4. DisjointCells /\ Sleep /\ OneWakePerSleep
  BY <1>1 DEF Init, DisjointCells, Sleep, OneWakePerSleep, NULL, back
<1>5. Boundaries
  BY <1>1 DEF Init, Boundaries, Boundary, NULL, back
<1>6. Received
  BY <1>2 DEF Init, Received
<1> QED
  BY <1>3, <1>4, <1>5, <1>6 DEF IInv

(* write extends the queue beyond every pointer. *)
LEMMA WriteInvariant ==
  ASSUME IInv, NEW v \in Value, NEW more \in BOOLEAN, write(v, more)
  PROVE  IInv'
<1> DEFINE x == <<v, more>>
<1>1. x \in Frame /\ x[2] = more
  BY DEF Frame
<1>2. queue \in Seq(Frame) /\ back \in Nat /\ front \in 0 .. back
  BY DEF IInv, TypeOK, DisjointCells, back
<1>3. /\ queue' \in Seq(Frame)
      /\ Len(queue') = back + 1
      /\ \A i \in 1 .. back : queue'[i] = queue[i]
      /\ queue'[back + 1] = x
  <2>1. queue' = Append(queue, x)
    BY DEF write
  <2> QED
    BY <1>1, <1>2, <2>1, AppendProperties DEF back
<1>4. SubSeq(queue', 1, front) = SubSeq(queue, 1, front)
  BY <1>2, <1>3, SameSubSeq DEF back
<1>5. TypeOK' /\ DisjointCells' /\ Received'
  BY <1>2, <1>3, <1>4 DEF IInv, TypeOK, DisjointCells, Received, write, back
<1>6. Sleep' /\ OneWakePerSleep'
  BY <1>2, <1>3 DEF IInv, TypeOK, DisjointCells, Sleep, OneWakePerSleep, write, back
<1>7. Boundaries'
  BY <1>1, <1>2, <1>3 DEF IInv, TypeOK, DisjointCells, Boundaries, Boundary, Incomplete,
     write, back, NULL
<1> QED
  BY <1>5, <1>6, <1>7 DEF IInv

(* unwrite removes an incomplete frame, hence one beyond f. *)
LEMMA UnwriteInvariant == ASSUME IInv, unwrite PROVE IInv'
<1>1. queue \in Seq(Frame) /\ back \in Nat /\ front \in 0 .. back /\ f \in 0 .. back - 1
  BY DEF IInv, TypeOK, DisjointCells, unwrite, back
<1>2. \A i \in 1 .. back - 1 : queue[i] \in Frame
  BY <1>1, ElementOfSeq DEF back
<1>3. /\ queue' \in Seq(Frame)
      /\ Len(queue') = back - 1
      /\ \A i \in 1 .. back - 1 : queue'[i] = queue[i]
  <2>1. queue' = SubSeq(queue, 1, back - 1)
    BY DEF unwrite
  <2> QED
    BY <1>1, <1>2, <2>1, SubSeqProperties
<1>4. front \in 0 .. back - 1
  BY <1>1 DEF IInv, TypeOK, DisjointCells
<1>5. SubSeq(queue', 1, front) = SubSeq(queue, 1, front)
  BY <1>1, <1>3, <1>4, SameSubSeq DEF back
<1>6. TypeOK' /\ DisjointCells' /\ Received'
  BY <1>1, <1>3, <1>4, <1>5 DEF IInv, TypeOK, DisjointCells, Received, unwrite, back
<1>7. Sleep' /\ OneWakePerSleep'
  BY DEF IInv, Sleep, OneWakePerSleep, unwrite
<1>8. Boundaries'
  BY <1>1, <1>3 DEF IInv, TypeOK, DisjointCells, Boundaries, Boundary, Incomplete,
     unwrite, back, NULL
<1> QED
  BY <1>6, <1>7, <1>8 DEF IInv

(* The three steps of flush move w and c to f, a boundary. *)
LEMMA FlushInvariant ==
  ASSUME IInv, FlushSwap \/ FlushFail \/ FlushStore
  PROVE  IInv'
<1>1. CASE FlushSwap
  <2>1. TypeOK' /\ DisjointCells' /\ Received'
    BY <1>1 DEF IInv, TypeOK, DisjointCells, Received, FlushSwap, back, NULL
  <2>2. Sleep' /\ OneWakePerSleep'
    BY <1>1 DEF IInv, TypeOK, Sleep, OneWakePerSleep, FlushSwap, NULL
  <2>3. Boundaries'
    BY <1>1 DEF IInv, TypeOK, DisjointCells, Boundaries, Boundary, Incomplete, FlushSwap, back
  <2> QED
    BY <2>1, <2>2, <2>3 DEF IInv
<1>2. CASE FlushFail
  <2>1. TypeOK' /\ DisjointCells' /\ Received'
    BY <1>2 DEF IInv, TypeOK, DisjointCells, Received, FlushFail, back
  <2>2. Sleep' /\ OneWakePerSleep'
    BY <1>2 DEF IInv, TypeOK, DisjointCells, Sleep, OneWakePerSleep, FlushFail
  <2>3. Boundaries'
    BY <1>2 DEF IInv, Boundaries, Boundary, Incomplete, FlushFail, back
  <2> QED
    BY <2>1, <2>2, <2>3 DEF IInv
<1>3. CASE FlushStore
  <2>1. TypeOK' /\ DisjointCells' /\ Received'
    BY <1>3 DEF IInv, TypeOK, DisjointCells, Received, FlushStore, back, NULL
  <2>2. Sleep' /\ OneWakePerSleep'
    BY <1>3 DEF IInv, TypeOK, Sleep, OneWakePerSleep, FlushStore, NULL
  <2>3. Boundaries'
    BY <1>3 DEF IInv, TypeOK, DisjointCells, Boundaries, Boundary, Incomplete, FlushStore, back
  <2> QED
    BY <2>1, <2>2, <2>3 DEF IInv
<1> QED
  BY <1>1, <1>2, <1>3

(* check_read takes what was flushed, or falls asleep where the writer is. *)
LEMMA CheckReadInvariant == ASSUME IInv, check_read PROVE IInv'
<1>1. TypeOK' /\ DisjointCells' /\ Received'
  BY DEF IInv, TypeOK, DisjointCells, Sleep, Received, check_read, Prefetched, back, NULL
<1>2. Sleep' /\ OneWakePerSleep'
  BY DEF IInv, TypeOK, DisjointCells, Sleep, OneWakePerSleep, check_read, NULL
<1>3. Boundaries'
  BY DEF IInv, TypeOK, DisjointCells, Sleep, Boundaries, Boundary, Incomplete, check_read, back
<1> QED
  BY <1>1, <1>2, <1>3 DEF IInv

(* read consumes one of the prefetched frames. *)
LEMMA ReadInvariant == ASSUME IInv, read PROVE IInv'
<1>1. queue \in Seq(Frame) /\ front + 1 \in 1 .. Len(queue) /\ front + 1 <= r /\ r <= w
  BY DEF IInv, TypeOK, DisjointCells, read, Prefetched, back, NULL
<1>2. queue[front + 1] \in Frame
  BY <1>1, ElementOfSeq
<1>3. got' = SubSeq(queue, 1, front + 1)
  <2>1. got' = Append(SubSeq(queue, 1, front), queue[front + 1])
    BY DEF IInv, Received, read
  <2>2. SubSeq(queue, 1, front + 1) = SubSeq(queue, 1, front) \o <<queue[front + 1]>>
    <3> DEFINE n == front + 1
    <3>1. 1 \in 1 .. Len(queue) /\ n \in 1 .. Len(queue) /\ n - 1 = front
      BY <1>1 DEF IInv, TypeOK
    <3> HIDE DEF n
    <3>2. SubSeq(queue, 1, n) = SubSeq(queue, 1, n - 1) \o <<queue[n]>>
      BY <1>1, <3>1, SubSeqRecursiveSecond
    <3> QED
      BY <3>1, <3>2 DEF n
  <2>3. SubSeq(queue, 1, front) \in Seq(Frame)
    BY DEF IInv, TypeOK, Received
  <2> QED
    BY <1>2, <2>1, <2>2, <2>3, AppendIsConcat
<1>4. got' \in Seq(Frame)
  BY <1>2, AppendProperties DEF IInv, TypeOK, read
<1>5. TypeOK' /\ DisjointCells' /\ Received'
  BY <1>1, <1>3, <1>4 DEF IInv, TypeOK, DisjointCells, Received, read, back, NULL
<1>6. Sleep' /\ OneWakePerSleep'
  BY <1>1 DEF IInv, TypeOK, Sleep, OneWakePerSleep, read, NULL
<1>7. Boundaries'
  BY <1>1 DEF IInv, TypeOK, Boundaries, Boundary, Incomplete, read, back, Prefetched
<1> QED
  BY <1>5, <1>6, <1>7 DEF IInv

(* A wake-up only changes what the reader waits for. *)
LEMMA WakeInvariant == ASSUME IInv, Wake PROVE IInv'
<1>1. TypeOK'
  <2>1. waiting' \in BOOLEAN
    BY Zenon DEF Wake
  <2>2. wakes' \in Nat
    BY DEF IInv, TypeOK, Wake
  <2> QED
    BY <2>1, <2>2 DEF IInv, TypeOK, Wake
<1>2. DisjointCells' /\ Received'
  BY DEF IInv, DisjointCells, Received, Wake, back
<1>3. Sleep' /\ OneWakePerSleep'
  BY DEF IInv, TypeOK, Sleep, OneWakePerSleep, Wake
<1>4. Boundaries'
  BY DEF IInv, Boundaries, Boundary, Incomplete, Wake, back
<1> QED
  BY <1>1, <1>2, <1>3, <1>4 DEF IInv

LEMMA StepInvariant == IInv /\ [Next]_vars => IInv'
<1> SUFFICES ASSUME IInv, [Next]_vars PROVE IInv'
  OBVIOUS
<1>1. CASE Writer
  BY <1>1, WriteInvariant, UnwriteInvariant, FlushInvariant DEF Writer
<1>2. CASE Reader
  BY <1>2, CheckReadInvariant, ReadInvariant, WakeInvariant DEF Reader
<1>3. CASE UNCHANGED vars
  <2>1. TypeOK' /\ DisjointCells' /\ Received'
    BY <1>3 DEF IInv, TypeOK, DisjointCells, Received, vars, back
  <2>2. Sleep' /\ Boundaries' /\ OneWakePerSleep'
    BY <1>3 DEF IInv, Sleep, Boundaries, Boundary, Incomplete, OneWakePerSleep, vars, back
  <2> QED
    BY <2>1, <2>2 DEF IInv
<1> QED
  BY <1>1, <1>2, <1>3 DEF Next

(* The invariant the run ypipe_polling checks holds of every instance. *)
THEOREM YPipeInvariant == Spec => []IInv
  BY InitInvariant, StepInvariant, PTL DEF Spec

(* A reader is never told "empty" in the middle of a message: incomplete   *)
(* frames are never handed over (ypipe.hpp, write).                        *)
THEOREM YPipeWholeMessages == Spec => []WholeMessages
<1>1. IInv => WholeMessages
  BY DEF IInv, TypeOK, Boundaries, WholeMessages, Prefetched
<1> QED
  BY <1>1, YPipeInvariant, PTL

(* flush's result never loses a sleeping reader.                           *)
THEOREM YPipeNoLostWakeup == Spec => []NoLostWakeup
<1>1. IInv => NoLostWakeup
  BY DEF IInv, TypeOK, Sleep, NoLostWakeup
<1> QED
  BY <1>1, YPipeInvariant, PTL
-----------------------------------------------------------------------------
(* Refinement: every step is a step of the abstract stream or a stutter.   *)

(* The frames between two positions of a queue. *)
LEMMA Between ==
  ASSUME NEW S, NEW s \in Seq(S), NEW a \in Nat, NEW d \in Nat, a <= d, d <= Len(s)
  PROVE  /\ SubSeq(s, a + 1, d) \in Seq(S)
         /\ Len(SubSeq(s, a + 1, d)) = d - a
         /\ \A i \in 1 .. d - a : SubSeq(s, a + 1, d)[i] = s[a + i]
<1> DEFINE t == SubSeq(s, a + 1, d)
<1>1. /\ t \in Seq(S)
      /\ Len(t) = IF a + 1 <= d THEN d - (a + 1) + 1 ELSE 0
      /\ \A i \in 1 .. d - (a + 1) + 1 : t[i] = s[(a + 1) + i - 1]
  BY SubSeqElements
<1> HIDE DEF t
<1>2. /\ t \in Seq(S)
      /\ Len(t) = d - a
      /\ \A i \in 1 .. d - a : t[i] = s[a + i]
  BY <1>1
<1> QED
  BY <1>2 DEF t

(* Frames two queues share, between the same positions. *)
LEMMA SameBetween ==
  ASSUME NEW S, NEW s \in Seq(S), NEW t \in Seq(S), NEW a \in Nat, NEW d \in Nat,
         d <= Len(s), d <= Len(t), \A i \in 1 .. d : s[i] = t[i]
  PROVE  SubSeq(s, a + 1, d) = SubSeq(t, a + 1, d)
<1>1. \A i \in a + 1 .. d : s[i] = t[i]
  OBVIOUS
<1>2. a + 1 \in Nat /\ a + 1 >= 1
  OBVIOUS
<1> QED
  BY <1>1, <1>2, SameSubSeq

(* One more frame. *)
LEMMA OneMore ==
  ASSUME NEW S, NEW s \in Seq(S), NEW a \in Nat, NEW d \in Nat, a <= d, d + 1 <= Len(s)
  PROVE  SubSeq(s, a + 1, d + 1) = Append(SubSeq(s, a + 1, d), s[d + 1])
<1> DEFINE m == a + 1
           n == d + 1
<1>1. m \in 1 .. Len(s) /\ n \in m .. Len(s) /\ n - 1 = d
  OBVIOUS
<1>2. SubSeq(s, m, d) \in Seq(S) /\ s[n] \in S
  BY <1>1, Between, ElementOfSeq
<1> HIDE DEF m, n
<1>3. SubSeq(s, m, n) = SubSeq(s, m, n - 1) \o <<s[n]>>
  BY <1>1, SubSeqRecursiveSecond
<1>4. SubSeq(s, m, n) = Append(SubSeq(s, m, d), s[n])
  BY <1>1, <1>2, <1>3, AppendIsConcat
<1> QED
  BY <1>4 DEF m, n

(* The frames between two positions, cut at a third one. *)
LEMMA CutSubSeq ==
  ASSUME NEW S, NEW s \in Seq(S), NEW a \in Nat, NEW b \in Nat, NEW d \in Nat,
         a <= b, b <= d, d <= Len(s)
  PROVE  /\ SubSeq(SubSeq(s, a + 1, d), 1, b - a) = SubSeq(s, a + 1, b)
         /\ SubSeq(SubSeq(s, a + 1, d), b - a + 1, d - a) = SubSeq(s, b + 1, d)
<1> DEFINE t == SubSeq(s, a + 1, d)
<1>1. /\ t \in Seq(S)
      /\ Len(t) = d - a
      /\ \A i \in 1 .. d - a : t[i] = s[a + i]
  BY Between
<1> HIDE DEF t
<1>2. SubSeq(t, 1, b - a) = SubSeq(s, a + 1, b)
  <2> DEFINE x == SubSeq(t, 1, b - a)
             y == SubSeq(s, a + 1, b)
  <2>1. /\ x \in Seq(S)
        /\ Len(x) = IF 1 <= b - a THEN b - a - 1 + 1 ELSE 0
        /\ \A i \in 1 .. b - a - 1 + 1 : x[i] = t[1 + i - 1]
    BY SMTT(30), <1>1, SubSeqElements
  <2>2. /\ y \in Seq(S)
        /\ Len(y) = IF a + 1 <= b THEN b - (a + 1) + 1 ELSE 0
        /\ \A i \in 1 .. b - (a + 1) + 1 : y[i] = s[(a + 1) + i - 1]
    BY SubSeqElements
  <2> HIDE DEF x, y
  <2>3. Len(x) = b - a /\ Len(y) = b - a
    BY <2>1, <2>2
  <2>4. ASSUME NEW i \in 1 .. Len(x) PROVE x[i] = y[i]
    BY SMTT(30), <1>1, <2>1, <2>2, <2>3
  <2>5. x = y
    BY <2>1, <2>2, <2>3, <2>4, SeqEqual
  <2> QED
    BY <2>5 DEF x, y
<1>3. SubSeq(t, b - a + 1, d - a) = SubSeq(s, b + 1, d)
  <2> DEFINE x == SubSeq(t, b - a + 1, d - a)
             y == SubSeq(s, b + 1, d)
  <2>1. /\ x \in Seq(S)
        /\ Len(x) = IF b - a + 1 <= d - a THEN d - a - (b - a + 1) + 1 ELSE 0
        /\ \A i \in 1 .. d - a - (b - a + 1) + 1 : x[i] = t[(b - a + 1) + i - 1]
    BY <1>1, SubSeqElements
  <2>2. /\ y \in Seq(S)
        /\ Len(y) = IF b + 1 <= d THEN d - (b + 1) + 1 ELSE 0
        /\ \A i \in 1 .. d - (b + 1) + 1 : y[i] = s[(b + 1) + i - 1]
    BY SubSeqElements
  <2> HIDE DEF x, y
  <2>3. Len(x) = d - b /\ Len(y) = d - b
    BY <2>1, <2>2
  <2>4. ASSUME NEW i \in 1 .. Len(x) PROVE x[i] = y[i]
    BY <1>1, <2>1, <2>2, <2>3
  <2>5. x = y
    BY <2>1, <2>2, <2>3, <2>4, SeqEqual
  <2> QED
    BY <2>5 DEF x, y
<1> QED
  BY <1>2, <1>3 DEF t

LEMMA InitRefines == Init => Stream!Init
<1> SUFFICES ASSUME Init PROVE Stream!Init
  OBVIOUS
<1>1. back = 0 /\ w = 0 /\ front = 0
  BY DEF Init, back
<1>2. heldFrames = <<>> /\ availFrames = <<>>
  BY <1>1, SubSeqEmpty DEF heldFrames, availFrames
<1>3. (c = NULL) = FALSE
  BY DEF Init, NULL
<1> QED
  BY <1>2, <1>3 DEF Init, Stream!Init

(* The facts about the pointers every step below uses. *)
LEMMA PointerFacts ==
  IInv => /\ queue \in Seq(Frame) /\ back \in Nat /\ back = Len(queue)
          /\ front \in Nat /\ w \in Nat /\ f \in Nat
          /\ front <= w /\ w <= f /\ f <= back
  BY DEF IInv, TypeOK, DisjointCells, back

LEMMA WriteRefines ==
  ASSUME IInv, NEW v \in Value, NEW more \in BOOLEAN, write(v, more)
  PROVE  Stream!Write(<<v, more>>)
<1> DEFINE x == <<v, more>>
<1>1. x \in Frame
  BY DEF Frame
<1>2. /\ queue' \in Seq(Frame)
      /\ Len(queue') = back + 1
      /\ \A i \in 1 .. back : queue'[i] = queue[i]
      /\ queue'[back + 1] = x
  BY <1>1, PointerFacts, AppendProperties DEF write
<1>3. availFrames' = availFrames
  <2>1. /\ queue \in Seq(Frame) /\ queue' \in Seq(Frame) /\ front \in Nat /\ w \in Nat
        /\ w <= Len(queue) /\ w <= Len(queue') /\ \A i \in 1 .. w : queue[i] = queue'[i]
    BY <1>2, PointerFacts
  <2>2. SubSeq(queue, front + 1, w) = SubSeq(queue', front + 1, w)
    BY <2>1, SameBetween
  <2> QED
    BY <2>2 DEF write, availFrames
<1>4. heldFrames' = Append(heldFrames, x)
  <2>1. SubSeq(queue', w + 1, back) = heldFrames
    BY SMTT(30), <1>2, PointerFacts, SameSubSeq DEF heldFrames
  <2>2. SubSeq(queue', w + 1, back + 1) = Append(SubSeq(queue', w + 1, back), queue'[back + 1])
    <3>1. /\ queue' \in Seq(Frame) /\ w \in Nat /\ back \in Nat
          /\ w <= back /\ back + 1 <= Len(queue')
      BY <1>2, PointerFacts
    <3> QED
      BY <3>1, OneMore
  <2>3. heldFrames' = SubSeq(queue', w + 1, back + 1)
    <3>1. back' = back + 1
      BY <1>2 DEF back
    <3>2. w' = w
      BY DEF write
    <3> QED
      BY <3>1, <3>2 DEF heldFrames
  <2> QED
    BY <1>2, <2>1, <2>2, <2>3
<1> QED
  BY <1>3, <1>4 DEF write, Stream!Write

LEMMA UnwriteRefines == ASSUME IInv, unwrite PROVE Stream!Unwrite
<1>1. f < back
  BY PointerFacts DEF unwrite
<1>2. /\ heldFrames \in Seq(Frame)
      /\ Len(heldFrames) = back - w
      /\ \A i \in 1 .. back - w : heldFrames[i] = queue[w + i]
  <2>1. w <= back
    BY PointerFacts
  <2> QED
    BY <2>1, PointerFacts, Between DEF heldFrames
<1>3. heldFrames # <<>> /\ heldFrames[Len(heldFrames)] = queue[back]
  BY <1>1, <1>2, PointerFacts
<1>4. queue[back][2]
  BY <1>1, PointerFacts DEF IInv, Boundaries, Incomplete
<1>5. queue' = SubSeq(queue, 1, back - 1)
  BY DEF unwrite
<1>6. /\ queue' \in Seq(Frame)
      /\ Len(queue') = back - 1
      /\ \A i \in 1 .. back - 1 : queue'[i] = queue[i]
  <2>1. /\ queue' \in Seq(Frame)
        /\ Len(queue') = IF 1 <= back - 1 THEN back - 1 - 1 + 1 ELSE 0
        /\ \A i \in 1 .. back - 1 - 1 + 1 : queue'[i] = queue[1 + i - 1]
    BY <1>1, <1>5, PointerFacts, SubSeqElements
  <2> QED
    BY <1>1, <2>1, PointerFacts
<1>7. availFrames' = availFrames
  <2>1. /\ queue \in Seq(Frame) /\ queue' \in Seq(Frame) /\ front \in Nat /\ w \in Nat
        /\ w <= Len(queue) /\ w <= Len(queue') /\ \A i \in 1 .. w : queue[i] = queue'[i]
    BY <1>1, <1>6, PointerFacts
  <2>2. SubSeq(queue, front + 1, w) = SubSeq(queue', front + 1, w)
    BY <2>1, SameBetween
  <2> QED
    BY <2>2 DEF unwrite, availFrames
<1>8. heldFrames' = SubSeq(queue, w + 1, back - 1)
  <2>1. heldFrames' = SubSeq(queue', w + 1, back - 1)
    BY <1>6 DEF heldFrames, back, unwrite
  <2>2. back - 1 \in Nat /\ back - 1 <= Len(queue) /\ back - 1 <= Len(queue')
    BY <1>1, <1>6, PointerFacts
  <2>3. SubSeq(queue, w + 1, back - 1) = SubSeq(queue', w + 1, back - 1)
    BY SMTT(30), <1>6, <2>2, PointerFacts, SameBetween
  <2> QED
    BY <2>1, <2>3
<1>9. heldFrames' = SubSeq(heldFrames, 1, Len(heldFrames) - 1)
  <2>1. SubSeq(SubSeq(queue, w + 1, back), 1, (back - 1) - w) = SubSeq(queue, w + 1, back - 1)
    BY SMTT(30), <1>1, PointerFacts, CutSubSeq
  <2>2. (back - 1) - w = Len(heldFrames) - 1
    BY <1>2, PointerFacts
  <2> QED
    BY <1>8, <2>1, <2>2 DEF heldFrames
<1> QED
  BY <1>3, <1>4, <1>7, <1>9 DEF unwrite, Stream!Unwrite, Stream!IsLast

(* The step of flush that moves w and c hands over what is held up to f.   *)
LEMMA FlushRefines ==
  ASSUME IInv, FlushSwap \/ FlushStore
  PROVE  Stream!Flush
<1> DEFINE n == f - w
<1>1. w < f /\ w' = f /\ c' = f /\ queue' = queue /\ front' = front /\ got' = got
  BY PointerFacts DEF IInv, Sleep, FlushSwap, FlushStore
<1>2. /\ heldFrames \in Seq(Frame)
      /\ Len(heldFrames) = back - w
      /\ \A i \in 1 .. back - w : heldFrames[i] = queue[w + i]
  <2>1. w <= back
    BY PointerFacts
  <2> QED
    BY <2>1, PointerFacts, Between DEF heldFrames
<1>3. n \in 1 .. Len(heldFrames) /\ w + n = f
  BY <1>1, <1>2, PointerFacts
<1>4. Stream!IsLast(heldFrames[n])
  <2>1. heldFrames[n] = queue[f]
    BY <1>2, <1>3, PointerFacts
  <2>2. ~queue[f][2]
    BY <1>1, PointerFacts DEF IInv, Boundaries, Boundary, Incomplete
  <2> QED
    BY <2>1, <2>2 DEF Stream!IsLast
<1>5. ASSUME NEW k \in n + 1 .. Len(heldFrames) PROVE ~Stream!IsLast(heldFrames[k])
  <2>1. heldFrames[k] = queue[w + k] /\ w + k \in f + 1 .. back
    BY <1>2, <1>3, PointerFacts
  <2>2. queue[w + k][2]
    BY <2>1 DEF IInv, Boundaries, Incomplete
  <2> QED
    BY <2>1, <2>2 DEF Stream!IsLast
<1>6. /\ SubSeq(heldFrames, 1, n) = SubSeq(queue, w + 1, f)
      /\ SubSeq(heldFrames, n + 1, Len(heldFrames)) = SubSeq(queue, f + 1, back)
  <2>1. /\ queue \in Seq(Frame) /\ w \in Nat /\ f \in Nat /\ back \in Nat
        /\ w <= f /\ f <= back /\ back <= Len(queue)
    BY PointerFacts
  <2>2. /\ SubSeq(SubSeq(queue, w + 1, back), 1, f - w) = SubSeq(queue, w + 1, f)
        /\ SubSeq(SubSeq(queue, w + 1, back), f - w + 1, back - w) = SubSeq(queue, f + 1, back)
    BY <2>1, CutSubSeq
  <2> QED
    BY <1>2, <2>2 DEF heldFrames
<1>7. availFrames' = availFrames \o SubSeq(heldFrames, 1, n)
  <2>1. SubSeq(queue, front + 1, w) \o SubSeq(queue, w + 1, f) = SubSeq(queue, front + 1, f)
    <3> DEFINE m == front + 1
    <3>1. m \in 1 .. Len(queue) + 1 /\ w \in m - 1 .. Len(queue) /\ f \in w .. Len(queue)
      BY <1>1, PointerFacts
    <3> HIDE DEF m
    <3>2. SubSeq(queue, m, w) \o SubSeq(queue, w + 1, f) = SubSeq(queue, m, f)
      BY <3>1, PointerFacts, ConcatAdjacentSubSeq
    <3> QED
      BY <3>2 DEF m
  <2> QED
    BY <1>1, <1>6, <2>1 DEF availFrames
<1>8. heldFrames' = SubSeq(heldFrames, n + 1, Len(heldFrames))
  BY <1>1, <1>6 DEF heldFrames, back
<1>9. (c = NULL)' = FALSE
  BY <1>1, PointerFacts DEF NULL
<1>10. wakes' = IF c = NULL THEN wakes + 1 ELSE wakes
  BY PointerFacts DEF IInv, Sleep, FlushSwap, FlushStore, NULL
<1> QED
  BY <1>1, <1>3, <1>4, <1>5, <1>7, <1>8, <1>9, <1>10 DEF Stream!Flush

LEMMA CheckReadRefines ==
  ASSUME IInv, check_read
  PROVE  Stream!FindEmpty \/ UNCHANGED Stream!vars
<1>1. UNCHANGED <<queue, front, w, wakes, got>>
  BY DEF check_read
<1>2. UNCHANGED <<heldFrames, availFrames, got, wakes>>
  BY <1>1 DEF heldFrames, availFrames, back
<1>3. CASE c = front
  <2>1. availFrames = <<>>
    BY <1>3, PointerFacts, SubSeqEmpty DEF IInv, DisjointCells, NULL, availFrames
  <2>2. (c = NULL)' = TRUE
    BY <1>3 DEF check_read
  <2> QED
    BY <1>2, <2>1, <2>2 DEF Stream!FindEmpty
<1>4. CASE c # front
  <2>1. c' = c
    BY <1>4 DEF check_read
  <2> QED
    BY <1>2, <2>1 DEF Stream!vars
<1> QED
  BY <1>3, <1>4

LEMMA ReadRefines == ASSUME IInv, read PROVE Stream!Take
<1>1. front + 1 <= w
  BY PointerFacts DEF IInv, TypeOK, DisjointCells, read, Prefetched
<1>2. /\ Head(SubSeq(queue, front + 1, w)) = queue[front + 1]
      /\ Tail(SubSeq(queue, front + 1, w)) = SubSeq(queue, front + 1 + 1, w)
  <2> DEFINE m == front + 1
  <2>1. m \in 1 .. Len(queue) /\ w \in m .. Len(queue)
    BY <1>1, PointerFacts
  <2> HIDE DEF m
  <2>2. Head(SubSeq(queue, m, w)) = queue[m] /\ Tail(SubSeq(queue, m, w)) = SubSeq(queue, m + 1, w)
    BY <2>1, PointerFacts, HeadTailOfSubSeq
  <2> QED
    BY <2>2 DEF m
<1>3. availFrames # <<>>
  <2>1. Len(availFrames) = IF front + 1 <= w THEN w - (front + 1) + 1 ELSE 0
    BY PointerFacts, SubSeqElements DEF availFrames
  <2>2. Len(availFrames) # 0
    BY <1>1, <2>1, PointerFacts
  <2> QED
    BY <2>2, EmptySeq
<1>4. got' = Append(got, Head(availFrames)) /\ availFrames' = Tail(availFrames)
  BY <1>2 DEF read, availFrames
<1>5. UNCHANGED <<heldFrames, wakes, c>>
  BY DEF read, heldFrames, back
<1> QED
  BY <1>3, <1>4, <1>5 DEF Stream!Take

(* The pointers implement the promise made to the two threads.             *)
THEOREM YPipeImplementsStream == Spec => StreamSpec
<1>1. Init => Stream!Init
  BY InitRefines
<1>2. IInv /\ [Next]_vars => [Stream!Next]_(Stream!vars)
  <2> SUFFICES ASSUME IInv, [Next]_vars PROVE Stream!Next \/ UNCHANGED Stream!vars
    OBVIOUS
  <2>1. ASSUME NEW v \in Value, NEW more \in BOOLEAN, write(v, more) PROVE Stream!Next
    <3>1. <<v, more>> \in Stream!Frame
      BY DEF Stream!Frame
    <3> QED
      BY <2>1, <3>1, WriteRefines DEF Stream!Next
  <2>2. CASE unwrite
    BY <2>2, UnwriteRefines DEF Stream!Next
  <2>3. CASE FlushSwap \/ FlushStore
    BY <2>3, FlushRefines DEF Stream!Next
  <2>4. CASE FlushFail
    BY <2>4 DEF FlushFail, Stream!vars, heldFrames, availFrames, back
  <2>5. CASE check_read
    BY <2>5, CheckReadRefines DEF Stream!Next
  <2>6. CASE read
    BY <2>6, ReadRefines DEF Stream!Next
  <2>7. CASE Wake
    BY <2>7 DEF Wake, Stream!Wake, Stream!Next, heldFrames, availFrames, back
  <2>8. CASE UNCHANGED vars
    BY <2>8 DEF vars, Stream!vars, heldFrames, availFrames, back
  <2> QED
    BY <2>1, <2>2, <2>3, <2>4, <2>5, <2>6, <2>7, <2>8 DEF Next, Writer, Reader
<1> QED
  BY <1>1, <1>2, YPipeInvariant, PTL DEF Spec, StreamSpec, Stream!Spec
-----------------------------------------------------------------------------
(* ypipe_conflate_t, which a pipe has in place of ypipe_t when             *)
(* ZMQ_CONFLATE is set: for any number of messages, its inductive          *)
(* invariant, and that the reader is only ever given newer ones.           *)
CONSTANT MaxWrite
VARIABLES rear, fore, has_msg, locked, written, wstep, rpc, in_active, woken, taken

C == INSTANCE Conflate WITH back <- rear, front <- fore, wpc <- wstep, wakes <- woken, got <- taken

LEMMA ConflateInit == ASSUME MaxWrite \in Nat PROVE C!Init => C!IInv
<1> SUFFICES ASSUME C!Init PROVE C!IInv
  OBVIOUS
<1>1. 0 \in 0 .. MaxWrite
  OBVIOUS
<1>2. C!TypeOK
  BY <1>1, Zenon DEF C!Init, C!TypeOK
<1>3. C!Newer /\ C!WakesBounded
  BY DEF C!Init, C!Newer, C!WakesBounded
<1>4. C!FrontIsMessage /\ C!CheckHolds /\ C!NoLostWakeup /\ C!Lock
  BY DEF C!Init, C!FrontIsMessage, C!CheckHolds, C!NoLostWakeup, C!Lock
<1>5. QED
  BY <1>2, <1>3, <1>4 DEF C!IInv

(* A message is newer than all before it; it waits in back to be swapped.  *)
LEMMA ConflateWriter ==
  ASSUME MaxWrite \in Nat PROVE C!IInv /\ C!Writer => C!IInv'
<1> SUFFICES ASSUME C!IInv, C!Writer PROVE C!IInv'
  OBVIOUS
<1> USE DEF C!IInv, C!TypeOK, C!FrontIsMessage, C!CheckHolds, C!NoLostWakeup, C!Lock,
           C!Newer, C!WakesBounded
<1>1. CASE C!write
  BY <1>1 DEF C!write
<1>2. CASE C!Swap
  BY <1>2 DEF C!Swap
<1>3. CASE C!GiveUp
  BY <1>3 DEF C!GiveUp
<1>4. CASE C!flush
  BY <1>4 DEF C!flush
<1>5. QED
  BY <1>1, <1>2, <1>3, <1>4 DEF C!Writer

(* The reader takes from the front only what check_read saw there.        *)
LEMMA ConflateReader ==
  ASSUME MaxWrite \in Nat PROVE C!IInv /\ C!Reader => C!IInv'
<1> SUFFICES ASSUME C!IInv, C!Reader PROVE C!IInv'
  OBVIOUS
<1> USE DEF C!IInv, C!TypeOK, C!FrontIsMessage, C!CheckHolds, C!NoLostWakeup, C!Lock,
           C!Newer, C!WakesBounded
<1>1. CASE C!CheckLock
  BY <1>1 DEF C!CheckLock
<1>2. CASE C!CheckDone
  BY <1>2 DEF C!CheckDone
<1>3. CASE C!ReadLock
  BY <1>3 DEF C!ReadLock
<1>4. CASE C!ReadDone
  <2>1. has_msg
    BY <1>4 DEF C!ReadDone
  <2>2. /\ taken' = fore /\ fore' = 0 /\ has_msg' = FALSE /\ locked' = FALSE
        /\ rpc' = "idle"
        /\ UNCHANGED <<rear, written, wstep, woken, in_active>>
    BY <1>4, <2>1 DEF C!ReadDone
  <2>3. has_msg' \in BOOLEAN /\ locked' \in BOOLEAN /\ in_active' \in BOOLEAN
    BY <2>2
  <2>4. C!TypeOK' /\ C!Newer' /\ C!WakesBounded'
    BY <2>1, <2>2, <2>3
  <2>5. C!FrontIsMessage' /\ C!CheckHolds' /\ C!NoLostWakeup' /\ C!Lock'
    BY <2>2
  <2>6. QED
    BY <2>4, <2>5
<1>5. CASE C!Wake
  BY <1>5 DEF C!Wake
<1>6. QED
  BY <1>1, <1>2, <1>3, <1>4, <1>5 DEF C!Reader

LEMMA ConflateStutter == C!IInv /\ UNCHANGED C!vars => C!IInv'
BY DEF C!vars, C!IInv, C!TypeOK, C!FrontIsMessage, C!CheckHolds, C!NoLostWakeup, C!Lock,
       C!Newer, C!WakesBounded

(* dbuffer_t and what pipe_t does with it keep the invariant: the flag     *)
(* says whether the front is a message, what check_read saw is there when  *)
(* read takes it, a passive reader with a message is going to be woken,    *)
(* and what waits to be swapped is newer than all the reader has seen.     *)
THEOREM ConflateInvariant ==
  ASSUME MaxWrite \in Nat PROVE C!Spec => []C!IInv
<1>1. C!Init => C!IInv
  BY ConflateInit
<1>2. C!IInv /\ [C!Next]_(C!vars) => C!IInv'
  BY ConflateWriter, ConflateReader, ConflateStutter DEF C!Next
<1>3. QED
  BY <1>1, <1>2, PTL DEF C!Spec

(* No step gives the reader a message twice or an older one after a newer  *)
(* one, though a buffer that was read goes back to the writer and returns. *)
THEOREM ConflateNewerOnly ==
  ASSUME MaxWrite \in Nat PROVE C!Spec => C!NewerOnly
<1>1. C!IInv /\ [C!Next]_(C!vars) => [taken' # taken => taken' > taken]_(C!vars)
  <2> SUFFICES ASSUME C!IInv, [C!Next]_(C!vars), taken' # taken
               PROVE  taken' > taken
    BY DEF C!vars
  <2>1. C!ReadDone /\ has_msg
    BY DEF C!Next, C!Writer, C!Reader, C!write, C!Swap, C!GiveUp, C!flush,
           C!CheckLock, C!CheckDone, C!ReadLock, C!ReadDone, C!Wake, C!vars
  <2>2. taken' = fore /\ fore # 0
    BY <2>1 DEF C!ReadDone, C!IInv, C!FrontIsMessage
  <2>3. QED
    BY <2>2 DEF C!IInv, C!Newer
<1>2. QED
  BY <1>1, ConflateInvariant, PTL DEF C!Spec, C!NewerOnly
=============================================================================
