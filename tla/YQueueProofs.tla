---------------------------- MODULE YQueueProofs ----------------------------
(***************************************************************************)
(* For any set of chunks, any number of cells in one and any bound on the  *)
(* cells in use: the queue is memory safe.                                 *)
(***************************************************************************)
EXTENDS YQueue, SequenceTheorems, WellFoundedInduction, TLAPS

(* Some place is the last one of its kind. *)
LEMMA LastOf ==
  ASSUME NEW n \in Nat, NEW T \in SUBSET (0 .. n), T # {}
  PROVE  \E m \in T : \A k \in T : k <= m
<1> DEFINE R == OpToRel(<, Nat)
           D == {n - i : i \in T}
<1>1. \A x, y \in Nat : <<x, y>> \in R <=> x < y
  BY DEF OpToRel
<1>2. \A i \in T : i \in 0 .. n /\ n - i \in D /\ n - i \in Nat
  OBVIOUS
<1>3. D \subseteq Nat /\ D # {}
  BY <1>2
<1>4. \E x \in D : \A y \in D : ~ (<<y, x>> \in R)
  <2> HIDE DEF D
  <2>1. IsWellFoundedOn(R, Nat)
    BY NatLessThanWellFounded
  <2> HIDE DEF R
  <2> QED
    BY <1>3, <2>1, WFMin
<1> HIDE DEF R
<1>5. PICK m \in T : \A y \in D : ~ (<<y, n - m>> \in R)
  BY <1>4
<1>6. \A k \in T : ~ (n - k < n - m)
  BY <1>1, <1>2, <1>5
<1> QED
  BY <1>2, <1>5, <1>6

(* The live cells, by their place in addr, and the chunks they are in. *)
LEMMA LiveUsed ==
  ASSUME TypeOK
  PROVE  /\ \A p \in Live : p + 1 \in Used
         /\ \A i \in Used : i - 1 \in Live /\ (i - 1) + 1 = i
         /\ LiveChunks = UsedChunks
<1>1. front \in Nat /\ Len(addr) \in Nat
  BY DEF TypeOK
<1>2. \A p \in Live : p + 1 \in Used
  BY <1>1 DEF Live, Used
<1>3. \A i \in Used : i - 1 \in Live /\ (i - 1) + 1 = i
  BY <1>1 DEF Live, Used
<1>4. {addr[p + 1][1] : p \in Live} = {addr[i][1] : i \in Used}
  BY <1>2, <1>3
<1> QED
  BY <1>2, <1>3, <1>4 DEF LiveChunks, UsedChunks

(* What the invariant says of the ends of the queue. *)
LEMMA Places ==
  ASSUME TypeOK, Chain, AtBack
  PROVE  /\ N \in Nat /\ N >= 1
         /\ front \in Nat /\ flushed \in Nat /\ Len(addr) \in Nat
         /\ \A i \in Used : /\ i \in 1 .. Len(addr)
                            /\ addr[i] = <<addr[i][1], addr[i][2]>>
                            /\ addr[i][1] \in Chunk
                            /\ addr[i][2] \in 0 .. N - 1
         /\ addr # <<>> <=> Len(addr) # 0
         /\ addr # <<>> => /\ front + 1 \in Used /\ Len(addr) \in Used
                           /\ back[1] \in Chunk /\ back[2] \in 0 .. N - 1
         /\ end = <<end[1], end[2]>> /\ back = <<back[1], back[2]>>
         /\ begin = <<begin[1], begin[2]>>
         /\ end[1] \in Chunk /\ end[2] \in 0 .. N /\ begin[2] \in 0 .. N
         /\ NULL \notin Chunk
<1>1. N \in Nat /\ N >= 1 /\ NULL \notin Chunk
  BY YQueueAssumption
<1>2. front \in Nat /\ flushed \in Nat /\ Len(addr) \in Nat /\ addr \in Seq(Cell)
  BY DEF TypeOK
<1>3. addr # <<>> <=> Len(addr) # 0
  BY <1>2, EmptySeq
<1>4. \A c \in Cell : c = <<c[1], c[2]>> /\ c[2] \in 0 .. N
  BY DEF Cell
<1>5. \A i \in Used : i \in 1 .. Len(addr)
  BY <1>2 DEF Used
<1>6. \A i \in Used : addr[i] \in Cell
  BY <1>2, <1>5, ElementOfSeq
<1>7. addr # <<>> => front + 1 \in Used /\ Len(addr) \in Used
  BY <1>2 DEF AtBack, Used
<1>8. \A i \in Used : addr[i][1] \in Chunk /\ addr[i][2] \in 0 .. N - 1
  BY DEF Chain
<1>9. addr # <<>> => back[1] \in Chunk /\ back[2] \in 0 .. N - 1
  BY <1>7, <1>8 DEF AtBack
<1>10. end \in Cell /\ back \in Cell /\ begin \in Cell
  BY DEF TypeOK
<1> QED
  BY <1>1, <1>2, <1>3, <1>4, <1>5, <1>6, <1>7, <1>8, <1>9, <1>10 DEF AtBack

(* A live cell is followed by the next cell, and the cells of a chunk are  *)
(* together and in their order.                                            *)
LEMMA Followed ==
  ASSUME TypeOK, Chain, NEW i \in Used, i + 1 \in Used
  PROVE  After(addr[i], addr[i + 1])
  BY DEF Chain

LEMMA Together ==
  ASSUME TypeOK, Chain, NEW i \in Used, NEW j \in Used, i < j, addr[i][1] = addr[j][1]
  PROVE  /\ addr[i][2] < addr[j][2]
         /\ \A k \in Used : i < k /\ k < j => addr[k][1] = addr[j][1]
  BY DEF Chain

(* The invariant implies that the queue is memory safe. *)
LEMMA InvariantMemorySafe == IInv => MemorySafe
<1> SUFFICES ASSUME IInv PROVE MemorySafe
  OBVIOUS
<1>0. TypeOK /\ Chain /\ AtBack /\ Hands
  BY DEF IInv
<1> USE <1>0
<1>1. ASSUME Alive PROVE CellIdentity
  <2>1. AtFront
    BY <1>1 DEF IInv
  <2>2. ASSUME NEW p \in Live, NEW q \in Live, addr[p + 1] = addr[q + 1]
        PROVE  p = q
    <3>1. p \in Nat /\ q \in Nat /\ p + 1 \in Used /\ q + 1 \in Used
      <4>1. p + 1 \in Used /\ q + 1 \in Used
        BY LiveUsed
      <4>2. front \in Nat /\ Len(addr) \in Nat
        BY Places
      <4> QED
        BY <4>1, <4>2 DEF Live
    <3>2. ~ (addr[p + 1][2] < addr[p + 1][2])
      <4>1. addr[p + 1][2] \in 0 .. N - 1 /\ N \in Nat
        BY <3>1, Places
      <4> QED
        BY <4>1
    <3>3. ~ (p + 1 < q + 1)
      BY <2>2, <3>1, <3>2, Together
    <3>4. ~ (q + 1 < p + 1)
      BY <2>2, <3>1, <3>2, Together
    <3> QED
      BY <3>1, <3>3, <3>4
  <2>3. Live # {} => addr # <<>>
    BY Places DEF Live
  <2> QED
    BY <2>1, <2>2, <2>3 DEF CellIdentity, AtFront, AtBack
<1>2. ASSUME Alive PROVE NoDangling
  <2>1. AtFront /\ Held
    BY <1>2 DEF IInv
  <2>2. LiveChunks = UsedChunks
    BY LiveUsed
  <2>3. rpc = "advance" => next[begin[1]] \in UsedChunks
    BY <2>1, Places DEF AtFront, UsedChunks
  <2>4. ASSUME Len(addr) > flushed + 1, wpc = "idle"
        PROVE  /\ back[2] = 0 => prev[back[1]] \in UsedChunks
               /\ end[2] = 0 => prev[end[1]] \in UsedChunks
    <3>1. addr # <<>>
      BY <2>4, Places
    <3>2. Len(addr) - 1 \in Used /\ Len(addr) \in Used /\ Len(addr) = (Len(addr) - 1) + 1
      BY <2>4, <3>1, Places DEF Used, AtBack
    <3>3. After(addr[Len(addr) - 1], back)
      <4>1. After(addr[Len(addr) - 1], addr[Len(addr)])
        BY <3>2, Followed
      <4> QED
        BY <3>1, <4>1 DEF AtBack
    <3>4. After(back, end)
      BY <2>4, <3>1 DEF AtBack
    <3>5. addr[Len(addr) - 1][1] \in UsedChunks /\ back[1] \in UsedChunks
      BY <3>1, <3>2 DEF UsedChunks, AtBack
    <3>6. addr[Len(addr) - 1][2] \in 0 .. N - 1 /\ back[2] \in 0 .. N - 1 /\ N \in Nat
      BY <3>1, <3>2, Places
    <3>7. back[2] = 0 => prev[back[1]] \in UsedChunks
      <4>1. addr[Len(addr) - 1][2] + 1 # 0
        BY <3>6
      <4> QED
        BY <3>3, <3>5, <4>1 DEF After
    <3>8. end[2] = 0 => prev[end[1]] \in UsedChunks
      <4>1. back[2] + 1 # 0
        BY <3>6
      <4> QED
        BY <3>4, <3>5, <4>1 DEF After
    <3> QED
      BY <3>7, <3>8
  <2>5. UsedChunks \cup ({spare_chunk, sc, o} \ {NULL}) \subseteq allocated
    BY <2>1 DEF Held
  <2> QED
    BY <2>1, <2>2, <2>3, <2>4, <2>5 DEF NoDangling, Held
<1>3. NoLeak
  <2>1. LiveChunks = UsedChunks
    BY LiveUsed
  <2>2. Alive => Held
    BY DEF IInv
  <2>3. wpc = "dead" => allocated = {}
    BY DEF IInv
  <2> QED
    BY <2>1, <2>2, <2>3 DEF NoLeak, Held
<1> QED
  BY <1>1, <1>2, <1>3 DEF MemorySafe, CellIdentity, NoDangling

(* Init establishes the invariant. *)
LEMMA InitInvariant == Init => IInv
<1> SUFFICES ASSUME Init PROVE IInv
  OBVIOUS
<1>1. PICK k \in Chunk :
         /\ allocated = {k}
         /\ next = [x \in Chunk |-> NULL]
         /\ prev = [x \in Chunk |-> NULL]
         /\ spare_chunk = NULL
         /\ begin = <<k, 0>> /\ back = <<NULL, 0>> /\ end = <<k, 0>>
         /\ wpc = "idle" /\ sc = NULL
         /\ rpc = "idle" /\ o = NULL
         /\ addr = <<>> /\ front = 0 /\ flushed = 0
  BY DEF Init
<1>2. N \in Nat /\ N >= 1 /\ NULL \notin Chunk
  BY YQueueAssumption
<1>3. addr \in Seq(Cell) /\ Len(addr) = 0
  BY <1>1, EmptySeq
<1>4. Used = {}
  BY <1>1, <1>3 DEF Used
<1>5. TypeOK
  <2>1. 0 \in 0 .. N
    BY <1>2
  <2> QED
    BY <1>1, <1>3, <2>1 DEF TypeOK, Cell
<1>6. Chain
  BY <1>4 DEF Chain
<1>7. AtBack /\ AtFront
  BY <1>1, <1>4 DEF AtBack, AtFront
<1>8. Held
  BY <1>1, <1>2, <1>4 DEF Held, UsedChunks
<1>9. Hands
  BY <1>1 DEF Hands
<1> QED
  BY <1>1, <1>5, <1>6, <1>7, <1>8, <1>9 DEF IInv

(* The steps that leave the cells where they are. *)
LEMMA PushTakeSpareKeeps == IInv /\ PushTakeSpare => IInv'
<1> SUFFICES ASSUME IInv, PushTakeSpare PROVE IInv'
  OBVIOUS
<1>0. TypeOK /\ Chain /\ AtBack /\ Hands /\ Alive /\ AtFront /\ Held
  BY DEF IInv, PushTakeSpare, Alive
<1>1. TypeOK'
  BY <1>0 DEF TypeOK, PushTakeSpare
<1>2. Chain' /\ (UsedChunks = UsedChunks')
  BY <1>0 DEF Chain, After, Used, UsedChunks, PushTakeSpare
<1>3. AtBack'
  BY <1>0 DEF AtBack, After, Used, PushTakeSpare
<1>4. AtFront'
  BY <1>0 DEF AtFront, Used, PushTakeSpare
<1>5. sc = NULL
  BY <1>0 DEF Hands, PushTakeSpare
<1>6. Held'
  BY <1>0, <1>2, <1>5 DEF Held, PushTakeSpare
<1>7. Hands'
  BY <1>0 DEF Hands, PushTakeSpare
<1> QED
  BY <1>1, <1>2, <1>3, <1>4, <1>6, <1>7 DEF IInv, PushTakeSpare

LEMMA FlushKeeps == IInv /\ Flush => IInv'
<1> SUFFICES ASSUME IInv, Flush PROVE IInv'
  OBVIOUS
<1>0. TypeOK /\ Chain /\ AtBack /\ Hands /\ Alive /\ AtFront /\ Held
  BY DEF IInv, Flush, Alive
<1>1. /\ Len(addr) \in Nat /\ front \in Nat /\ flushed' \in Nat
      /\ front <= flushed' /\ flushed' < Len(addr)
  BY <1>0, Places DEF AtBack, Flush
<1>2. TypeOK'
  BY <1>0, <1>1 DEF TypeOK, Flush
<1>3. Chain' /\ (UsedChunks = UsedChunks')
  BY <1>0 DEF Chain, After, Used, UsedChunks, Flush
<1>4. AtBack'
  BY <1>0, <1>1 DEF AtBack, After, Used, Flush
<1>5. AtFront' /\ Held' /\ Hands'
  BY <1>0, <1>3 DEF AtFront, Used, Held, Hands, Flush
<1> QED
  BY <1>2, <1>3, <1>4, <1>5 DEF IInv, Flush

LEMMA PopRecycleKeeps == IInv /\ PopRecycle => IInv'
<1> SUFFICES ASSUME IInv, PopRecycle PROVE IInv'
  OBVIOUS
<1>0. TypeOK /\ Chain /\ AtBack /\ Hands /\ Alive /\ AtFront /\ Held
  BY DEF IInv, PopRecycle, Alive, Hands
<1>1. TypeOK'
  BY <1>0 DEF TypeOK, PopRecycle
<1>2. Chain' /\ (UsedChunks = UsedChunks')
  BY <1>0 DEF Chain, After, Used, UsedChunks, PopRecycle
<1>3. AtBack'
  BY <1>0 DEF AtBack, After, Used, PopRecycle
<1>4. AtFront'
  BY <1>0 DEF AtFront, Used, PopRecycle
<1>5. NULL \notin UsedChunks
  BY <1>0, Places DEF UsedChunks, AtFront
<1>6. Held'
  BY <1>0, <1>2, <1>5 DEF Held, PopRecycle
<1>7. Hands'
  BY <1>0 DEF Hands, PopRecycle
<1> QED
  BY <1>0, <1>1, <1>2, <1>3, <1>4, <1>6, <1>7 DEF IInv, Alive, PopRecycle

LEMMA StutterKeeps == IInv /\ UNCHANGED vars => IInv'
<1> SUFFICES ASSUME IInv, UNCHANGED vars PROVE IInv'
  OBVIOUS
<1>1. Destroying => Destroying'
  BY DEF Destroying, vars
<1>2. Used = Used'
  BY DEF Used, vars
<1>3. TypeOK' /\ Chain' /\ AtBack' /\ Hands'
  BY <1>2 DEF IInv, TypeOK, Chain, AtBack, After, Hands, vars
<1>4. Alive' => AtFront' /\ Held'
  BY SMTT(30), <1>2 DEF IInv, Alive, AtFront, Held, UsedChunks, vars
<1> QED
  BY <1>1, <1>3, <1>4 DEF IInv, vars

(* The end cell belongs to nobody yet: push may take it.                   *)
LEMMA EndCell ==
  ASSUME TypeOK, Chain, AtBack, wpc \notin {"grow", "link"}
  PROVE  /\ end[2] \in 0 .. N - 1
         /\ addr # <<>> => After(addr[Len(addr)], end)
<1>1. CASE addr = <<>>
  BY <1>1, Places DEF AtBack
<1>2. CASE addr # <<>>
  <2>1. After(back, end) /\ back = addr[Len(addr)]
    BY <1>2 DEF AtBack
  <2>2. back[2] \in 0 .. N - 1 /\ N \in Nat /\ N >= 1
    BY <1>2, Places
  <2>3. CASE back[2] = N - 1
    BY <2>1, <2>2, <2>3 DEF After
  <2>4. CASE back[2] # N - 1
    <3>1. end[2] = back[2] + 1
      BY <2>1, <2>4 DEF After
    <3> QED
      BY <2>1, <2>2, <2>4, <3>1
  <2> QED
    BY <2>3, <2>4
<1> QED
  BY <1>1, <1>2

LEMMA PushCellKeeps == IInv /\ PushCell => IInv'
<1> SUFFICES ASSUME IInv, PushCell PROVE IInv'
  OBVIOUS
<1> DEFINE L == Len(addr)
<1>0. TypeOK /\ Chain /\ AtBack /\ Hands /\ Alive /\ AtFront /\ Held
  BY DEF IInv, PushCell, Alive
<1>a. /\ back' = end /\ end' = <<end[1], end[2] + 1>>
      /\ wpc = "idle" /\ wpc' = IF end[2] + 1 # N THEN "idle" ELSE "grow"
      /\ UNCHANGED <<allocated, next, prev, spare_chunk, begin, sc, rpc, o, front, flushed>>
  BY DEF PushCell
<1>b. /\ N \in Nat /\ N >= 1 /\ front \in Nat /\ flushed \in Nat /\ L \in Nat
      /\ end[1] \in Chunk /\ end = <<end[1], end[2]>>
  BY <1>0, Places
<1>c. end[2] \in 0 .. N - 1 /\ (addr # <<>> => After(addr[L], end))
  BY <1>0, <1>a, EndCell
<1>d. /\ addr' \in Seq(Cell) /\ Len(addr') = L + 1 /\ addr' # <<>>
      /\ addr'[L + 1] = end
      /\ \A i \in 1 .. L : addr'[i] = addr[i]
  <2>1. addr' = Append(addr, end) /\ addr \in Seq(Cell) /\ end \in Cell
    BY <1>0 DEF PushCell, TypeOK
  <2> QED
    BY <2>1, AppendProperties, EmptySeq
<1>e. /\ Used' = Used \cup {L + 1} /\ front <= L
      /\ \A i \in Used : i \in 1 .. L /\ i < L + 1 /\ addr'[i] = addr[i]
      /\ addr # <<>> => L \in Used /\ front + 1 \in Used /\ L >= 1
      /\ addr = <<>> => L = 0 /\ Used = {} /\ front = 0
  <2>1. addr = <<>> <=> L = 0
    BY <1>0, Places
  <2>2. front <= L
    BY <1>0, <1>b, <2>1 DEF AtBack
  <2>3. Used' = front + 1 .. L + 1 /\ Used = front + 1 .. L
    BY <1>a, <1>d DEF Used
  <2>4. Used' = Used \cup {L + 1}
    BY <1>b, <2>2, <2>3
  <2>5. addr # <<>> => front < L
    BY <1>0, <1>b DEF AtBack
  <2>6. addr = <<>> => front = 0
    BY <1>0 DEF AtBack
  <2>7. \A i \in Used : i \in 1 .. L
    BY <1>0, Places
  <2> HIDE DEF L
  <2>8. \A i \in Used : i < L + 1 /\ addr'[i] = addr[i]
    BY <1>b, <1>d, <2>7
  <2>9. addr # <<>> => L \in Used /\ front + 1 \in Used /\ L >= 1
    BY <1>b, <2>3, <2>5
  <2>10. addr = <<>> => L = 0 /\ Used = {} /\ front = 0
    BY <2>1, <2>3, <2>6
  <2> QED
    BY <2>2, <2>4, <2>7, <2>8, <2>9, <2>10
<1> HIDE DEF L
<1>1. TypeOK'
  <2>1. end' \in Cell /\ back' \in Cell
    BY <1>0, <1>a, <1>b, <1>c DEF Cell, TypeOK
  <2> QED
    BY <1>0, <1>a, <1>d, <2>1 DEF TypeOK
<1>2. Chain'
  <2>1. \A i \in Used' : addr'[i][1] \in Chunk /\ addr'[i][2] \in 0 .. N - 1
    BY <1>0, <1>b, <1>c, <1>d, <1>e DEF Chain
  <2>2. ASSUME NEW i \in Used', NEW j \in Used', j = i + 1
        PROVE  After(addr[i], addr'[j]) /\ addr'[i] = addr[i]
    <3>1. i \in Used
      BY <1>b, <1>e, <2>2 DEF Used
    <3>2. CASE j \in Used
      BY <1>0, <1>e, <2>2, <3>1, <3>2, Followed
    <3>3. CASE j = L + 1
      <4>1. i = L /\ addr # <<>>
        BY <1>b, <1>e, <2>2, <3>1, <3>3
      <4> QED
        BY <1>c, <1>d, <1>e, <3>1, <3>3, <4>1
    <3> QED
      BY <1>e, <3>2, <3>3
  <2>3. ASSUME NEW i \in Used', NEW j \in Used', i < j, addr'[i][1] = addr'[j][1]
        PROVE  /\ addr'[i][2] < addr'[j][2]
               /\ \A k \in Used' : i < k /\ k < j => addr'[k][1] = addr'[j][1]
    <3>1. i \in Used
      BY SMTT(30), <1>b, <1>e, <2>3 DEF Used
    <3>2. CASE j \in Used
      <4>1. \A k \in Used' : i < k /\ k < j => k \in Used
        BY <1>b, <1>e, <3>2 DEF Used
      <4> QED
        BY <1>0, <1>e, <2>3, <3>1, <3>2, <4>1, Together
    <3>3. CASE j = L + 1
      <4>1. addr[i][1] = end[1] /\ addr'[j] = end
        BY <1>d, <1>e, <2>3, <3>1, <3>3
      <4>2. addr[i][2] < end[2]
        BY <1>0, <3>1, <4>1 DEF AtBack
      <4>3. ASSUME NEW k \in Used', i < k, k < j PROVE addr'[k][1] = end[1]
        <5>1. k \in Used /\ L \in Used /\ addr # <<>> /\ i < L
          BY <1>b, <1>e, <3>1, <3>3, <4>3 DEF Used
        <5>2. addr[L][1] = end[1]
          <6>1. end[2] # 0
            BY <1>0, <3>1, <4>2, <1>c, Places
          <6> QED
            BY <1>c, <5>1, <6>1 DEF After
        <5>3. k < L \/ k = L
          BY <1>b, <1>e, <5>1
        <5>4. k < L => addr[k][1] = addr[L][1]
          BY <1>0, <3>1, <4>1, <4>3, <5>1, <5>2, Together
        <5> QED
          BY <1>e, <5>1, <5>2, <5>3, <5>4
      <4> QED
        BY <1>e, <3>1, <4>1, <4>2, <4>3
    <3> QED
      BY <1>e, <3>2, <3>3
  <2>4. \A i, j \in Used' : j = i + 1 => After(addr[i], addr[j])'
    BY <1>a, <2>2 DEF After
  <2> QED
    BY <2>1, <2>3, <2>4 DEF Chain
<1>3. AtBack'
  <2>1. front' <= flushed' /\ flushed' < Len(addr')
    BY <1>0, <1>a, <1>b, <1>d, <1>e DEF AtBack, L
  <2>2. IF wpc' \in {"grow", "link"} THEN back'[2] = N - 1 /\ end' = <<back'[1], N>>
                                      ELSE After(back, end)'
    <3>1. CASE end[2] + 1 = N
      <4>1. end[2] = N - 1
        BY <1>b, <1>c, <3>1
      <4> QED
        BY <1>a, <3>1, <4>1
    <3>2. CASE end[2] + 1 # N
      <4>1. end[2] # N - 1
        BY <1>b, <1>c, <3>2
      <4> QED
        BY <1>a, <3>2, <4>1 DEF After
    <3> QED
      BY <3>1, <3>2
  <2>3. ASSUME NEW i \in Used', addr'[i][1] = end'[1] PROVE addr'[i][2] < end'[2]
    <3>1. end'[1] = end[1] /\ end'[2] = end[2] + 1 /\ end[2] \in Nat
      BY <1>a, <1>b, <1>c
    <3>2. CASE i \in Used
      <4>1. addr[i][2] < end[2] /\ addr[i][2] \in 0 .. N - 1
        BY <1>0, <1>e, <2>3, <3>1, <3>2, Places DEF AtBack
      <4> QED
        BY <1>b, <1>e, <3>1, <3>2, <4>1
    <3>3. CASE i = L + 1
      BY <1>d, <3>1, <3>3
    <3> QED
      BY <1>e, <3>2, <3>3
  <2>4. back' = addr'[Len(addr')] /\ addr' # <<>> /\ end'[1] \in Chunk
    BY <1>a, <1>b, <1>d
  <2> QED
    BY <2>1, <2>2, <2>3, <2>4 DEF AtBack
<1>4. AtFront'
  <2>1. CASE addr = <<>>
    BY <1>0, <1>a, <1>d, <1>e, <2>1 DEF AtFront
  <2>2. CASE addr # <<>>
    <3>1. addr'[front + 1] = addr[front + 1]
      BY <1>e, <2>2
    <3>2. rpc = "advance" => \A i \in Used' : addr'[i][1] # begin[1]
      BY <1>0, <1>d, <1>e, <2>2 DEF AtFront
    <3> QED
      BY <1>0, <1>a, <1>d, <2>2, <3>1, <3>2 DEF AtFront
  <2> QED
    BY <2>1, <2>2
<1>5. UsedChunks' = UsedChunks
  BY <1>a, <1>d, <1>e DEF UsedChunks
<1>6. Held'
  BY <1>0, <1>a, <1>5 DEF Held
<1>7. Hands'
  BY <1>0, <1>a DEF Hands
<1>8. wpc' \in {"idle", "grow"}
  BY <1>a
<1> QED
  BY <1>1, <1>2, <1>3, <1>4, <1>6, <1>7, <1>8 DEF IInv

(* The chunk that push links is not one of the queue's: it was the spare,  *)
(* or was free.                                                            *)
LEMMA PushLinkKeeps == IInv /\ PushLink => IInv'
<1> SUFFICES ASSUME IInv, PushLink PROVE IInv'
  OBVIOUS
<1> DEFINE L == Len(addr)
<1>0. TypeOK /\ Chain /\ AtBack /\ Hands /\ Alive /\ AtFront /\ Held
  BY DEF IInv, PushLink, Alive
<1>a. PICK k \in IF sc # NULL THEN {sc} ELSE Chunk \ allocated :
        /\ allocated' = allocated \cup {k}
        /\ next' = [next EXCEPT ![end[1]] = k]
        /\ prev' = [prev EXCEPT ![k] = end[1]]
        /\ end' = <<k, 0>>
  BY DEF PushLink
<1>b. /\ wpc = "link" /\ wpc' = "idle" /\ sc' = NULL
      /\ UNCHANGED <<spare_chunk, begin, back, rpc, o, addr, front, flushed>>
  BY DEF PushLink
<1>c. /\ N \in Nat /\ N >= 1 /\ NULL \notin Chunk
      /\ end[1] \in Chunk
      /\ next \in [Chunk -> Chunk \cup {NULL}] /\ prev \in [Chunk -> Chunk \cup {NULL}]
      /\ \A i \in Used : i \in 1 .. L /\ addr[i][1] \in Chunk /\ addr[i][2] \in 0 .. N - 1
  BY <1>0, Places DEF TypeOK
<1>d. /\ addr # <<>> /\ L \in Used /\ L \in Nat /\ back = addr[L]
      /\ back[1] = end[1] /\ back[2] = N - 1
  <2>1. addr # <<>>
    BY <1>0, <1>b DEF AtBack
  <2>2. back[2] = N - 1 /\ end = <<back[1], N>>
    BY <1>0, <1>b, <2>1 DEF AtBack
  <2> QED
    BY <1>0, <2>1, <2>2, Places DEF AtBack
<1>e. /\ k \in Chunk
      /\ k \notin UsedChunks
      /\ k \notin {spare_chunk, o}
      /\ allocated' = UsedChunks \cup {k} \cup ({spare_chunk, o} \ {NULL})
  <2>1. CASE sc # NULL
    <3>1. k = sc /\ sc \in Chunk
      BY <1>0, <1>a, <2>1 DEF TypeOK
    <3> QED
      BY <1>0, <1>a, <1>c, <2>1, <3>1 DEF Held
  <2>2. CASE sc = NULL
    <3>1. k \in Chunk /\ k \notin allocated
      BY <1>a, <2>2
    <3> QED
      BY <1>0, <1>a, <1>c, <2>2, <3>1 DEF Held
  <2> QED
    BY <2>1, <2>2
<1>f. /\ Used' = Used
      /\ \A i \in Used : addr[i][1] # k
      /\ begin[1] # k /\ end[1] # k
  BY <1>b, <1>e DEF Used, UsedChunks
<1>g. /\ next'[end[1]] = k /\ prev'[k] = end[1]
      /\ \A c \in Chunk : c # end[1] => next'[c] = next[c]
      /\ \A c : c # k /\ c \in Chunk => prev'[c] = prev[c]
  BY <1>a, <1>c, <1>e
<1> HIDE DEF L
<1>1. TypeOK'
  <2>1. allocated' \subseteq Chunk
    BY <1>0, <1>a, <1>e DEF TypeOK
  <2>2. next' \in [Chunk -> Chunk \cup {NULL}] /\ prev' \in [Chunk -> Chunk \cup {NULL}]
    BY <1>a, <1>c, <1>e
  <2>3. end' \in Cell
    BY <1>a, <1>c, <1>e DEF Cell
  <2> QED
    BY <1>0, <1>b, <2>1, <2>2, <2>3 DEF TypeOK
<1>2. Chain'
  <2>1. ASSUME NEW i \in Used, NEW j \in Used, j = i + 1
        PROVE  After(addr[i], addr[j])'
    <3>1. After(addr[i], addr[j])
      BY <1>0, <2>1, Followed
    <3>2. CASE addr[i][2] = N - 1
      <4>1. i < L
        <5>1. i \in 1 .. L /\ j \in 1 .. L
          BY <1>c
        <5> QED
          BY <1>d, <2>1, <5>1
      <4>2. addr[i][1] # end[1]
        <5> SUFFICES ASSUME addr[i][1] = addr[L][1] PROVE FALSE
          BY <1>d
        <5>1. addr[i][2] < addr[L][2]
          BY <1>0, <1>d, <4>1, Together
        <5> QED
          BY <1>c, <1>d, <3>2, <5>1
      <4>3. next'[addr[i][1]] = next[addr[i][1]] /\ prev'[addr[j][1]] = prev[addr[j][1]]
        BY <1>c, <1>f, <1>g, <4>2
      <4> QED
        BY <1>b, <3>1, <3>2, <4>3 DEF After
    <3>3. CASE addr[i][2] # N - 1
      BY <1>b, <3>1, <3>3 DEF After
    <3> QED
      BY <3>2, <3>3
  <2>2. \A i, j \in Used : i < j /\ addr[i][1] = addr[j][1] =>
          /\ addr[i][2] < addr[j][2]
          /\ \A m \in Used : i < m /\ m < j => addr[m][1] = addr[j][1]
    BY <1>0, Together
  <2> QED
    BY <1>b, <1>c, <1>f, <2>1, <2>2 DEF Chain
<1>3. AtBack'
  <2>1. After(back, end)'
    BY <1>a, <1>b, <1>d, <1>g DEF After
  <2>2. front <= flushed /\ flushed < Len(addr)
    BY <1>0, <1>d DEF AtBack
  <2>3. end'[1] = k
    BY <1>a
  <2> QED
    BY <1>b, <1>d, <1>e, <1>f, <2>1, <2>2, <2>3 DEF AtBack, L
<1>4. AtFront'
  <2>1. rpc = "advance" => next'[begin[1]] = next[begin[1]]
    BY <1>0, <1>d, <1>g DEF AtFront
  <2>2. end'[1] = k
    BY <1>a
  <2> QED
    BY <1>0, <1>b, <1>d, <1>f, <2>1, <2>2 DEF AtFront
<1>5. UsedChunks' = UsedChunks \cup {k}
  <2>1. UsedChunks' = {addr[i][1] : i \in Used} \cup {begin[1], k}
    BY <1>a, <1>b, <1>f DEF UsedChunks
  <2>2. end[1] \in {addr[i][1] : i \in Used}
    BY <1>d
  <2> QED
    BY <2>1, <2>2 DEF UsedChunks
<1>6. Held'
  <2>1. {spare_chunk, sc', o} \ {NULL} = {spare_chunk, o} \ {NULL}
    BY <1>b
  <2>2. NULL \notin UsedChunks'
    BY <1>0, <1>c, <1>e, <1>5 DEF Held, TypeOK, UsedChunks, AtFront
  <2>3. {spare_chunk, o} \cap UsedChunks = {}
    BY <1>0 DEF Held
  <2>4. spare_chunk # NULL => spare_chunk # o
    BY <1>0 DEF Held
  <2> QED
    BY <1>b, <1>e, <1>5, <2>1, <2>2, <2>3, <2>4 DEF Held
<1>7. Hands'
  BY <1>0, <1>b DEF Hands
<1> QED
  BY <1>b, <1>1, <1>2, <1>3, <1>4, <1>6, <1>7 DEF IInv

(* unpush returns to the cell before the last one, and frees the chunk of  *)
(* the end cell when that was its only cell.                               *)
LEMMA UnpushKeeps == IInv /\ unpush => IInv'
<1> SUFFICES ASSUME IInv, unpush PROVE IInv'
  OBVIOUS
<1> DEFINE L == Len(addr)
<1>0. TypeOK /\ Chain /\ AtBack /\ Hands /\ Alive /\ AtFront /\ Held
  BY DEF IInv, unpush, Alive
<1>a. /\ wpc = "idle" /\ L > flushed + 1
      /\ back' = IF back[2] > 0 THEN <<back[1], back[2] - 1>> ELSE <<prev[back[1]], N - 1>>
      /\ UNCHANGED <<prev, spare_chunk, begin, wpc, sc, rpc, o, front, flushed>>
  BY DEF unpush
<1>b. IF end[2] > 0
        THEN /\ end' = <<end[1], end[2] - 1>>
             /\ UNCHANGED <<allocated, next>>
        ELSE /\ end' = <<prev[end[1]], N - 1>>
             /\ allocated' = allocated \ {next[prev[end[1]]]}
             /\ next' = [next EXCEPT ![prev[end[1]]] = NULL]
  BY DEF unpush
<1>c. /\ N \in Nat /\ N >= 1 /\ NULL \notin Chunk
      /\ front \in Nat /\ flushed \in Nat /\ L \in Nat
      /\ end = <<end[1], end[2]>> /\ end[1] \in Chunk /\ end[2] \in 0 .. N
      /\ next \in [Chunk -> Chunk \cup {NULL}]
  BY <1>0, Places DEF TypeOK
<1>d. /\ addr # <<>> /\ front <= flushed /\ back = addr[L]
      /\ L \in Used /\ L - 1 \in Used /\ (L - 1) + 1 = L /\ L - 1 < L
      /\ front + 1 \in Used /\ L - 1 >= 1 /\ front + 1 <= L - 1
  <2>1. addr # <<>>
    BY <1>0, <1>a, <1>c, Places
  <2>2. front <= flushed /\ back = addr[L]
    BY <1>0, <2>1 DEF AtBack
  <2> QED
    BY <1>a, <1>c, <2>1, <2>2 DEF Used
<1>e. /\ addr' \in Seq(Cell) /\ Len(addr') = L - 1 /\ addr' # <<>>
      /\ \A i \in 1 .. L - 1 : addr'[i] = addr[i]
  <2>1. addr' = SubSeq(addr, 1, L - 1) /\ addr \in Seq(Cell)
    BY <1>0 DEF unpush, TypeOK
  <2>2. L - 1 \in Nat /\ L - 1 <= L
    BY <1>c, <1>d
  <2>3. \A i \in 1 .. L - 1 : addr[i] \in Cell
    BY <1>c, <2>1, ElementOfSeq
  <2> HIDE DEF L
  <2>4. /\ SubSeq(addr, 1, L - 1) \in Seq(Cell)
        /\ Len(SubSeq(addr, 1, L - 1)) = IF 1 <= L - 1 THEN (L - 1) - 1 + 1 ELSE 0
        /\ \A i \in 1 .. (L - 1) - 1 + 1 : SubSeq(addr, 1, L - 1)[i] = addr[1 + i - 1]
    BY <2>1, <2>2, <2>3, SubSeqProperties
  <2>5. Len(addr') = L - 1 /\ addr' \in Seq(Cell)
    BY <1>d, <2>1, <2>2, <2>4
  <2>6. addr' # <<>>
    BY <1>d, <2>2, <2>5, EmptySeq
  <2>7. ASSUME NEW i \in 1 .. L - 1 PROVE addr'[i] = addr[i]
    <3>1. i \in 1 .. (L - 1) - 1 + 1 /\ 1 + i - 1 = i
      BY <2>2
    <3> QED
      BY <2>1, <2>4, <3>1
  <2> QED
    BY <2>5, <2>6, <2>7
<1>f. /\ Used = Used' \cup {L} /\ L \notin Used' /\ front + 1 \in Used' /\ L - 1 \in Used'
      /\ \A i \in Used' : i \in Used /\ i < L /\ addr'[i] = addr[i]
  <2>1. Used = front + 1 .. L /\ Used' = front + 1 .. L - 1
    BY <1>a, <1>e DEF Used
  <2> HIDE DEF L
  <2>2. Used = Used' \cup {L} /\ L \notin Used' /\ front + 1 \in Used' /\ L - 1 \in Used'
    BY <1>c, <1>d, <2>1
  <2>3. \A i \in Used' : i \in Used /\ i < L /\ i \in 1 .. L - 1
    BY <1>c, <1>d, <2>1
  <2> QED
    BY <1>e, <2>2, <2>3
<1>g. /\ \A i \in Used : /\ addr[i] = <<addr[i][1], addr[i][2]>>
                          /\ addr[i][1] \in Chunk /\ addr[i][2] \in 0 .. N - 1
      /\ After(addr[L - 1], addr[L]) /\ After(addr[L], end)
  <2>1. After(addr[L - 1], addr[L])
    BY <1>0, <1>d, Followed
  <2>2. After(addr[L], end)
    BY <1>0, <1>a, <1>d DEF AtBack
  <2> QED
    BY <1>0, <2>1, <2>2, Places
<1> HIDE DEF L
(* Both ends step back to a cell of the queue. *)
<1>h. back' = addr[L - 1]
  <2> DEFINE c == addr[L - 1]
             d == addr[L]
  <2>1. c[2] \in 0 .. N - 1 /\ c = <<c[1], c[2]>> /\ After(c, d) /\ back = d
    BY <1>d, <1>g
  <2> HIDE DEF c, d
  <2>2. CASE c[2] = N - 1
    <3>1. d = <<next[c[1]], 0>> /\ prev[d[1]] = c[1]
      BY <2>1, <2>2 DEF After
    <3>2. back' = <<prev[d[1]], N - 1>>
      BY <1>a, <2>1, <3>1
    <3> QED
      BY <2>1, <2>2, <3>1, <3>2 DEF c
  <2>3. CASE c[2] # N - 1
    <3>1. d = <<c[1], c[2] + 1>>
      BY <2>1, <2>3 DEF After
    <3>2. c[2] + 1 > 0 /\ (c[2] + 1) - 1 = c[2]
      BY <1>c, <2>1
    <3>3. back' = <<c[1], (c[2] + 1) - 1>>
      BY <1>a, <2>1, <3>1, <3>2
    <3> QED
      BY <2>1, <3>2, <3>3 DEF c
  <2> QED
    BY <2>2, <2>3
<1>i. /\ end' = addr[L]
      /\ end[2] # 0 => /\ end[1] = addr[L][1]
                       /\ allocated' = allocated /\ next' = next
      /\ end[2] = 0 => /\ end[1] = next[addr[L][1]] /\ addr[L][2] = N - 1
                       /\ allocated' = allocated \ {end[1]}
                       /\ next' = [next EXCEPT ![addr[L][1]] = NULL]
  <2> DEFINE d == addr[L]
  <2>1. d[2] \in 0 .. N - 1 /\ d = <<d[1], d[2]>> /\ After(d, end)
    BY <1>d, <1>g
  <2> HIDE DEF d
  <2>2. CASE d[2] = N - 1
    <3>1. end = <<next[d[1]], 0>> /\ prev[end[1]] = d[1]
      BY <2>1, <2>2 DEF After
    <3>2. end[2] = 0
      BY <3>1
    <3>3. /\ end' = <<d[1], N - 1>>
          /\ allocated' = allocated \ {end[1]}
          /\ next' = [next EXCEPT ![d[1]] = NULL]
      BY <1>b, <3>1, <3>2
    <3> QED
      BY <2>1, <2>2, <3>1, <3>2, <3>3 DEF d
  <2>3. CASE d[2] # N - 1
    <3>1. end = <<d[1], d[2] + 1>>
      BY <2>1, <2>3 DEF After
    <3>2. d[2] + 1 > 0 /\ (d[2] + 1) - 1 = d[2]
      BY <1>c, <2>1
    <3>3. end[1] = d[1] /\ end[2] = d[2] + 1
      BY <3>1
    <3>4. end' = <<d[1], (d[2] + 1) - 1>> /\ UNCHANGED <<allocated, next>>
      BY <1>b, <3>2, <3>3
    <3> QED
      BY <2>1, <3>2, <3>3, <3>4 DEF d
  <2> QED
    BY <2>2, <2>3
(* The link that is cut starts at the chunk of the last cell of addr. *)
<1>j. ASSUME NEW c \in Chunk, c # addr[L][1] \/ end[2] # 0
      PROVE  next'[c] = next[c]
  <2>1. CASE end[2] # 0
    BY <1>i, <2>1
  <2>2. CASE end[2] = 0
    BY <1>c, <1>i, <1>j, <2>2
  <2> QED
    BY <2>1, <2>2
<1>k. ASSUME NEW i \in Used', addr[i][2] = N - 1
      PROVE  addr[i][1] # addr[L][1]
  <2> SUFFICES ASSUME addr[i][1] = addr[L][1] PROVE FALSE
    OBVIOUS
  <2>1. addr[i][2] < addr[L][2]
    BY <1>0, <1>d, <1>f, Together
  <2> QED
    BY <1>c, <1>d, <1>g, <1>k, <2>1
<1>1. TypeOK'
  <2>1. end' \in Cell /\ back' \in Cell
    <3>1. \A i \in Used : addr[i] \in Cell
      BY <1>c, <1>g DEF Cell
    <3> QED
      BY <1>d, <1>h, <1>i, <3>1
  <2>2. allocated' \subseteq Chunk /\ next' \in [Chunk -> Chunk \cup {NULL}]
    BY <1>0, <1>c, <1>i DEF TypeOK
  <2> QED
    BY <1>0, <1>a, <1>e, <2>1, <2>2 DEF TypeOK
<1>2. Chain'
  <2>1. ASSUME NEW i \in Used', NEW j \in Used', j = i + 1
        PROVE  After(addr[i], addr[j])'
    <3>1. After(addr[i], addr[j])
      BY <1>0, <1>f, <2>1, Followed
    <3>2. addr[i][2] = N - 1 => next'[addr[i][1]] = next[addr[i][1]]
      BY <1>f, <1>g, <1>j, <1>k
    <3>3. addr'[i] = addr[i] /\ addr'[j] = addr[j]
      BY <1>f
    <3> QED
      BY <1>a, <3>1, <3>2, <3>3 DEF After
  <2>2. ASSUME NEW i \in Used', NEW j \in Used', i < j, addr'[i][1] = addr'[j][1]
        PROVE  /\ addr'[i][2] < addr'[j][2]
               /\ \A m \in Used' : i < m /\ m < j => addr'[m][1] = addr'[j][1]
    BY <1>0, <1>f, <2>2, Together
  <2>3. \A i \in Used' : addr'[i][1] \in Chunk /\ addr'[i][2] \in 0 .. N - 1
    BY <1>f, <1>g
  <2> QED
    BY <2>1, <2>2, <2>3 DEF Chain
<1>3. AtBack'
  <2>1. After(back, end)'
    <3>1. addr[L - 1][2] = N - 1 => next'[addr[L - 1][1]] = next[addr[L - 1][1]]
      BY <1>d, <1>f, <1>g, <1>j, <1>k
    <3> QED
      BY <1>a, <1>g, <1>h, <1>i, <3>1 DEF After
  <2>2. back' = addr'[Len(addr')]
    BY <1>e, <1>f, <1>h
  <2>3. flushed < L - 1
    BY <1>a, <1>c
  <2>4. ASSUME NEW i \in Used', addr'[i][1] = end'[1] PROVE addr'[i][2] < end'[2]
    BY <1>0, <1>d, <1>f, <1>i, <2>4, Together
  <2> QED
    BY <1>a, <1>d, <1>e, <1>g, <1>i, <2>1, <2>2, <2>3, <2>4 DEF AtBack
<1>4. AtFront'
  <2>1. addr'[front + 1] = addr[front + 1]
    BY <1>f
  <2>2. CASE rpc # "advance"
    BY <1>0, <1>a, <1>d, <1>e, <2>1, <2>2 DEF AtFront
  <2>3. CASE rpc = "advance"
    <3>1. /\ begin[1] \in Chunk /\ begin[2] = N
          /\ addr[front + 1] = <<next[begin[1]], 0>>
          /\ \A i \in Used : addr[i][1] # begin[1]
      BY <1>0, <1>d, <2>3 DEF AtFront
    <3>2. begin[1] # addr[L][1]
      BY <1>d, <3>1
    <3>3. next'[begin[1]] = next[begin[1]]
      BY <1>j, <3>1, <3>2
    <3> QED
      BY <1>a, <1>e, <1>f, <1>i, <2>1, <2>3, <3>1, <3>2, <3>3 DEF AtFront
  <2> QED
    BY <2>2, <2>3
<1>5. /\ UsedChunks' = {addr[i][1] : i \in Used} \cup {begin[1]}
      /\ end[2] # 0 => UsedChunks' = UsedChunks
      /\ end[2] = 0 => UsedChunks = UsedChunks' \cup {end[1]} /\ end[1] \notin UsedChunks'
  <2>1. {addr'[i][1] : i \in Used'} = {addr[i][1] : i \in Used'}
    BY <1>f
  <2>2. {addr[i][1] : i \in Used} = {addr[i][1] : i \in Used'} \cup {addr[L][1]}
    BY <1>f
  <2>3. UsedChunks' = {addr[i][1] : i \in Used} \cup {begin[1]}
    BY <1>a, <1>i, <2>1, <2>2 DEF UsedChunks
  <2>4. end[2] # 0 => UsedChunks' = UsedChunks
    BY <1>i, <2>2, <2>3 DEF UsedChunks
  <2>5. ASSUME end[2] = 0 PROVE end[1] \notin UsedChunks'
    <3>1. \A i \in Used : addr[i][1] # end[1]
      BY <1>0, <1>c, <1>g, <2>5 DEF AtBack
    <3>2. begin[1] # end[1]
      BY <1>0, <1>d, <3>1 DEF AtFront
    <3> QED
      BY <2>3, <3>1, <3>2
  <2>6. UsedChunks = {addr[i][1] : i \in Used} \cup {begin[1], end[1]}
    BY DEF UsedChunks
  <2> QED
    BY <2>3, <2>4, <2>5, <2>6
<1>6. Held'
  <2>1. CASE end[2] # 0
    BY <1>0, <1>a, <1>i, <1>5, <2>1 DEF Held
  <2>2. CASE end[2] = 0
    <3>1. end[1] \notin {spare_chunk, sc, o}
      BY <1>0, <1>5, <2>2 DEF Held
    <3> QED
      BY <1>0, <1>a, <1>i, <1>5, <2>2, <3>1 DEF Held
  <2> QED
    BY <2>1, <2>2
<1>7. Hands'
  BY <1>0, <1>a DEF Hands
<1> QED
  BY <1>a, <1>1, <1>2, <1>3, <1>4, <1>6, <1>7 DEF IInv

(* pop leaves the front cell.  When that was the last of its chunk, the    *)
(* next live cell is the first of the chunk linked behind it.              *)
LEMMA PopCellKeeps == IInv /\ PopCell => IInv'
<1> SUFFICES ASSUME IInv, PopCell PROVE IInv'
  OBVIOUS
<1> DEFINE L == Len(addr)
           c == addr[front + 1]
           d == addr[front + 2]
<1>0. TypeOK /\ Chain /\ AtBack /\ Hands /\ Alive /\ AtFront /\ Held
  BY DEF IInv, PopCell, Alive, Hands
<1>a. /\ rpc = "idle" /\ front < flushed /\ front' = front + 1
      /\ begin' = <<begin[1], begin[2] + 1>>
      /\ rpc' = IF begin[2] + 1 = N THEN "advance" ELSE "idle"
      /\ UNCHANGED <<allocated, next, prev, spare_chunk, back, end, wpc, sc, o, addr, flushed>>
  BY DEF PopCell
<1>b. /\ N \in Nat /\ N >= 1 /\ front \in Nat /\ flushed \in Nat /\ L \in Nat
      /\ end[1] \in Chunk /\ end[2] \in 0 .. N
  BY <1>0, Places
<1>c. /\ addr # <<>> /\ begin = c /\ flushed < L
      /\ front + 1 \in Used /\ front + 2 \in Used /\ (front + 1) + 1 = front + 2
      /\ Used = Used' \cup {front + 1} /\ (front + 1) + 1 \in Used'
      /\ \A i \in Used' : i \in Used /\ front + 1 < i
      /\ L \in Used /\ front + 1 < L
  <2>1. addr # <<>>
    BY <1>0, <1>a, <1>b DEF AtBack
  <2>2. flushed < L /\ begin = c
    BY <1>0, <1>a, <2>1 DEF AtBack, AtFront
  <2>3. Used = front + 1 .. L /\ Used' = (front + 1) + 1 .. L
    BY <1>a DEF Used
  <2> HIDE DEF L
  <2> QED
    BY <1>a, <1>b, <2>1, <2>2, <2>3
<1>d. /\ c = <<c[1], c[2]>> /\ c[1] \in Chunk /\ c[2] \in 0 .. N - 1
      /\ After(c, d)
      /\ \A i \in Used : addr[i][1] \in Chunk /\ addr[i][2] \in 0 .. N - 1
  <2>1. After(c, d)
    BY <1>0, <1>c, Followed
  <2> QED
    BY <1>0, <1>c, <2>1, Places
<1>e. begin' = <<c[1], c[2] + 1>> /\ (rpc' = "advance" <=> c[2] = N - 1)
      /\ rpc' \in {"idle", "advance"}
  <2>1. begin' = <<c[1], c[2] + 1>> /\ rpc' = IF c[2] + 1 = N THEN "advance" ELSE "idle"
    BY <1>a, <1>c
  <2>2. c[2] + 1 = N <=> c[2] = N - 1
    BY <1>b, <1>d
  <2> QED
    BY <2>1, <2>2
<1> HIDE DEF L, c, d
<1>1. TypeOK'
  <2>1. c[2] + 1 \in 0 .. N
    BY <1>b, <1>d
  <2>2. begin' \in Cell
    BY <1>d, <1>e, <2>1 DEF Cell
  <2>3. front' \in Nat
    BY <1>a, <1>b
  <2> QED
    BY <1>0, <1>a, <1>e, <2>2, <2>3 DEF TypeOK
<1>2. Chain'
  <2>1. ASSUME NEW i \in Used', NEW j \in Used', j = i + 1
        PROVE  After(addr[i], addr[j])'
    <3>1. After(addr[i], addr[j])
      BY <1>0, <1>c, <2>1, Followed
    <3> QED
      BY <1>a, <3>1 DEF After
  <2>2. ASSUME NEW i \in Used', NEW j \in Used', i < j, addr[i][1] = addr[j][1]
        PROVE  /\ addr[i][2] < addr[j][2]
               /\ \A m \in Used' : i < m /\ m < j => addr[m][1] = addr[j][1]
    BY <1>0, <1>c, <2>2, Together
  <2> QED
    BY <1>a, <1>c, <1>d, <2>1, <2>2 DEF Chain
<1>3. AtBack'
  <2>1. front' <= flushed
    BY <1>a, <1>b
  <2>2. \A i \in Used' : addr[i][1] = end[1] => addr[i][2] < end[2]
    BY <1>0, <1>c DEF AtBack
  <2> QED
    BY <1>0, <1>a, <1>c, <2>1, <2>2 DEF AtBack, After
<1>4. AtFront'
  <2>1. CASE c[2] = N - 1
    <3>1. d = <<next[c[1]], 0>>
      BY <1>d, <2>1 DEF After
    <3>2. ASSUME NEW i \in Used' PROVE addr[i][1] # c[1]
      <4> SUFFICES ASSUME addr[i][1] = c[1] PROVE FALSE
        OBVIOUS
      <4>1. c[2] < addr[i][2]
        BY <1>0, <1>c, Together DEF c
      <4> QED
        BY <1>b, <1>c, <1>d, <2>1, <4>1
    <3>3. c[1] # end[1]
      <4> SUFFICES ASSUME c[1] = end[1] PROVE FALSE
        OBVIOUS
      <4>1. c[2] < end[2]
        BY <1>0, <1>c DEF AtBack, c
      <4>2. end[2] = N
        BY <1>b, <1>d, <2>1, <4>1
      <4>3. wpc \in {"grow", "link"}
        BY <1>0, <1>b, <4>2, EndCell
      <4>4. back[1] = end[1] /\ back = addr[L]
        BY <1>0, <1>c, <4>3 DEF AtBack, L
      <4>5. L \in Used'
        BY <1>b, <1>c
      <4> QED
        BY <3>2, <4>4, <4>5
    <3>4. rpc' = "advance" /\ begin' = <<c[1], N>>
      <4>1. (N - 1) + 1 = N
        BY <1>b
      <4> QED
        BY <1>e, <2>1, <4>1
    <3>5. addr'[front' + 1] = d
      BY <1>a, <1>c DEF d
    <3> QED
      BY <1>a, <1>c, <1>d, <3>1, <3>2, <3>3, <3>4, <3>5 DEF AtFront
  <2>2. CASE c[2] # N - 1
    <3>1. d = <<c[1], c[2] + 1>>
      BY <1>d, <2>2 DEF After
    <3>2. addr'[front' + 1] = d
      BY <1>a, <1>c DEF d
    <3> QED
      BY <1>a, <1>c, <1>e, <2>2, <3>1, <3>2 DEF AtFront
  <2> QED
    BY <2>1, <2>2
<1>5. UsedChunks' = UsedChunks
  <2>1. begin'[1] = begin[1] /\ begin[1] = addr[front + 1][1]
    BY <1>c, <1>e DEF c
  <2>2. UsedChunks' = {addr[i][1] : i \in Used'} \cup {begin[1], end[1]}
    BY <1>a, <2>1 DEF UsedChunks
  <2>3. {addr[i][1] : i \in Used} = {addr[i][1] : i \in Used'} \cup {begin[1]}
    BY <1>c, <2>1
  <2> QED
    BY <2>2, <2>3 DEF UsedChunks
<1>6. Held'
  BY <1>0, <1>a, <1>5 DEF Held
<1>7. Hands'
  BY <1>0, <1>a, <1>e DEF Hands
<1> QED
  BY <1>0, <1>a, <1>1, <1>2, <1>3, <1>4, <1>6, <1>7 DEF IInv, Alive

LEMMA PopAdvanceKeeps == IInv /\ PopAdvance => IInv'
<1> SUFFICES ASSUME IInv, PopAdvance PROVE IInv'
  OBVIOUS
<1> DEFINE c == addr[front + 1]
<1>0. TypeOK /\ Chain /\ AtBack /\ Hands /\ Alive /\ AtFront /\ Held
  BY DEF IInv, PopAdvance, Alive, Hands
<1>a. /\ rpc = "advance" /\ rpc' = "recycle" /\ o' = begin[1]
      /\ begin' = <<next[begin[1]], 0>>
      /\ prev' = [prev EXCEPT ![next[begin[1]]] = NULL]
      /\ UNCHANGED <<allocated, next, spare_chunk, back, end, wpc, sc, addr, front, flushed>>
  BY DEF PopAdvance
<1>b. /\ N \in Nat /\ N >= 1 /\ NULL \notin Chunk /\ front \in Nat /\ Len(addr) \in Nat
      /\ prev \in [Chunk -> Chunk \cup {NULL}] /\ end[1] \in Chunk
      /\ \A i \in Used : addr[i][1] \in Chunk /\ addr[i][2] \in 0 .. N - 1
  BY <1>0, Places DEF TypeOK
<1>c. /\ addr # <<>> /\ front + 1 \in Used
      /\ begin[1] \in Chunk /\ begin[1] # end[1]
      /\ c = <<next[begin[1]], 0>>
      /\ \A i \in Used : addr[i][1] # begin[1]
  <2>1. addr # <<>>
    BY <1>0, <1>a DEF AtFront
  <2> QED
    BY <1>0, <1>a, <2>1, Places DEF AtFront
<1>d. /\ Used' = Used /\ begin' = c
      /\ \A i \in Used : i \in front + 1 .. Len(addr)
  BY <1>a, <1>c DEF Used
<1>e. \A k \in Chunk : k # c[1] => prev'[k] = prev[k]
  BY <1>a, <1>b, <1>c
(* No other cell starts a chunk that is the front cell's. *)
<1>f. ASSUME NEW j \in Used, addr[j][2] = 0, front + 1 < j PROVE addr[j][1] # c[1]
  <2> SUFFICES ASSUME addr[j][1] = c[1] PROVE FALSE
    OBVIOUS
  <2>1. c[2] < addr[j][2]
    BY <1>0, <1>c, <1>f, Together
  <2> QED
    BY <1>c, <1>f, <2>1
<1>g. end[2] = 0 => end[1] # c[1]
  <2> SUFFICES ASSUME end[2] = 0, end[1] = c[1] PROVE FALSE
    OBVIOUS
  <2>1. c[2] < end[2]
    BY <1>0, <1>c DEF AtBack
  <2> QED
    BY <1>c, <2>1
<1> HIDE DEF c
<1>1. TypeOK'
  <2>1. c[1] \in Chunk /\ c \in Cell
    BY <1>b, <1>c DEF c, Cell
  <2>2. prev' \in [Chunk -> Chunk \cup {NULL}]
    BY <1>a, <1>b
  <2> QED
    BY <1>0, <1>a, <1>c, <1>d, <2>1, <2>2 DEF TypeOK
<1>2. Chain'
  <2>1. ASSUME NEW i \in Used, NEW j \in Used, j = i + 1
        PROVE  After(addr[i], addr[j])'
    <3>1. After(addr[i], addr[j])
      BY <1>0, <2>1, Followed
    <3>2. front + 1 < j
      <4>1. i \in front + 1 .. Len(addr)
        BY <1>d
      <4> QED
        BY <1>b, <2>1, <4>1
    <3>3. addr[i][2] = N - 1 => prev'[addr[j][1]] = prev[addr[j][1]]
      <4>1. addr[i][2] = N - 1 => addr[j][2] = 0
        BY <3>1 DEF After
      <4> QED
        BY <1>b, <1>e, <1>f, <3>2, <4>1
    <3> QED
      BY <1>a, <3>1, <3>3 DEF After
  <2>2. \A i, j \in Used : i < j /\ addr[i][1] = addr[j][1] =>
          /\ addr[i][2] < addr[j][2]
          /\ \A m \in Used : i < m /\ m < j => addr[m][1] = addr[j][1]
    BY <1>0, Together
  <2> QED
    BY <1>a, <1>b, <1>d, <2>1, <2>2 DEF Chain
<1>3. AtBack'
  <2>1. ASSUME After(back, end) PROVE After(back, end)'
    <3>1. back[2] = N - 1 => end[2] = 0
      BY <2>1 DEF After
    <3>2. back[2] = N - 1 => prev'[end[1]] = prev[end[1]]
      BY <1>b, <1>e, <1>g, <3>1
    <3> QED
      BY <1>a, <2>1, <3>2 DEF After
  <2>2. IF wpc \in {"grow", "link"} THEN back[2] = N - 1 /\ end = <<back[1], N>>
                                    ELSE After(back, end)'
    BY <1>0, <1>c, <2>1 DEF AtBack
  <2>3. \A i \in Used : addr[i][1] = end[1] => addr[i][2] < end[2]
    BY <1>0 DEF AtBack
  <2>4. front <= flushed /\ flushed < Len(addr) /\ back = addr[Len(addr)]
    BY <1>0, <1>c DEF AtBack
  <2> QED
    BY <1>a, <1>b, <1>c, <1>d, <2>2, <2>3, <2>4 DEF AtBack
<1>4. AtFront'
  BY <1>a, <1>c, <1>d DEF AtFront, c
<1>5. UsedChunks = UsedChunks' \cup {begin[1]} /\ begin[1] \notin UsedChunks'
  <2>1. UsedChunks' = {addr[i][1] : i \in Used} \cup {c[1], end[1]}
    BY <1>a, <1>d DEF UsedChunks
  <2>2. c[1] \in {addr[i][1] : i \in Used}
    BY <1>c DEF c
  <2>3. UsedChunks' = {addr[i][1] : i \in Used} \cup {end[1]}
    BY <2>1, <2>2
  <2> QED
    BY <1>c, <2>3 DEF UsedChunks
<1>6. Held'
  <2>1. o = NULL /\ o' = begin[1] /\ begin[1] # NULL
    BY <1>0, <1>a, <1>b, <1>c DEF Hands
  <2>2. begin[1] \notin {spare_chunk, sc}
    BY <1>0, <1>5 DEF Held
  <2> QED
    BY <1>0, <1>a, <1>5, <2>1, <2>2 DEF Held
<1>7. Hands'
  BY <1>0, <1>a DEF Hands
<1> QED
  BY <1>0, <1>a, <1>1, <1>2, <1>3, <1>4, <1>6, <1>7 DEF IInv, Alive

(* The destructor starts at the front cell. *)
LEMMA DestroyStarts ==
  ASSUME IInv, (wpc = "idle" /\ rpc = "idle") \/ wpc = "destroy"
  PROVE  Destroying /\ sc = NULL /\ o = NULL
<1>0. TypeOK /\ Chain /\ AtBack /\ Hands /\ sc = NULL /\ o = NULL
  BY DEF IInv, Hands
<1>1. CASE wpc = "destroy"
  BY <1>0, <1>1 DEF IInv
<1>2. CASE wpc = "idle" /\ rpc = "idle"
  <2> DEFINE L == Len(addr)
             rest == {addr[i][1] : i \in front + 1 .. L} \cup {end[1]}
  <2>1. Alive /\ AtFront /\ Held
    BY <1>2 DEF IInv, Alive
  <2>2. front \in Nat /\ L \in Nat /\ (addr # <<>> <=> L # 0) /\ NULL \notin Chunk
    BY <1>0, Places
  <2>3. /\ front + 1 \in front + 1 .. L + 1
        /\ begin[1] = IF front + 1 = L + 1 THEN end[1] ELSE addr[front + 1][1]
        /\ begin[1] \in rest
    <3>1. CASE addr = <<>>
      <4>1. begin = end /\ front = 0 /\ L = 0
        BY <1>0, <2>1, <2>2, <3>1 DEF AtFront, AtBack
      <4> QED
        BY <4>1
    <3>2. CASE addr # <<>>
      <4>1. front < L /\ begin = addr[front + 1]
        BY <1>0, <1>2, <2>1, <2>2, <3>2, Places DEF AtFront, AtBack
      <4>2. front + 1 \in front + 1 .. L /\ front + 1 # L + 1
        BY <2>2, <4>1
      <4> QED
        BY <2>2, <4>1, <4>2
    <3> QED
      BY <3>1, <3>2
  <2>4. UsedChunks = rest
    BY <2>3 DEF UsedChunks, Used
  <2>5. allocated = rest \cup ({spare_chunk} \ {NULL}) /\ spare_chunk \notin rest
    BY <1>0, <2>1, <2>4 DEF Held
  <2> QED
    BY <1>0, <2>3, <2>5 DEF Destroying
<1> QED
  BY <1>1, <1>2

(* One round of the destructor frees the chunk and all its cells.  The     *)
(* round goes on at the cell after the last of them.                       *)
LEMMA DestroyChunkKeeps == IInv /\ DestroyChunk => IInv'
<1> SUFFICES ASSUME IInv, DestroyChunk PROVE IInv'
  OBVIOUS
<1> DEFINE L == Len(addr)
           rest(d) == {addr[i][1] : i \in d .. L} \cup {end[1]}
<1>0. TypeOK /\ Chain /\ AtBack /\ Hands /\ Destroying /\ sc = NULL /\ o = NULL
  BY DestroyStarts DEF IInv, DestroyChunk
<1>a. /\ begin[1] # end[1]
      /\ allocated' = allocated \ {begin[1]}
      /\ begin' = <<next[begin[1]], 0>>
      /\ wpc' = "destroy" /\ rpc' = "dead" /\ wpc \notin {"grow", "link"}
      /\ UNCHANGED <<next, prev, spare_chunk, back, end, sc, o, addr, front, flushed>>
  BY DEF DestroyChunk
<1>b. PICK d \in front + 1 .. L + 1 :
         /\ begin[1] = IF d = L + 1 THEN end[1] ELSE addr[d][1]
         /\ allocated = rest(d) \cup ({spare_chunk} \ {NULL})
         /\ spare_chunk \notin rest(d)
  BY <1>0 DEF Destroying
<1>c. /\ N \in Nat /\ N >= 1 /\ NULL \notin Chunk /\ front \in Nat /\ L \in Nat
      /\ end[1] \in Chunk /\ next \in [Chunk -> Chunk \cup {NULL}]
      /\ \A i \in Used : addr[i][1] \in Chunk /\ addr[i][2] \in 0 .. N - 1
  BY <1>0, Places DEF TypeOK
<1>d. d \in front + 1 .. L /\ begin[1] = addr[d][1] /\ d \in Used
  <2>1. d # L + 1
    BY <1>a, <1>b
  <2>2. d \in front + 1 .. L
    <3> HIDE DEF L
    <3> QED
      BY <1>b, <1>c, <2>1
  <2> QED
    BY <1>b, <2>1, <2>2 DEF Used
<1> DEFINE same == {i \in d .. L : addr[i][1] = begin[1]}
<1>e. PICK m \in same : \A k \in same : k <= m
  <2>1. d \in same
    <3> HIDE DEF L
    <3> QED
      BY <1>c, <1>d
  <2>2. same \in SUBSET (0 .. L)
    <3> HIDE DEF L
    <3> QED
      BY <1>c, <1>d
  <2> HIDE DEF same, L
  <2> QED
    BY <1>c, <2>1, <2>2, LastOf
<1>f. /\ m \in d .. L /\ m \in Used /\ addr[m][1] = begin[1]
      /\ \A i \in m + 1 .. L : i \in d .. L /\ i \in Used /\ addr[i][1] # begin[1]
      /\ \A i \in d .. L : i \in Used /\ (i \in m + 1 .. L \/ i <= m)
  <2>1. Used = front + 1 .. L
    BY DEF Used
  <2>2. m \in d .. L /\ addr[m][1] = begin[1]
    BY <1>e
  <2>3. ASSUME NEW i \in m + 1 .. L PROVE i \in d .. L /\ ~ (i <= m)
    <3> HIDE DEF L
    <3> QED
      BY <1>c, <1>d, <2>2
  <2>4. \A i \in m + 1 .. L : addr[i][1] # begin[1]
    BY <1>e, <2>3
  <2>5. \A i \in d .. L : i \in front + 1 .. L /\ (i \in m + 1 .. L \/ i <= m)
    <3> HIDE DEF L
    <3> QED
      BY <1>c, <1>d, <2>2
  <2> QED
    BY <2>1, <2>2, <2>3, <2>4, <2>5
<1>g. \A i \in d .. L : i <= m => addr[i][1] = begin[1]
  <2> SUFFICES ASSUME NEW i \in d .. L, i <= m PROVE addr[i][1] = begin[1]
    OBVIOUS
  <2>1. i = d \/ i = m \/ (d < i /\ i < m)
    <3> HIDE DEF L
    <3> QED
      BY <1>c, <1>d, <1>f
  <2>2. ASSUME d < i, i < m PROVE addr[i][1] = begin[1]
    <3>1. d < m
      <4> HIDE DEF L
      <4> QED
        BY <1>c, <1>d, <1>f, <2>2
    <3> QED
      BY <1>0, <1>d, <1>f, <2>2, <3>1, Together
  <2> QED
    BY <1>d, <1>f, <2>1, <2>2
<1>h. /\ m + 1 \in front + 1 .. L + 1
      /\ next[begin[1]] = IF m + 1 = L + 1 THEN end[1] ELSE addr[m + 1][1]
  <2>1. m + 1 \in front + 1 .. L + 1
    <3> HIDE DEF L
    <3> QED
      BY <1>c, <1>d, <1>f
  <2>2. CASE m = L
    <3>1. addr # <<>>
      <4>1. Len(addr) # 0
        BY <1>c, <1>d
      <4> QED
        BY <1>0, <4>1, Places
    <3>2. After(addr[L], end)
      BY <1>0, <1>a, <3>1, EndCell
    <3>3. next[begin[1]] = end[1]
      BY <1>a, <1>f, <2>2, <3>2 DEF After
    <3> QED
      BY <2>1, <2>2, <3>3
  <2>3. CASE m # L
    <3>1. m + 1 \in m + 1 .. L /\ m + 1 # L + 1
      <4> HIDE DEF L
      <4> QED
        BY <1>c, <1>f, <1>d, <2>3
    <3>2. After(addr[m], addr[m + 1]) /\ addr[m + 1][1] # begin[1]
      BY <1>0, <1>f, <3>1, Followed
    <3>3. addr[m + 1][1] = next[begin[1]]
      BY <1>f, <3>2 DEF After
    <3> QED
      BY <2>1, <3>1, <3>3
  <2> QED
    BY <2>2, <2>3
<1>i. rest(d) = rest(m + 1) \cup {begin[1]} /\ begin[1] \notin rest(m + 1)
  <2>1. {addr[i][1] : i \in d .. L} = {addr[i][1] : i \in m + 1 .. L} \cup {begin[1]}
    BY <1>f, <1>g
  <2>2. begin[1] \notin rest(m + 1)
    BY <1>a, <1>f
  <2> QED
    BY <2>1, <2>2
<1>1. Destroying'
  <2>1. /\ allocated' = rest(m + 1) \cup ({spare_chunk} \ {NULL})
        /\ spare_chunk \notin rest(m + 1)
    <3> HIDE DEF rest
    <3>1. begin[1] # spare_chunk
      BY <1>b, <1>i
    <3> QED
      BY <1>a, <1>b, <1>i, <3>1
  <2>2. begin'[1] = IF m + 1 = L + 1 THEN end[1] ELSE addr[m + 1][1]
    BY <1>a, <1>h
  <2> QED
    BY <1>a, <1>h, <2>1, <2>2 DEF Destroying
<1>2. TypeOK'
  <2>1. begin[1] \in Chunk
    BY <1>c, <1>d
  <2>2. begin' \in Cell
    BY <1>a, <1>c, <2>1 DEF Cell
  <2> QED
    BY <1>0, <1>a, <2>2 DEF TypeOK
<1>3. Chain'
  BY <1>0, <1>a DEF Chain, After, Used
<1>4. AtBack'
  BY <1>0, <1>a DEF AtBack, After, Used
<1>5. Hands'
  BY <1>0, <1>a DEF Hands
<1> QED
  BY <1>a, <1>1, <1>2, <1>3, <1>4, <1>5 DEF IInv, Alive

LEMMA DestroyLastKeeps == IInv /\ DestroyLast => IInv'
<1> SUFFICES ASSUME IInv, DestroyLast PROVE IInv'
  OBVIOUS
<1>0. TypeOK /\ Chain /\ AtBack /\ Hands /\ Destroying /\ sc = NULL /\ o = NULL
  BY DestroyStarts DEF IInv, DestroyLast
<1>a. /\ begin[1] = end[1]
      /\ allocated' = allocated \ {begin[1], spare_chunk}
      /\ spare_chunk' = NULL
      /\ wpc' = "dead" /\ rpc' = "dead" /\ wpc \notin {"grow", "link"}
      /\ UNCHANGED <<next, prev, begin, back, end, sc, o, addr, front, flushed>>
  BY DEF DestroyLast
(* Only the last chunk is left: a cell in another one would have to be     *)
(* followed, and so would the cells of end's chunk.                        *)
<1>1. allocated' = {}
  <2> DEFINE L == Len(addr)
             rest(d) == {addr[i][1] : i \in d .. L} \cup {end[1]}
  <2>1. PICK d \in front + 1 .. L + 1 :
           /\ begin[1] = IF d = L + 1 THEN end[1] ELSE addr[d][1]
           /\ allocated = rest(d) \cup ({spare_chunk} \ {NULL})
           /\ spare_chunk \notin rest(d)
    BY <1>0 DEF Destroying
  <2>2. front \in Nat /\ L \in Nat
    BY <1>0, Places
  <2>3. ASSUME NEW i \in d .. L PROVE addr[i][1] = end[1]
    <3>1. d \in Used /\ i \in Used /\ L \in Used /\ d # L + 1 /\ d <= i /\ i <= L
          /\ i \in Nat /\ d \in Nat
      <4>1. Used = front + 1 .. L
        BY DEF Used
      <4> HIDE DEF L
      <4> QED
        BY <2>1, <2>2, <2>3, <4>1
    <3>2. addr[d][1] = end[1]
      BY <1>a, <2>1, <3>1
    <3>3. addr[d][2] < end[2] /\ addr[d][2] \in 0 .. N - 1
      BY <1>0, <3>1, <3>2, Places DEF AtBack
    <3>4. After(addr[L], end)
      <4>1. Len(addr) # 0
        BY <2>2, <3>1
      <4>2. addr # <<>>
        BY <1>0, <4>1, Places
      <4> QED
        BY <1>0, <1>a, <4>2, EndCell
    <3>5. addr[L][1] = end[1]
      <4>1. end[2] # 0
        BY <1>0, <3>3, Places
      <4> QED
        BY <3>4, <4>1 DEF After
    <3>6. CASE d < i /\ i < L
      <4>1. d < L
        <5> HIDE DEF L
        <5> QED
          BY <2>2, <3>1, <3>6
      <4> QED
        BY <1>0, <3>1, <3>2, <3>5, <3>6, <4>1, Together
    <3>7. i = d \/ i = L \/ (d < i /\ i < L)
      <4> HIDE DEF L
      <4> QED
        BY <2>2, <3>1
    <3> QED
      BY <3>2, <3>5, <3>6, <3>7
  <2>4. rest(d) = {end[1]}
    BY <2>3
  <2> QED
    BY <1>a, <2>1, <2>4
<1>2. TypeOK'
  BY <1>0, <1>a, <1>1 DEF TypeOK
<1>3. Chain' /\ AtBack'
  BY <1>0, <1>a DEF Chain, AtBack, After, Used
<1>4. Hands'
  BY <1>0, <1>a DEF Hands
<1> QED
  BY <1>a, <1>1, <1>2, <1>3, <1>4 DEF IInv, Alive

(* The strengthening is inductive. *)
THEOREM YQueueInvariant == Spec => []IInv
<1>1. IInv /\ [Next]_vars => IInv'
  <2> SUFFICES ASSUME IInv, [Next]_vars PROVE IInv'
    OBVIOUS
  <2>1. CASE PushCell
    BY <2>1, PushCellKeeps
  <2>2. CASE PushTakeSpare
    BY <2>2, PushTakeSpareKeeps
  <2>3. CASE PushLink
    BY <2>3, PushLinkKeeps
  <2>4. CASE unpush
    BY <2>4, UnpushKeeps
  <2>5. CASE Flush
    BY <2>5, FlushKeeps
  <2>6. CASE PopCell
    BY <2>6, PopCellKeeps
  <2>7. CASE PopAdvance
    BY <2>7, PopAdvanceKeeps
  <2>8. CASE PopRecycle
    BY <2>8, PopRecycleKeeps
  <2>9. CASE DestroyChunk
    BY <2>9, DestroyChunkKeeps
  <2>10. CASE DestroyLast
    BY <2>10, DestroyLastKeeps
  <2>11. CASE UNCHANGED vars
    BY <2>11, StutterKeeps
  <2> QED
    BY <2>1, <2>2, <2>3, <2>4, <2>5, <2>6, <2>7, <2>8, <2>9, <2>10, <2>11 DEF Next
<1> QED
  BY <1>1, InitInvariant, PTL DEF Spec

(* The writer, the reader and the destructor never follow a link of a      *)
(* chunk that was freed, free none twice, lose none, and an address means  *)
(* one cell (yqueue_t::push, unpush, pop and the destructor).              *)
THEOREM YQueueMemorySafe == Spec => []MemorySafe
  BY YQueueInvariant, InvariantMemorySafe, PTL
=============================================================================
