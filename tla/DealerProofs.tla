---------------------------- MODULE DealerProofs ----------------------------
(***************************************************************************)
(* For any number of pipes, any mark and any length of messages: the       *)
(* arrays of fq_t and lb_t agree with the pipes, messages stay whole, and  *)
(* each pipe's turn comes.                                                 *)
(***************************************************************************)
EXTENDS Dealer, SequenceTheorems, FiniteSetTheorems, WellFoundedInduction, TLAPS

(* What holds at 0 and is handed on holds up to n. *)
LEMMA Steps ==
  ASSUME NEW n \in Nat, NEW T \in SUBSET (0 .. n), 0 \in T,
         \A k \in T : k < n => k + 1 \in T
  PROVE  T = 0 .. n
<1> DEFINE R == OpToRel(<, Nat)
           D == (0 .. n) \ T
<1>1. \A x, y \in Nat : <<x, y>> \in R <=> x < y
  BY DEF OpToRel
<1>2. IsWellFoundedOn(R, Nat)
  BY NatLessThanWellFounded
<1> HIDE DEF R
<1>3. SUFFICES ASSUME D # {} PROVE FALSE
  OBVIOUS
<1>4. D \subseteq Nat
  OBVIOUS
<1> HIDE DEF D
<1>5. PICK x \in D : \A y \in D : ~ (<<y, x>> \in R)
  BY <1>2, <1>3, <1>4, WFMin
<1>6. x \in 1 .. n /\ x \notin T
  BY <1>5 DEF D
<1>7. x - 1 \notin D
  <2>1. x - 1 \in Nat /\ x \in Nat /\ x - 1 < x
    BY <1>6
  <2>2. <<x - 1, x>> \in R
    BY <1>1, <2>1
  <2> QED
    BY <1>5, <2>2
<1>8. x - 1 \in T
  BY <1>6, <1>7 DEF D
<1> QED
  BY <1>6, <1>8
-----------------------------------------------------------------------------
(* Sequences without repetition, as array_t keeps its items. *)

Once(s) == \A i, j \in DOMAIN s : s[i] = s[j] => i = j

LEMMA Placed ==
  ASSUME NEW S, NEW s \in Seq(S), Once(s), NEW i \in 1 .. Len(s)
  PROVE  Place(s, s[i]) = i - 1
<1>1. i \in DOMAIN s
  OBVIOUS
<1>2. (CHOOSE j \in DOMAIN s : s[j] = s[i]) = i
  BY <1>1 DEF Once
<1> QED
  BY <1>2 DEF Place

LEMMA Swapping ==
  ASSUME NEW S, NEW s \in Seq(S), NEW i \in 0 .. Len(s) - 1, NEW j \in 0 .. Len(s) - 1
  PROVE  /\ Swap(s, i, j) \in Seq(S)
         /\ Len(Swap(s, i, j)) = Len(s)
         /\ \A k \in 1 .. Len(s) : Swap(s, i, j)[k] = IF k = i + 1 THEN s[j + 1]
                                                  ELSE IF k = j + 1 THEN s[i + 1] ELSE s[k]
         /\ Once(s) => Once(Swap(s, i, j))
<1> DEFINE a == [s EXCEPT ![i + 1] = s[j + 1]]
           b == [a EXCEPT ![j + 1] = s[i + 1]]
<1>1. i + 1 \in 1 .. Len(s) /\ j + 1 \in 1 .. Len(s) /\ s[i + 1] \in S /\ s[j + 1] \in S
  OBVIOUS
<1>2. a \in Seq(S) /\ Len(a) = Len(s)
      /\ \A k \in 1 .. Len(s) : a[k] = IF k = i + 1 THEN s[j + 1] ELSE s[k]
  BY <1>1, ExceptSeq
<1>3. b \in Seq(S) /\ Len(b) = Len(s)
      /\ \A k \in 1 .. Len(s) : b[k] = IF k = j + 1 THEN s[i + 1] ELSE a[k]
  <2> HIDE DEF a
  <2> QED
    BY <1>1, <1>2, ExceptSeq
<1>4. Swap(s, i, j) = b
  BY DEF Swap
<1>5. \A k \in 1 .. Len(s) : b[k] = IF k = i + 1 THEN s[j + 1]
                                    ELSE IF k = j + 1 THEN s[i + 1] ELSE s[k]
  BY <1>2, <1>3
<1>6. Once(s) => Once(b)
  <2> HIDE DEF a, b
  <2>1. DOMAIN b = 1 .. Len(s) /\ DOMAIN s = 1 .. Len(s)
    BY <1>3
  <2> QED
    BY <1>1, <1>5, <2>1 DEF Once
<1> QED
  BY <1>3, <1>4, <1>5, <1>6

LEMMA Erasing ==
  ASSUME NEW S, NEW s \in Seq(S), NEW i \in 0 .. Len(s) - 1
  PROVE  /\ Erase(s, i) \in Seq(S)
         /\ Len(Erase(s, i)) = Len(s) - 1
         /\ \A k \in 1 .. Len(s) - 1 : Erase(s, i)[k] = IF k = i + 1 THEN s[Len(s)] ELSE s[k]
         /\ Once(s) => Once(Erase(s, i))
<1> DEFINE b == Swap(s, i, Len(s) - 1)
           n == Len(s) - 1
<1>1. n \in Nat /\ n \in 0 .. Len(s) - 1 /\ n + 1 = Len(s)
  OBVIOUS
<1>2. b \in Seq(S) /\ Len(b) = Len(s) /\ (Once(s) => Once(b))
      /\ \A k \in 1 .. Len(s) : b[k] = IF k = i + 1 THEN s[n + 1]
                                       ELSE IF k = n + 1 THEN s[i + 1] ELSE s[k]
  <2> DEFINE c == Swap(s, i, n)
  <2> HIDE DEF n
  <2>1. c \in Seq(S) /\ Len(c) = Len(s) /\ (Once(s) => Once(c))
        /\ \A k \in 1 .. Len(s) : c[k] = IF k = i + 1 THEN s[n + 1]
                                         ELSE IF k = n + 1 THEN s[i + 1] ELSE s[k]
    BY <1>1, Swapping
  <2> QED
    BY <2>1 DEF n
<1> HIDE DEF b, n
<1>3. \A k \in 1 .. n : b[k] \in S
  BY <1>1, <1>2
<1>4. SubSeq(b, 1, n) \in Seq(S) /\ Len(SubSeq(b, 1, n)) = n
      /\ \A k \in 1 .. n : SubSeq(b, 1, n)[k] = b[k]
  BY <1>1, <1>3, SubSeqProperties
<1>5. Erase(s, i) = SubSeq(b, 1, n)
  BY DEF Erase, b, n
<1>6. \A k \in 1 .. n : SubSeq(b, 1, n)[k] = IF k = i + 1 THEN s[Len(s)] ELSE s[k]
  <2>1. \A k \in 1 .. n : k \in 1 .. Len(s) /\ k # n + 1
    BY <1>1
  <2>2. \A k \in 1 .. n : b[k] = IF k = i + 1 THEN s[n + 1] ELSE s[k]
    BY <1>2, <2>1
  <2> QED
    BY <1>1, <1>4, <2>2
<1>7. Once(s) => Once(SubSeq(b, 1, n))
  <2>1. DOMAIN b = 1 .. Len(s) /\ DOMAIN SubSeq(b, 1, n) = 1 .. n
    BY <1>2, <1>4
  <2> QED
    BY <1>1, <1>2, <1>4, <2>1 DEF Once
<1> QED
  BY <1>1, <1>4, <1>5, <1>6, <1>7

LEMMA Appending ==
  ASSUME NEW S, NEW s \in Seq(S), NEW x \in S
  PROVE  /\ Append(s, x) \in Seq(S)
         /\ Len(Append(s, x)) = Len(s) + 1
         /\ \A k \in 1 .. Len(s) + 1 : Append(s, x)[k] = IF k = Len(s) + 1 THEN x ELSE s[k]
         /\ Once(s) /\ (\A k \in 1 .. Len(s) : s[k] # x) => Once(Append(s, x))
<1>1. /\ Append(s, x) \in Seq(S) /\ Len(Append(s, x)) = Len(s) + 1
      /\ \A k \in 1 .. Len(s) + 1 : Append(s, x)[k] = IF k = Len(s) + 1 THEN x ELSE s[k]
  BY AppendProperties
<1>2. DOMAIN s = 1 .. Len(s) /\ DOMAIN Append(s, x) = 1 .. Len(s) + 1
  BY <1>1
<1> QED
  BY <1>1, <1>2 DEF Once

(* A set of numbered pipes has no longer sequence without repetition. *)
LEMMA NoLonger ==
  ASSUME NEW n \in Nat, NEW s \in Seq(1 .. n), Once(s)
  PROVE  Len(s) <= n
<1>1. s \in [1 .. Len(s) -> 1 .. n] /\ Len(s) \in Nat
  OBVIOUS
<1>2. s \in Injection(1 .. Len(s), 1 .. n)
  <2>1. \A i, j \in 1 .. Len(s) : s[i] = s[j] => i = j
    BY <1>1 DEF Once
  <2> QED
    BY <1>1, <2>1 DEF Injection, IsInjective
<1>3. IsFiniteSet(1 .. n) /\ Cardinality(1 .. n) = n
  BY FS_Interval
<1>4. Cardinality(1 .. Len(s)) = Len(s)
  <2>1. Cardinality(1 .. Len(s)) = IF 1 > Len(s) THEN 0 ELSE Len(s) - 1 + 1
    <3>1. 1 \in Int /\ Len(s) \in Int
      BY <1>1
    <3> QED
      BY <3>1, FS_Interval
  <2> QED
    BY <1>1, <2>1
<1>5. Cardinality(1 .. Len(s)) <= Cardinality(1 .. n)
  BY <1>2, <1>3, FS_Injection
<1> QED
  BY <1>3, <1>4, <1>5
(* A swap within the first m places keeps what they hold. *)
LEMMA SwapKeeps ==
  ASSUME NEW S, NEW s \in Seq(S), NEW m \in 0 .. Len(s), NEW i \in 0 .. m - 1, NEW j \in 0 .. m - 1
  PROVE  First(Swap(s, i, j), m) = First(s, m)
<1> DEFINE b == Swap(s, i, j)
<1>1. i \in 0 .. Len(s) - 1 /\ j \in 0 .. Len(s) - 1 /\ i + 1 \in 1 .. m /\ j + 1 \in 1 .. m
      /\ \A k \in 1 .. m : k \in 1 .. Len(s)
  OBVIOUS
<1>2. \A k \in 1 .. Len(s) : b[k] = IF k = i + 1 THEN s[j + 1]
                                    ELSE IF k = j + 1 THEN s[i + 1] ELSE s[k]
  BY <1>1, Swapping
<1> HIDE DEF b
<1>3. \A k \in 1 .. m : \E l \in 1 .. m : b[k] = s[l]
  BY <1>1, <1>2
<1>4. \A k \in 1 .. m : \E l \in 1 .. m : s[k] = b[l]
  <2> TAKE k \in 1 .. m
  <2>1. CASE k = i + 1
    BY <1>1, <1>2, <2>1
  <2>2. CASE k = j + 1
    BY <1>1, <1>2, <2>2
  <2>3. CASE k # i + 1 /\ k # j + 1
    BY <1>1, <1>2, <2>3
  <2> QED
    BY <2>1, <2>2, <2>3
<1>5. First(b, m) = First(s, m)
  <2>1. \A x : x \in First(b, m) => x \in First(s, m)
    BY <1>3 DEF First
  <2>2. \A x : x \in First(s, m) => x \in First(b, m)
    BY <1>4 DEF First
  <2> QED
    BY <2>1, <2>2
<1> QED
  BY <1>5 DEF b

(* The last of the first m places is given up by what is swapped into it. *)
LEMMA SwapLast ==
  ASSUME NEW S, NEW s \in Seq(S), Once(s), NEW m \in 1 .. Len(s), NEW i \in 0 .. m - 1
  PROVE  /\ First(Swap(s, i, m - 1), m - 1) = First(s, m) \ {s[i + 1]}
         /\ \A k \in 1 .. m - 1 : Swap(s, i, m - 1)[k] = IF k = i + 1 THEN s[m] ELSE s[k]
<1> DEFINE b == Swap(s, i, m - 1)
<1>1. i \in 0 .. Len(s) - 1 /\ m - 1 \in 0 .. Len(s) - 1 /\ i + 1 \in 1 .. m /\ (m - 1) + 1 = m
      /\ DOMAIN s = 1 .. Len(s)
  OBVIOUS
<1>2. \A k \in 1 .. Len(s) : b[k] = IF k = i + 1 THEN s[(m - 1) + 1]
                                    ELSE IF k = (m - 1) + 1 THEN s[i + 1] ELSE s[k]
  BY <1>1, Swapping
<1> HIDE DEF b
<1>3. \A k \in 1 .. m - 1 : b[k] = IF k = i + 1 THEN s[m] ELSE s[k]
  BY <1>1, <1>2
<1>4. \A k \in 1 .. m - 1 : \E l \in 1 .. m : b[k] = s[l] /\ l # i + 1
  BY <1>1, <1>3
<1>5. \A l \in 1 .. m : l # i + 1 => \E k \in 1 .. m - 1 : s[l] = b[k]
  <2> TAKE l \in 1 .. m
  <2> HAVE l # i + 1
  <2>1. CASE l = m
    BY <1>1, <1>3, <2>1
  <2>2. CASE l # m
    BY <1>1, <1>3, <2>2
  <2> QED
    BY <2>1, <2>2
<1>6. \A l \in 1 .. m : s[l] = s[i + 1] => l = i + 1
  BY <1>1 DEF Once
<1>7. First(b, m - 1) = First(s, m) \ {s[i + 1]}
  <2>1. \A x : x \in First(b, m - 1) => x \in First(s, m) /\ x # s[i + 1]
    BY <1>4, <1>6 DEF First
  <2>2. \A x : x \in First(s, m) /\ x # s[i + 1] => x \in First(b, m - 1)
    BY <1>5 DEF First
  <2> QED
    BY <2>1, <2>2
<1> QED
  BY <1>3, <1>7 DEF b

-----------------------------------------------------------------------------
(* The operations of fq_t and lb_t on their arrays. *)

Kinds == Array \cup Balancer

Like(q, r) == /\ r.more = q.more
              /\ q \in Array => r \in Array
              /\ q \in Balancer => r \in Balancer /\ r.dropping = q.dropping

(* No pipe that stays active is served later than before. *)
Sooner(q, r) ==
  \A k \in 1 .. r.active :
    \E j \in 1 .. q.active : r.pipes[k] = q.pipes[j] /\ Rank(r, k - 1) <= Rank(q, j - 1)

LEMMA Fields ==
  ASSUME NEW q \in Kinds
  PROVE  /\ q.pipes \in Seq(Pipes) /\ Len(q.pipes) \in Nat /\ DOMAIN q.pipes = 1 .. Len(q.pipes)
         /\ q.active \in Nat /\ q.current \in Nat /\ q.more \in BOOLEAN
<1>1. CASE q \in Array
  BY <1>1 DEF Array
<1>2. CASE q \in Balancer
  BY <1>2 DEF Balancer
<1> QED
  BY <1>1, <1>2 DEF Kinds

LEMMA Updated ==
  ASSUME NEW q \in Kinds, NEW s \in Seq(Pipes), NEW a \in Nat, NEW c \in Nat
  PROVE  LET r == [q EXCEPT !.pipes = s, !.active = a, !.current = c]
         IN  r \in Kinds /\ r.pipes = s /\ r.active = a /\ r.current = c /\ Like(q, r)
<1>1. CASE q \in Array
  BY <1>1 DEF Array, Balancer, Like, Kinds
<1>2. CASE q \in Balancer
  BY <1>2 DEF Array, Balancer, Like, Kinds
<1> QED
  BY <1>1, <1>2 DEF Kinds

LEMMA Shorter ==
  ASSUME NEW q \in Kinds, Arranged(q)
  PROVE  /\ Once(q.pipes) /\ Len(q.pipes) <= N /\ N \in Nat
         /\ q.active \in 0 .. Len(q.pipes)
<1>1. N \in Nat /\ Pipes = 1 .. N
  BY DealerAssumption DEF Pipes
<1>2. Once(q.pipes)
  BY DEF Once, Arranged
<1> QED
  BY <1>1, <1>2, Fields, NoLonger DEF Arranged

LEMMA Deactivating ==
  ASSUME NEW q \in Kinds, Arranged(q), q.active > 0
  PROVE  LET r == Deactivated(q)
         IN  /\ r \in Kinds /\ Like(q, r) /\ Arranged(r) /\ r.active = q.active - 1
             /\ Attached(r) = Attached(q)
             /\ ActivePart(r) = ActivePart(q) \ {At(q)}
             /\ Sooner(q, r)
<1>0. PICK p, i, m : p = q.pipes /\ i = q.current /\ m = q.active
  OBVIOUS
<1> DEFINE c == IF i = m - 1 THEN 0 ELSE i
           s == Swap(p, i, m - 1)
           r == [q EXCEPT !.pipes = s, !.active = m - 1, !.current = c]
<1>1. /\ p \in Seq(Pipes) /\ Len(p) \in Nat /\ m \in 1 .. Len(p) /\ i \in 0 .. m - 1
      /\ m - 1 \in Nat /\ c \in Nat /\ Once(p) /\ Len(p) <= N /\ N \in Nat
      /\ i \in 0 .. Len(p) - 1 /\ m - 1 \in 0 .. Len(p) - 1 /\ m \in 0 .. Len(p)
  BY <1>0, Fields, Shorter DEF Arranged
<1>2. s \in Seq(Pipes) /\ Len(s) = Len(p) /\ Once(s) /\ DOMAIN s = 1 .. Len(p)
  <2>1. s \in Seq(Pipes) /\ Len(s) = Len(p) /\ Once(s)
    BY <1>1, Swapping
  <2> QED
    BY <2>1
<1>3. Deactivated(q) = r
  BY <1>0 DEF Deactivated
<1>4. r \in Kinds /\ r.pipes = s /\ r.active = m - 1 /\ r.current = c /\ Like(q, r)
  <2> HIDE DEF s, c
  <2> QED
    BY <1>1, <1>2, Updated
<1>5. First(s, Len(p)) = First(p, Len(p))
  BY <1>1, SwapKeeps
<1>6. /\ First(s, m - 1) = First(p, m) \ {p[i + 1]}
      /\ \A k \in 1 .. m - 1 : s[k] = IF k = i + 1 THEN p[m] ELSE p[k]
  BY <1>1, SwapLast
<1> HIDE DEF s, r
<1>7. Arranged(r)
  BY <1>1, <1>2, <1>4 DEF Arranged, Once
<1>8. Attached(r) = Attached(q)
  BY <1>0, <1>2, <1>4, <1>5 DEF Attached
<1>9. ActivePart(r) = ActivePart(q) \ {At(q)}
  BY <1>0, <1>4, <1>6 DEF ActivePart, At
<1>10. Sooner(q, r)
  <2>1. ASSUME NEW k \in 1 .. m - 1
        PROVE  \E j \in 1 .. m : s[k] = p[j] /\ (IF c <= k - 1 THEN k - 1 - c ELSE N - c + (k - 1))
                                              <= (IF i <= j - 1 THEN j - 1 - i ELSE N - i + (j - 1))
    <3>1. CASE k = i + 1
      BY <1>1, <1>6, <3>1
    <3>2. CASE k # i + 1
      BY <1>1, <1>6, <3>2
    <3> QED
      BY <3>1, <3>2
  <2> QED
    BY <1>0, <1>4, <2>1 DEF Sooner, Rank
<1> QED
  BY <1>0, <1>3, <1>4, <1>7, <1>8, <1>9, <1>10

(* The loop over the array ends with a current pipe of ok, or with none. *)
Loop(q, ok, f) ==
  f = [k \in 0 .. q.active |->
         IF k = 0 THEN q
         ELSE IF f[k - 1].active = 0 \/ At(f[k - 1]) \in ok THEN f[k - 1]
              ELSE Deactivated(f[k - 1])]

LEMMA LoopExists ==
  ASSUME NEW q \in Kinds, NEW ok
  PROVE  \E f : Loop(q, ok, f) /\ Settle(q, ok) = f[q.active]
<1> DEFINE S(r) == IF r.active = 0 \/ At(r) \in ok THEN r ELSE Deactivated(r)
           n == q.active
           L(f, m) == f = [k \in 0 .. m |-> IF k = 0 THEN q ELSE S(f[k - 1])]
           T == {m \in 0 .. n : \E f : L(f, m)}
<1>1. n \in Nat
  BY Fields
<1>2. 0 \in T
  <2> DEFINE f == [k \in 0 .. 0 |-> q]
  <2>1. L(f, 0)
    OBVIOUS
  <2>2. 0 \in 0 .. n
    BY <1>1
  <2> HIDE DEF L, f
  <2> QED
    BY <2>1, <2>2
<1>3. ASSUME NEW m \in T, m < n PROVE m + 1 \in T
  <2>1. PICK f : L(f, m)
    BY <1>3
  <2> DEFINE g == [k \in 0 .. m + 1 |-> IF k <= m THEN f[k] ELSE S(f[m])]
  <2>2. m \in 0 .. n /\ m + 1 \in 0 .. n
    BY <1>1, <1>3
  <2> HIDE DEF S
  <2>3. \A k \in 0 .. m : f[k] = IF k = 0 THEN q ELSE S(f[k - 1])
    BY <2>1
  <2>4. \A k \in 0 .. m + 1 : g[k] = IF k = 0 THEN q ELSE S(g[k - 1])
    <3> TAKE k \in 0 .. m + 1
    <3>1. CASE k <= m
      BY <2>2, <2>3, <3>1
    <3>2. CASE k = m + 1
      BY <2>2, <3>2
    <3> QED
      BY <2>2, <3>1, <3>2
  <2>5. L(g, m + 1)
    <3>1. g = [k \in 0 .. m + 1 |-> g[k]]
      OBVIOUS
    <3> HIDE DEF g
    <3> QED
      BY <2>4, <3>1
  <2> HIDE DEF L, g
  <2> QED
    BY <2>2, <2>5
<1>4. T = 0 .. n
  <2> HIDE DEF T, n
  <2>1. T \in SUBSET (0 .. n)
    BY DEF T
  <2> QED
    BY <1>1, <1>2, <1>3, <2>1, Steps
<1>5. \E f : L(f, n)
  BY <1>1, <1>4
<1> DEFINE F == CHOOSE f : L(f, n)
<1>6. L(F, n)
  <2> HIDE DEF L
  <2> QED
    BY <1>5
<1>7. Settle(q, ok) = F[n]
  BY DEF Settle
<1> HIDE DEF F
<1>8. Loop(q, ok, F)
  BY <1>6 DEF Loop
<1> QED
  BY <1>7, <1>8

(* The current pipe is an active one. *)
LEMMA Current ==
  ASSUME NEW q \in Kinds, Arranged(q)
  PROVE  /\ q.active > 0 => At(q) \in ActivePart(q)
         /\ ActivePart(q) \subseteq Attached(q) /\ Attached(q) \subseteq Pipes
         /\ q.active = 0 => ActivePart(q) = {}
<1>1. PICK p, i, m : p = q.pipes /\ i = q.current /\ m = q.active
  OBVIOUS
<1>2. p \in Seq(Pipes) /\ Len(p) \in Nat /\ m \in 0 .. Len(p) /\ i \in Nat
  BY <1>1, Fields, Shorter
<1>3. \A k \in 1 .. Len(p) : p[k] \in Pipes
  BY <1>2
<1>4. First(p, m) \subseteq First(p, Len(p))
  BY <1>2 DEF First
<1>5. m > 0 => p[i + 1] \in First(p, m)
  <2>1. m > 0 => i + 1 \in 1 .. m
    BY <1>1, <1>2 DEF Arranged
  <2> QED
    BY <2>1 DEF First
<1>6. First(p, Len(p)) \subseteq Pipes
  BY <1>3 DEF First
<1>7. m = 0 => First(p, m) = {}
  BY DEF First
<1> QED
  BY <1>1, <1>4, <1>5, <1>6, <1>7 DEF At, ActivePart, Attached

Settled(q, ok, r) ==
  /\ r \in Kinds /\ Like(q, r) /\ Arranged(r)
  /\ Attached(r) = Attached(q)
  /\ ActivePart(r) \subseteq ActivePart(q)
  /\ (ActivePart(q) \ ActivePart(r)) \cap ok = {}
  /\ Sooner(q, r)

LEMMA LikeItself ==
  ASSUME NEW q \in Kinds, Arranged(q)
  PROVE  Like(q, q) /\ Sooner(q, q)
<1>1. N \in Nat /\ q.active \in Nat /\ q.current \in Nat
  BY Shorter, Fields
<1>2. \A k \in 1 .. q.active : Rank(q, k - 1) <= Rank(q, k - 1)
  BY <1>1 DEF Rank
<1> QED
  BY <1>2 DEF Like, Sooner

LEMMA SettledOn ==
  ASSUME NEW q \in Kinds, NEW ok, NEW r, Arranged(q), Settled(q, ok, r), r.active > 0, At(r) \notin ok
  PROVE  Settled(q, ok, Deactivated(r)) /\ Deactivated(r).active = r.active - 1
<1> DEFINE d == Deactivated(r)
<1>1. r \in Kinds /\ Arranged(r)
  BY DEF Settled
<1>2. /\ d \in Kinds /\ Like(r, d) /\ Arranged(d) /\ d.active = r.active - 1
      /\ Attached(d) = Attached(r)
      /\ ActivePart(d) = ActivePart(r) \ {At(r)}
      /\ Sooner(r, d)
  BY <1>1, Deactivating
<1> HIDE DEF d
<1>3. Like(q, d)
  BY <1>2 DEF Like, Settled
<1>4. Sooner(q, d)
  <2>1. \A j \in 1 .. q.active, l \in 1 .. r.active, k \in 1 .. d.active :
           Rank(d, k - 1) <= Rank(r, l - 1) /\ Rank(r, l - 1) <= Rank(q, j - 1)
             => Rank(d, k - 1) <= Rank(q, j - 1)
    <3>1. N \in Nat /\ \A x \in {q, r, d} : x.active \in Nat /\ x.current \in Nat
      BY <1>1, <1>2, Shorter, Fields
    <3>2. /\ \A j \in 1 .. q.active : Rank(q, j - 1) \in Int
          /\ \A j \in 1 .. r.active : Rank(r, j - 1) \in Int
          /\ \A j \in 1 .. d.active : Rank(d, j - 1) \in Int
      BY <3>1 DEF Rank
    <3> QED
      BY <3>2
  <2>2. Sooner(q, r) /\ Sooner(r, d)
    BY <1>2 DEF Settled
  <2> QED
    BY <2>1, <2>2 DEF Sooner
<1>5. Settled(q, ok, d)
  BY <1>2, <1>3, <1>4 DEF Settled
<1> QED
  BY <1>2, <1>5 DEF d

LEMMA Settling ==
  ASSUME NEW q \in Kinds, Arranged(q), NEW ok
  PROVE  LET r == Settle(q, ok)
         IN  /\ Settled(q, ok, r)
             /\ r.active = 0 \/ At(r) \in ok
             /\ q.active > 0 /\ At(q) \in ok => r = q
<1>1. PICK f : Loop(q, ok, f) /\ Settle(q, ok) = f[q.active]
  BY LoopExists
<1>2. PICK n : n = q.active
  OBVIOUS
<1>3. n \in Nat
  BY <1>2, Fields
<1>4. f[0] = q
  BY <1>1, <1>2, <1>3 DEF Loop
<1>5. \A k \in 0 .. n : k < n =>
        f[k + 1] = IF f[k].active = 0 \/ At(f[k]) \in ok THEN f[k] ELSE Deactivated(f[k])
  <2> TAKE k \in 0 .. n
  <2> HAVE k < n
  <2>1. k + 1 \in 0 .. n /\ k + 1 # 0 /\ (k + 1) - 1 = k
    BY <1>3
  <2> QED
    BY <1>1, <1>2, <2>1 DEF Loop
<1> DEFINE T == {k \in 0 .. n : Settled(q, ok, f[k])
                   /\ (f[k].active = 0 \/ At(f[k]) \in ok \/ f[k].active <= n - k)}
<1>6. T = 0 .. n
  <2>1. 0 \in T
    <3>1. Settled(q, ok, q)
      BY LikeItself DEF Settled
    <3>2. 0 \in 0 .. n /\ n <= n - 0
      BY <1>3
    <3> QED
      BY <1>2, <1>4, <3>1, <3>2
  <2>2. ASSUME NEW k \in T, k < n PROVE k + 1 \in T
    <3>1. k \in 0 .. n /\ k + 1 \in 0 .. n /\ Settled(q, ok, f[k])
      BY <1>3, <2>2
    <3>2. CASE f[k].active = 0 \/ At(f[k]) \in ok
      <4>1. f[k + 1] = f[k]
        BY <1>5, <2>2, <3>1, <3>2
      <4> QED
        BY <3>1, <3>2, <4>1
    <3>3. CASE ~(f[k].active = 0 \/ At(f[k]) \in ok)
      <4>1. f[k + 1] = Deactivated(f[k])
        BY <1>5, <2>2, <3>1, <3>3
      <4>2. f[k].active \in Nat
        BY <3>1, Fields DEF Settled
      <4>3. Settled(q, ok, f[k + 1]) /\ f[k + 1].active = f[k].active - 1
        BY <3>1, <3>3, <4>1, <4>2, SettledOn
      <4>4. f[k].active <= n - k
        BY <2>2, <3>3
      <4>5. f[k + 1].active <= n - (k + 1)
        BY <1>3, <3>1, <4>2, <4>3, <4>4
      <4> QED
        BY <3>1, <4>3, <4>5
    <3> QED
      BY <3>2, <3>3
  <2>3. T \in SUBSET (0 .. n)
    OBVIOUS
  <2> HIDE DEF T
  <2> QED
    BY <1>3, <2>1, <2>2, <2>3, Steps
<1>7. Settled(q, ok, f[n]) /\ (f[n].active = 0 \/ At(f[n]) \in ok)
  <2>1. n \in T
    BY <1>3, <1>6
  <2>2. f[n].active \in Nat
    BY <2>1, Fields DEF Settled
  <2> QED
    BY <1>3, <2>1, <2>2
<1>8. ASSUME q.active > 0, At(q) \in ok PROVE f[n] = q
  <2> DEFINE U == {k \in 0 .. n : f[k] = q}
  <2>1. 0 \in U
    BY <1>3, <1>4
  <2>2. ASSUME NEW k \in U, k < n PROVE k + 1 \in U
    <3>1. f[k + 1] = q
      BY <1>5, <1>8, <2>2
    <3> QED
      BY <1>3, <2>2, <3>1
  <2>3. U \in SUBSET (0 .. n)
    OBVIOUS
  <2>4. U = 0 .. n
    <3> HIDE DEF U
    <3> QED
      BY <1>3, <2>1, <2>2, <2>3, Steps
  <2> QED
    BY <1>3, <2>4
<1> QED
  BY <1>1, <1>2, <1>7, <1>8

(* Updates of fewer fields. *)
LEMMA Renewed ==
  ASSUME NEW q \in Kinds, NEW s \in Seq(Pipes), NEW a \in Nat
  PROVE  /\ [q EXCEPT !.pipes = s] = [q EXCEPT !.pipes = s, !.active = q.active, !.current = q.current]
         /\ [q EXCEPT !.pipes = s, !.active = a] = [q EXCEPT !.pipes = s, !.active = a, !.current = q.current]
<1>1. CASE q \in Array
  BY <1>1 DEF Array
<1>2. CASE q \in Balancer
  BY <1>2 DEF Balancer
<1> QED
  BY <1>1, <1>2 DEF Kinds

LEMMA Activating ==
  ASSUME NEW q \in Kinds, Arranged(q), NEW p \in Attached(q), p \notin ActivePart(q)
  PROVE  LET r == Activated(q, p)
         IN  /\ r \in Kinds /\ Like(q, r) /\ Arranged(r)
             /\ r.active = q.active + 1 /\ r.current = q.current
             /\ Attached(r) = Attached(q)
             /\ ActivePart(r) = ActivePart(q) \cup {p}
             /\ \A k \in 1 .. q.active : r.pipes[k] = q.pipes[k]
             /\ r.pipes[q.active + 1] = p
<1>0. PICK s, a, c : s = q.pipes /\ a = q.active /\ c = q.current
  OBVIOUS
<1>1. /\ s \in Seq(Pipes) /\ Len(s) \in Nat /\ a \in 0 .. Len(s) /\ c \in Nat /\ Once(s)
  BY <1>0, Fields, Shorter
<1>2. PICK l \in 1 .. Len(s) : s[l] = p
  BY <1>0 DEF Attached, First
<1>3. l > a
  <2>1. \A k \in 1 .. a : s[k] # p
    BY <1>0 DEF ActivePart, First
  <2> QED
    BY <1>1, <1>2, <2>1
<1>4. Place(s, p) = l - 1
  BY <1>1, <1>2, Placed
<1> DEFINE b == Swap(s, l - 1, a)
           r == [q EXCEPT !.pipes = b, !.active = a + 1, !.current = c]
<1>5. l - 1 \in 0 .. Len(s) - 1 /\ a \in 0 .. Len(s) - 1 /\ Len(s) \in 0 .. Len(s)
      /\ (l - 1) + 1 = l /\ a + 1 \in Nat /\ a + 1 \in 1 .. Len(s)
  BY <1>1, <1>3
<1>6. /\ b \in Seq(Pipes) /\ Len(b) = Len(s) /\ Once(b)
      /\ \A k \in 1 .. Len(s) : b[k] = IF k = (l - 1) + 1 THEN s[a + 1]
                                       ELSE IF k = a + 1 THEN s[(l - 1) + 1] ELSE s[k]
  BY <1>1, <1>5, Swapping
<1>7. First(b, Len(s)) = First(s, Len(s))
  BY <1>1, <1>5, SwapKeeps
<1>8. Activated(q, p) = r
  <2>1. Activated(q, p) = [q EXCEPT !.pipes = b, !.active = a + 1]
    BY <1>0, <1>4 DEF Activated
  <2> HIDE DEF b
  <2> QED
    BY <1>0, <1>5, <1>6, <2>1, Renewed
<1>9. r \in Kinds /\ r.pipes = b /\ r.active = a + 1 /\ r.current = c /\ Like(q, r)
  <2> HIDE DEF b
  <2> QED
    BY <1>1, <1>5, <1>6, Updated
<1> HIDE DEF b, r
<1>10. b[a + 1] = p /\ \A k \in 1 .. a : b[k] = s[k]
  BY <1>1, <1>2, <1>3, <1>5, <1>6
<1>11. First(b, a + 1) = First(s, a) \cup {p}
  <2>1. \A k \in 1 .. a + 1 : k \in 1 .. a \/ k = a + 1
    BY <1>1
  <2>2. \A k \in 1 .. a : k \in 1 .. a + 1
    BY <1>1
  <2>3. a + 1 \in 1 .. a + 1
    BY <1>1
  <2>4. \A x : x \in First(b, a + 1) => x \in First(s, a) \cup {p}
    BY <1>10, <2>1 DEF First
  <2>5. \A x : x \in First(s, a) \cup {p} => x \in First(b, a + 1)
    BY <1>10, <2>2, <2>3 DEF First
  <2> QED
    BY <2>4, <2>5
<1>12. Arranged(r)
  <2>1. DOMAIN b = 1 .. Len(s)
    BY <1>6
  <2>2. a = 0 => c = 0
    BY <1>0 DEF Arranged
  <2>3. a # 0 => c < a
    BY <1>0 DEF Arranged
  <2> QED
    BY <1>1, <1>3, <1>6, <1>9, <2>2, <2>3 DEF Arranged, Once
<1>13. Attached(r) = Attached(q)
  BY <1>0, <1>6, <1>7, <1>9 DEF Attached
<1>14. ActivePart(r) = ActivePart(q) \cup {p}
  BY <1>0, <1>9, <1>11 DEF ActivePart
<1> QED
  BY <1>0, <1>8, <1>9, <1>10, <1>12, <1>13, <1>14

(* A pipe that was in the active part already: it moves to the place that  *)
(* is added, and another one, not an active one, takes its place.          *)
LEMMA Reactivating ==
  ASSUME NEW q \in Kinds, Arranged(q), NEW p \in ActivePart(q), q.active < Len(q.pipes)
  PROVE  LET r == Activated(q, p)
             x == q.pipes[q.active + 1]
         IN  /\ r \in Kinds /\ Like(q, r) /\ Arranged(r)
             /\ r.active = q.active + 1 /\ r.current = q.current
             /\ Attached(r) = Attached(q)
             /\ ActivePart(r) = ActivePart(q) \cup {x} /\ x \notin ActivePart(q)
             /\ \A k \in 1 .. q.active : r.pipes[k] = IF q.pipes[k] = p THEN x ELSE q.pipes[k]
             /\ r.pipes[q.active + 1] = p
<1>0. PICK s, a, c, x : s = q.pipes /\ a = q.active /\ c = q.current /\ x = q.pipes[q.active + 1]
  OBVIOUS
<1>1. /\ s \in Seq(Pipes) /\ Len(s) \in Nat /\ a \in 0 .. Len(s) - 1 /\ c \in Nat /\ Once(s)
  <2>1. s \in Seq(Pipes) /\ Len(s) \in Nat /\ a \in 0 .. Len(s) /\ c \in Nat /\ Once(s) /\ a < Len(s)
    BY <1>0, Fields, Shorter
  <2> QED
    BY <2>1
<1>2. PICK l \in 1 .. a : s[l] = p
  BY <1>0 DEF ActivePart, First
<1>3. /\ l \in 1 .. Len(s) /\ l \in 0 .. Len(s) /\ DOMAIN s = 1 .. Len(s)
      /\ l - 1 \in 0 .. Len(s) - 1 /\ (l - 1) + 1 = l /\ a + 1 \in Nat /\ a + 1 \in 1 .. Len(s)
      /\ Len(s) \in 0 .. Len(s) /\ a + 1 \in 0 .. Len(s) /\ l - 1 \in 0 .. (a + 1) - 1 /\ a \in 0 .. (a + 1) - 1
      /\ a \in 0 .. Len(s) - 1
  BY <1>1, <1>2
<1>4. Place(s, p) = l - 1
  BY <1>1, <1>2, <1>3, Placed
<1> DEFINE b == Swap(s, l - 1, a)
           r == [q EXCEPT !.pipes = b, !.active = a + 1, !.current = c]
<1>6. /\ b \in Seq(Pipes) /\ Len(b) = Len(s) /\ Once(b)
      /\ \A k \in 1 .. Len(s) : b[k] = IF k = (l - 1) + 1 THEN s[a + 1]
                                       ELSE IF k = a + 1 THEN s[(l - 1) + 1] ELSE s[k]
  BY <1>1, <1>3, Swapping
<1>7. First(b, Len(s)) = First(s, Len(s))
  BY <1>1, <1>3, SwapKeeps
<1>8. First(b, a + 1) = First(s, a + 1)
  BY <1>1, <1>3, SwapKeeps
<1>9. Activated(q, p) = r
  <2>1. Activated(q, p) = [q EXCEPT !.pipes = b, !.active = a + 1]
    BY <1>0, <1>4 DEF Activated
  <2> HIDE DEF b
  <2> QED
    BY <1>0, <1>3, <1>6, <2>1, Renewed
<1>10. r \in Kinds /\ r.pipes = b /\ r.active = a + 1 /\ r.current = c /\ Like(q, r)
  <2> HIDE DEF b
  <2> QED
    BY <1>1, <1>3, <1>6, Updated
<1> HIDE DEF b, r
<1>11. \A k \in 1 .. a : k \in 1 .. Len(s) /\ k \in DOMAIN s /\ k # a + 1 /\ k \in 1 .. a + 1
  BY <1>1, <1>3
<1>12. b[a + 1] = p /\ \A k \in 1 .. a : b[k] = IF s[k] = p THEN x ELSE s[k]
  <2>1. b[a + 1] = p
    BY <1>2, <1>3, <1>6, <1>11
  <2>2. \A k \in 1 .. a : s[k] = p => k = l
    BY <1>1, <1>2, <1>11 DEF Once
  <2> QED
    BY <1>0, <1>2, <1>3, <1>6, <1>11, <2>1, <2>2
<1>13. First(s, a + 1) = First(s, a) \cup {x} /\ x \notin First(s, a)
  <2>1. \A k \in 1 .. a + 1 : k \in 1 .. a \/ k = a + 1
    BY <1>1
  <2>2. a + 1 \in 1 .. a + 1
    BY <1>1
  <2>3. \A k \in 1 .. a : s[k] # s[a + 1]
    BY <1>1, <1>3, <1>11 DEF Once
  <2>4. \A y : y \in First(s, a + 1) => y \in First(s, a) \cup {x}
    BY <1>0, <2>1 DEF First
  <2>5. \A y : y \in First(s, a) \cup {x} => y \in First(s, a + 1)
    BY <1>0, <1>11, <2>2 DEF First
  <2> QED
    BY <1>0, <2>3, <2>4, <2>5 DEF First
<1>14. Arranged(r)
  <2>1. DOMAIN b = 1 .. Len(s)
    BY <1>6
  <2>2. a > 0 /\ c < a
    BY <1>0, <1>1, <1>2 DEF Arranged
  <2> QED
    BY <1>1, <1>6, <1>10, <2>1, <2>2 DEF Arranged, Once
<1>15. Attached(r) = Attached(q)
  BY <1>0, <1>6, <1>7, <1>10 DEF Attached
<1>16. ActivePart(r) = ActivePart(q) \cup {x} /\ x \notin ActivePart(q)
  BY <1>0, <1>8, <1>10, <1>13 DEF ActivePart
<1> QED
  BY <1>0, <1>9, <1>10, <1>12, <1>14, <1>15, <1>16

LEMMA Attaching ==
  ASSUME NEW q \in Kinds, Arranged(q), NEW p \in Pipes, p \notin Attached(q)
  PROVE  LET r == Attach(q, p)
         IN  /\ r \in Kinds /\ Like(q, r) /\ Arranged(r)
             /\ r.active = q.active + 1 /\ r.current = q.current
             /\ Attached(r) = Attached(q) \cup {p}
             /\ ActivePart(r) = ActivePart(q) \cup {p}
             /\ \A k \in 1 .. q.active : r.pipes[k] = q.pipes[k]
             /\ r.pipes[q.active + 1] = p
<1>0. PICK s, a, c : s = q.pipes /\ a = q.active /\ c = q.current
  OBVIOUS
<1>1. /\ s \in Seq(Pipes) /\ Len(s) \in Nat /\ a \in 0 .. Len(s) /\ c \in Nat /\ Once(s)
  BY <1>0, Fields, Shorter
<1>2. \A k \in 1 .. Len(s) : s[k] # p
  BY <1>0 DEF Attached, First
<1> DEFINE b == Append(s, p)
           t == [q EXCEPT !.pipes = b, !.active = a, !.current = c]
<1>3. /\ b \in Seq(Pipes) /\ Len(b) = Len(s) + 1 /\ Once(b)
      /\ \A k \in 1 .. Len(s) + 1 : b[k] = IF k = Len(s) + 1 THEN p ELSE s[k]
  BY <1>1, <1>2, Appending
<1>4. Attach(q, p) = Activated(t, p)
  <2>1. Attach(q, p) = Activated([q EXCEPT !.pipes = b], p)
    BY <1>0 DEF Attach
  <2>2. [q EXCEPT !.pipes = b] = t
    <3> HIDE DEF b
    <3> QED
      BY <1>0, <1>1, <1>3, Renewed
  <2> QED
    BY <2>1, <2>2
<1>5. t \in Kinds /\ t.pipes = b /\ t.active = a /\ t.current = c /\ Like(q, t)
  <2>1. a \in Nat /\ c \in Nat /\ b \in Seq(Pipes)
    BY <1>1, <1>3
  <2> HIDE DEF b
  <2> QED
    BY <2>1, Updated
<1> HIDE DEF b, t
<1>6. \A k \in 1 .. a : b[k] = s[k] /\ k \in 1 .. Len(s)
  BY <1>1, <1>3
<1>7. First(b, Len(b)) = First(s, Len(s)) \cup {p}
  <2>1. \A k \in 1 .. Len(s) + 1 : k \in 1 .. Len(s) \/ k = Len(s) + 1
    BY <1>1
  <2>2. Len(s) + 1 \in 1 .. Len(s) + 1 /\ \A k \in 1 .. Len(s) : k \in 1 .. Len(s) + 1 /\ k # Len(s) + 1
    BY <1>1
  <2>3. \A x : x \in First(b, Len(s) + 1) => x \in First(s, Len(s)) \cup {p}
    BY <1>3, <2>1, <2>2 DEF First
  <2>4. \A x : x \in First(s, Len(s)) \cup {p} => x \in First(b, Len(s) + 1)
    BY <1>3, <2>2 DEF First
  <2> QED
    BY <1>3, <2>3, <2>4
<1>8. First(b, a) = First(s, a)
  BY <1>6 DEF First
<1>9. Attached(t) = Attached(q) \cup {p} /\ ActivePart(t) = ActivePart(q)
  BY <1>0, <1>5, <1>7, <1>8 DEF Attached, ActivePart
<1>10. Arranged(t)
  <2>1. DOMAIN b = 1 .. Len(s) + 1 /\ a <= Len(s) + 1
    BY <1>1, <1>3
  <2>2. IF a = 0 THEN c = 0 ELSE c < a
    BY <1>0 DEF Arranged
  <2> QED
    BY <1>3, <1>5, <2>1, <2>2 DEF Arranged, Once
<1>11. p \in Attached(t) /\ p \notin ActivePart(t)
  BY <1>0, <1>1, <1>2, <1>6, <1>9 DEF ActivePart, First
<1> DEFINE r == Activated(t, p)
<1>12. /\ r \in Kinds /\ Like(t, r) /\ Arranged(r)
       /\ r.active = t.active + 1 /\ r.current = t.current
       /\ Attached(r) = Attached(t)
       /\ ActivePart(r) = ActivePart(t) \cup {p}
       /\ \A k \in 1 .. t.active : r.pipes[k] = t.pipes[k]
       /\ r.pipes[t.active + 1] = p
  BY <1>5, <1>10, <1>11, Activating
<1> HIDE DEF r
<1>13. Like(q, r)
  BY <1>5, <1>12 DEF Like
<1>14. Attach(q, p) = r
  BY <1>4 DEF r
<1>15. \A k \in 1 .. a : r.pipes[k] = s[k]
  BY <1>5, <1>6, <1>12
<1> QED
  BY <1>0, <1>5, <1>9, <1>12, <1>13, <1>14, <1>15

LEMMA EraseDrops ==
  ASSUME NEW S, NEW s \in Seq(S), Once(s), NEW i \in 0 .. Len(s) - 1
  PROVE  First(Erase(s, i), Len(s) - 1) = First(s, Len(s)) \ {s[i + 1]}
<1>1. PICK m : m = Len(s)
  OBVIOUS
<1>2. m \in 1 .. Len(s) /\ i \in 0 .. m - 1 /\ m - 1 \in Nat /\ m - 1 \in 0 .. Len(s) - 1
  BY <1>1
<1> DEFINE b == Swap(s, i, m - 1)
<1>3. First(b, m - 1) = First(s, m) \ {s[i + 1]}
      /\ \A k \in 1 .. m - 1 : b[k] = IF k = i + 1 THEN s[m] ELSE s[k]
  BY <1>2, SwapLast
<1>4. \A k \in 1 .. m - 1 : Erase(s, i)[k] = IF k = i + 1 THEN s[m] ELSE s[k]
  BY <1>1, Erasing
<1> HIDE DEF b
<1>5. \A k \in 1 .. m - 1 : Erase(s, i)[k] = b[k]
  BY <1>3, <1>4
<1>6. First(Erase(s, i), m - 1) = First(b, m - 1)
  BY <1>5 DEF First
<1> QED
  BY <1>1, <1>3, <1>6

LEMMA Ranked ==
  ASSUME NEW q \in Kinds, Arranged(q), NEW k \in 1 .. q.active
  PROVE  Rank(q, k - 1) \in 0 .. N - 1
<1>1. PICK a, c, l : a = q.active /\ c = q.current /\ l = Len(q.pipes)
  OBVIOUS
<1>2. a \in Nat /\ c \in Nat /\ l \in Nat /\ N \in Nat /\ l <= N /\ a <= l /\ k \in 1 .. a /\ c < a
  <2>1. a \in Nat /\ c \in Nat /\ l \in Nat /\ N \in Nat /\ l <= N /\ a \in 0 .. l
    BY <1>1, Fields, Shorter
  <2>2. k \in 1 .. a /\ c < a
    BY <1>1, <2>1 DEF Arranged
  <2> QED
    BY <2>1, <2>2
<1> QED
  BY <1>1, <1>2 DEF Rank

LEMMA Terminating ==
  ASSUME NEW q \in Kinds, Arranged(q), NEW p \in Attached(q)
  PROVE  LET r == Terminated(q, p)
         IN  /\ r \in Kinds /\ Like(q, r) /\ Arranged(r)
             /\ Attached(r) = Attached(q) \ {p}
             /\ ActivePart(r) = ActivePart(q) \ {p}
             /\ q.more /\ q.active > 0 /\ At(q) # p /\ ~Jumps(q, p) => r.active > 0 /\ At(r) = At(q)
             /\ Jumps(q, p) => /\ q.active > 0 /\ At(q) # p
                               /\ r.active > 0 /\ At(r) = q.pipes[1] /\ At(r) # p
<1>0. PICK s, a, c : s = q.pipes /\ a = q.active /\ c = q.current
  OBVIOUS
<1>1. /\ s \in Seq(Pipes) /\ Len(s) \in Nat /\ a \in 0 .. Len(s) /\ c \in Nat /\ Once(s)
      /\ IF a = 0 THEN c = 0 ELSE c < a
  BY <1>0, Fields, Shorter DEF Arranged
<1>2. PICK l \in 1 .. Len(s) : s[l] = p
  BY <1>0 DEF Attached, First
<1>3. Place(s, p) = l - 1
  BY <1>1, <1>2, Placed
<1>4. l - 1 \in 0 .. Len(s) - 1 /\ (l - 1) + 1 = l /\ Len(s) \in 0 .. Len(s) /\ Len(s) \in 1 .. Len(s)
  BY <1>1, <1>2
<1>6. CASE l > a
  <2> DEFINE e == Erase(s, l - 1)
             r == [q EXCEPT !.pipes = e, !.active = a, !.current = c]
  <2>1. e \in Seq(Pipes) /\ Len(e) = Len(s) - 1 /\ Once(e)
        /\ \A k \in 1 .. Len(s) - 1 : e[k] = IF k = (l - 1) + 1 THEN s[Len(s)] ELSE s[k]
    BY <1>1, <1>4, Erasing
  <2>2. First(e, Len(s) - 1) = First(s, Len(s)) \ {p}
    <3>1. First(e, Len(s) - 1) = First(s, Len(s)) \ {s[(l - 1) + 1]}
      BY <1>1, <1>4, EraseDrops
    <3> QED
      BY <1>2, <1>4, <3>1
  <2>3. Terminated(q, p) = r
    <3>1. Terminated(q, p) = [q EXCEPT !.pipes = e]
      <4>1. ~(l - 1 < a)
        BY <1>1, <1>6
      <4> QED
        BY <1>0, <1>3, <4>1 DEF Terminated
    <3> HIDE DEF e
    <3> QED
      BY <1>0, <1>1, <2>1, <3>1, Renewed
  <2> HIDE DEF e, r
  <2>4. \A k \in 1 .. a : e[k] = s[k] /\ s[k] # p /\ k \in 1 .. Len(s)
    <3>1. \A k \in 1 .. a : k \in 1 .. Len(s) - 1 /\ k # l /\ k \in 1 .. Len(s)
      BY <1>1, <1>6
    <3>2. DOMAIN s = 1 .. Len(s)
      BY <1>1
    <3> QED
      BY <1>1, <1>2, <1>4, <2>1, <3>1, <3>2 DEF Once
  <2>5. First(e, a) = First(s, a) \ {p}
    BY <2>4 DEF First
  <2>6. /\ a \in Nat /\ a <= Len(e) /\ c \in Nat /\ First(e, Len(e)) = Attached(q) \ {p}
        /\ First(e, a) = ActivePart(q) \ {p}
    BY <1>0, <1>1, <1>6, <2>1, <2>2, <2>5 DEF Attached, ActivePart
  <2>8. /\ r \in Kinds /\ Like(q, r) /\ Arranged(r)
        /\ r.pipes = e /\ r.active = a /\ r.current = c
        /\ Attached(r) = Attached(q) \ {p} /\ ActivePart(r) = ActivePart(q) \ {p}
    <3>1. e \in Seq(Pipes) /\ Once(e) /\ a \in Nat /\ a <= Len(e) /\ c \in Nat
      BY <2>1, <2>6
    <3>2. (a = 0 => c = 0) /\ (a # 0 => c < a)
      BY <1>1
    <3>3. r \in Kinds /\ r.pipes = e /\ r.active = a /\ r.current = c /\ Like(q, r)
      BY <3>1, Updated DEF r
    <3>4. Arranged(r)
      BY <3>1, <3>2, <3>3 DEF Arranged, Once
    <3>5. Attached(r) = First(e, Len(e)) /\ ActivePart(r) = First(e, a)
      BY <3>3 DEF Attached, ActivePart
    <3> QED
      BY <2>6, <3>3, <3>4, <3>5
  <2>9. q.active > 0 => r.active > 0 /\ At(r) = At(q)
    <3>1. a > 0 => c + 1 \in 1 .. a
      BY <1>1
    <3> QED
      BY <1>0, <2>4, <2>8, <3>1 DEF At
  <2>10. ~Jumps(q, p)
    <3>1. ~(c = a - 1 /\ l - 1 \in 1 .. c - 1)
      BY <1>1, <1>6
    <3> QED
      BY <1>0, <1>3, <3>1 DEF Jumps
  <2> QED
    BY <2>3, <2>8, <2>9, <2>10
<1>7. CASE l <= a
  <2> DEFINE b == Swap(s, l - 1, a - 1)
             e == Erase(b, a - 1)
             d == IF c = a - 1 THEN 0 ELSE c
             r == [q EXCEPT !.pipes = e, !.active = a - 1, !.current = d]
  <2>1. /\ a - 1 \in 0 .. Len(s) - 1 /\ a \in 1 .. Len(s) /\ l - 1 \in 0 .. a - 1 /\ a - 1 \in Nat
        /\ (a - 1) + 1 = a /\ l - 1 < a /\ d \in Nat /\ Len(s) - 1 \in Nat
    BY <1>1, <1>7
  <2>2. b \in Seq(Pipes) /\ Len(b) = Len(s) /\ Once(b)
        /\ \A k \in 1 .. Len(s) : b[k] = IF k = (l - 1) + 1 THEN s[(a - 1) + 1]
                                         ELSE IF k = (a - 1) + 1 THEN s[(l - 1) + 1] ELSE s[k]
    BY <1>1, <1>4, <2>1, Swapping
  <2>3. First(b, Len(s)) = First(s, Len(s))
    BY <1>1, <1>4, <2>1, SwapKeeps
  <2>4. /\ First(b, a - 1) = First(s, a) \ {s[(l - 1) + 1]}
        /\ \A k \in 1 .. a - 1 : b[k] = IF k = (l - 1) + 1 THEN s[a] ELSE s[k]
    BY <1>1, <2>1, SwapLast
  <2>5. b[a] = p
    BY <1>2, <1>4, <2>1, <2>2
  <2>6. r = Terminated(q, p)
    BY <1>0, <1>3, <2>1 DEF Terminated
  <2> HIDE DEF b
  <2>7. e \in Seq(Pipes) /\ Len(e) = Len(b) - 1 /\ Once(e)
        /\ \A k \in 1 .. Len(b) - 1 : e[k] = IF k = (a - 1) + 1 THEN b[Len(b)] ELSE b[k]
    <3>1. a - 1 \in 0 .. Len(b) - 1
      BY <2>1, <2>2
    <3> QED
      BY <2>2, <3>1, Erasing
  <2>8. First(e, Len(b) - 1) = First(b, Len(b)) \ {b[(a - 1) + 1]}
    <3>1. a - 1 \in 0 .. Len(b) - 1
      BY <2>1, <2>2
    <3> QED
      BY <2>2, <3>1, EraseDrops
  <2> HIDE DEF e
  <2>9. First(e, Len(s) - 1) = First(s, Len(s)) \ {p}
    BY <2>1, <2>2, <2>3, <2>5, <2>8
  <2>10. \A k \in 1 .. a - 1 : e[k] = b[k]
    <3>1. \A k \in 1 .. a - 1 : k \in 1 .. Len(b) - 1 /\ k # (a - 1) + 1
      BY <1>1, <2>1, <2>2
    <3> QED
      BY <2>7, <3>1
  <2>11. First(e, a - 1) = First(s, a) \ {p}
    <3>1. First(e, a - 1) = First(b, a - 1)
      BY <2>10 DEF First
    <3> QED
      BY <1>2, <1>4, <2>4, <3>1
  <2>12. IF a - 1 = 0 THEN d = 0 ELSE d < a - 1
    BY <1>1, <2>1
  <2>13. ASSUME s[c + 1] # p, q.more, ~Jumps(q, p) PROVE a - 1 > 0 /\ e[d + 1] = s[c + 1]
    <3>1. c + 1 # l /\ c \in 0 .. a - 1 /\ c # l - 1
      BY <1>1, <1>2, <2>1, <2>13
    <3>2. ~(c = a - 1 /\ l - 1 \in 1 .. c - 1)
      BY <1>0, <1>3, <2>13 DEF Jumps
    <3>3. CASE c = a - 1
      <4>1. l = 1 /\ a - 1 > 0
        BY <1>1, <2>1, <3>1, <3>2, <3>3
      <4>2. 1 \in 1 .. a - 1 /\ d = 0 /\ a = c + 1
        BY <2>1, <3>1, <3>3, <4>1
      <4>3. e[1] = s[a]
        BY <2>4, <2>10, <4>1, <4>2
      <4> QED
        BY <4>1, <4>2, <4>3
    <3>4. CASE c # a - 1
      <4>1. c + 1 \in 1 .. a - 1 /\ d = c /\ a - 1 > 0 /\ c + 1 # (l - 1) + 1
        BY <2>1, <3>1, <3>4
      <4>2. e[c + 1] = s[c + 1]
        BY <2>4, <2>10, <4>1
      <4> QED
        BY <4>1, <4>2
    <3> QED
      BY <3>3, <3>4
  <2>14. /\ a - 1 <= Len(e) /\ First(e, Len(e)) = Attached(q) \ {p}
         /\ First(e, a - 1) = ActivePart(q) \ {p}
    BY <1>0, <1>1, <2>1, <2>2, <2>7, <2>9, <2>11 DEF Attached, ActivePart
  <2> HIDE DEF r, d
  <2>16. /\ r \in Kinds /\ Like(q, r) /\ Arranged(r)
         /\ r.pipes = e /\ r.active = a - 1 /\ r.current = d
         /\ Attached(r) = Attached(q) \ {p} /\ ActivePart(r) = ActivePart(q) \ {p}
    <3>1. e \in Seq(Pipes) /\ Once(e) /\ a - 1 \in Nat /\ a - 1 <= Len(e) /\ d \in Nat
      BY <2>1, <2>7, <2>14
    <3>2. (a - 1 = 0 => d = 0) /\ (a - 1 # 0 => d < a - 1)
      BY <2>12
    <3>3. r \in Kinds /\ r.pipes = e /\ r.active = a - 1 /\ r.current = d /\ Like(q, r)
      BY <3>1, Updated DEF r
    <3>4. Arranged(r)
      BY <3>1, <3>2, <3>3 DEF Arranged, Once
    <3>5. Attached(r) = First(e, Len(e)) /\ ActivePart(r) = First(e, a - 1)
      BY <3>3 DEF Attached, ActivePart
    <3> QED
      BY <2>14, <3>3, <3>4, <3>5
  <2>17. q.more /\ q.active > 0 /\ At(q) # p /\ ~Jumps(q, p) => r.active > 0 /\ At(r) = At(q)
    BY <1>0, <2>13, <2>16 DEF At
  <2>18. ASSUME Jumps(q, p)
         PROVE  /\ q.active > 0 /\ At(q) # p
                /\ r.active > 0 /\ At(r) = q.pipes[1] /\ At(r) # p
    <3>1. c = a - 1 /\ l - 1 \in 1 .. c - 1
      BY <1>0, <1>3, <2>18 DEF Jumps
    <3>2. /\ a > 0 /\ a - 1 > 0 /\ d = 0 /\ 1 \in 1 .. a - 1 /\ 1 # (l - 1) + 1
          /\ c + 1 # l /\ 1 # l /\ c + 1 \in DOMAIN s /\ 1 \in DOMAIN s /\ l \in DOMAIN s
      BY <1>1, <1>2, <2>1, <3>1 DEF d
    <3>3. e[1] = s[1]
      BY <2>4, <2>10, <3>2
    <3>4. s[1] # p /\ s[c + 1] # p
      BY <1>1, <1>2, <3>2 DEF Once
    <3> QED
      BY <1>0, <2>16, <3>2, <3>3, <3>4 DEF At
  <2> QED
    BY <2>6, <2>16, <2>17, <2>18
<1> QED
  BY <1>1, <1>6, <1>7

LEMMA Modulo ==
  ASSUME NEW a \in Nat, NEW c \in Nat, c < a
  PROVE  (c + 1) % a = IF c + 1 = a THEN 0 ELSE c + 1
<1>1. CASE c + 1 = a
  <2>1. a > 0 /\ a % a = 0
    OBVIOUS
  <2> QED
    BY <1>1, <2>1
<1>2. CASE c + 1 # a
  <2>1. c + 1 \in Nat /\ c + 1 < a /\ a > 0
    BY <1>2
  <2> QED
    BY <1>2, <2>1
<1> QED
  BY <1>1, <1>2

(* The current pipe has had its turn: it is the last one now, and the      *)
(* others are one nearer to theirs.                                        *)
LEMMA TakingTurns ==
  ASSUME NEW q \in Kinds, Arranged(q), q.active > 0, NEW more \in BOOLEAN
  PROVE  LET r == [q EXCEPT !.more = more, !.current = Turned(q, more)]
         IN  /\ r \in Kinds /\ Arranged(r) /\ r.more = more
             /\ q \in Array => r \in Array
             /\ q \in Balancer => r \in Balancer /\ r.dropping = q.dropping
             /\ Attached(r) = Attached(q) /\ ActivePart(r) = ActivePart(q)
             /\ r.pipes = q.pipes /\ r.active = q.active
             /\ more => r.current = q.current /\ At(r) = At(q)
             /\ ~more => \A k \in 1 .. q.active :
                           k # q.current + 1 => Rank(r, k - 1) <= Rank(q, k - 1) - 1
<1>0. PICK a, c, s : a = q.active /\ c = q.current /\ s = q.pipes
  OBVIOUS
<1>1. a \in Nat /\ c \in Nat /\ c < a /\ N \in Nat /\ a <= N /\ s \in Seq(Pipes)
  <2>1. a \in Nat /\ c \in Nat /\ N \in Nat /\ a \in 0 .. Len(s) /\ Len(s) \in Nat /\ Len(s) <= N /\ s \in Seq(Pipes)
    BY <1>0, Fields, Shorter
  <2>2. c < a
    BY <1>0, <2>1 DEF Arranged
  <2> QED
    BY <2>1, <2>2
<1>2. PICK d : d = Turned(q, more)
  OBVIOUS
<1>3. d = IF more THEN c ELSE IF c + 1 = a THEN 0 ELSE c + 1
  BY <1>0, <1>1, <1>2, Modulo DEF Turned
<1>4. d \in Nat /\ d < a
  BY <1>1, <1>3
<1> DEFINE r == [q EXCEPT !.more = more, !.current = d]
<1>5. /\ r \in Kinds /\ r.more = more /\ r.pipes = s /\ r.active = a /\ r.current = d
      /\ q \in Array => r \in Array
      /\ q \in Balancer => r \in Balancer /\ r.dropping = q.dropping
  <2>1. CASE q \in Array
    BY <1>0, <1>4, <2>1 DEF Array, Balancer, Kinds
  <2>2. CASE q \in Balancer
    BY <1>0, <1>4, <2>2 DEF Array, Balancer, Kinds
  <2> QED
    BY <2>1, <2>2 DEF Kinds
<1>6. r = [q EXCEPT !.more = more, !.current = Turned(q, more)]
  BY <1>2
<1> HIDE DEF r
<1>7. Arranged(r)
  BY <1>0, <1>1, <1>4, <1>5 DEF Arranged
<1>8. Attached(r) = Attached(q) /\ ActivePart(r) = ActivePart(q)
  BY <1>0, <1>5 DEF Attached, ActivePart
<1>9. more => r.current = c /\ At(r) = At(q)
  BY <1>0, <1>3, <1>5 DEF At
<1>10. ~more => \A k \in 1 .. a : k # c + 1 => Rank(r, k - 1) <= Rank(q, k - 1) - 1
  BY SMTT(30), <1>0, <1>1, <1>3, <1>5 DEF Rank
<1> QED
  BY <1>0, <1>5, <1>6, <1>7, <1>8, <1>9, <1>10
-----------------------------------------------------------------------------
(* The invariant, one direction at a time. *)

Held == {p \in Pipes : st[p] \notin {"new", "gone"}}

Base ==
  /\ traffic \in Traffic
  /\ st \in [Pipes -> State]
  /\ inq \in [Pipes -> Seq({"more", "last", "delimiter"})]
  /\ out \in [Pipes -> Seq(Message)] /\ open \in [Pipes -> Parts]
  /\ used \in [Pipes -> 0 .. Hwm]
  /\ in_active \in [Pipes -> BOOLEAN] /\ out_active \in [Pipes -> BOOLEAN]
  /\ next \in 1 .. MaxPart
  /\ from \in Pipes \cup {None}
  /\ fate \in {"running", "aborted", "undefined"}
  /\ waits \in [Pipes -> Nat]
  /\ half \subseteq Pipes /\ astray \subseteq Pipes /\ torn \subseteq Pipes
  /\ misplaced \in BOOLEAN

Unsplit(parts) ==
  \A i \in DOMAIN parts : parts[i] = "more" => i < Len(parts) /\ parts[i + 1] # "delimiter"

Incoming ==
  /\ fq \in Array /\ Arranged(fq) /\ Attached(fq) = Held
  /\ \A p \in Readable : in_active[p] <=> p \in ActivePart(fq)
  /\ \A p \in Pipes : st[p] = "new" => in_active[p]
  /\ \A p \in Pipes : Unsplit(inq[p])
  /\ fq.more <=> from # None
  /\ from # None => from \in half
  /\ from \in astray \/ RestIsThere
  /\ half \subseteq astray \cup {from}
  /\ fate = "aborted" => from \in astray

WholeOrTorn(m) == m.torn \/ Whole(m.parts)

WholeOut ==
  \A p \in Pipes : /\ \A i \in DOMAIN out[p] : WholeOrTorn(out[p][i])
                   /\ p \in torn \/ Whole(open[p])

(* out_active, where it matters, and the active part of lb *)
Flagged(p) ==
  /\ out_active[p] => p \in ActivePart(lb)
  /\ p \in ActivePart(lb) => out_active[p] \/ misplaced

Outgoing ==
  /\ lb \in Balancer /\ Arranged(lb) /\ Attached(lb) = Held
  /\ \A p \in Pipes : st[p] = "active" => Flagged(p)
  /\ \A p \in Pipes : st[p] = "new" => out_active[p]
  /\ fate = "undefined" => misplaced
  /\ Writing
  /\ WholeOut

Sound == Base /\ Incoming /\ Outgoing

LEMMA Both == IInv <=> Sound /\ (OneWay => Turning)
<1>1. IInv => Sound /\ (OneWay => Turning)
  <2> SUFFICES ASSUME IInv PROVE Sound /\ (OneWay => Turning)
    OBVIOUS
  <2>1. Base
    BY DEF IInv, Typed, TypeOK, Base
  <2>2. /\ Arranged(fq) /\ Attached(fq) = Held
        /\ Arranged(lb) /\ Attached(lb) = Held
    BY DEF IInv, Arrays, Held
  <2>3. Incoming
    BY <2>2 DEF IInv, Typed, Flags, Reading, WholeMessages, Incoming, Unsplit
  <2>4. WholeOut
    BY DEF IInv, WholeMessages, WholeOut, WholeOrTorn
  <2>5. Outgoing
    BY <2>2, <2>4 DEF IInv, Typed, Flags, Flagged, Outgoing
  <2> QED
    BY <2>1, <2>3, <2>5 DEF IInv, Sound
<1>2. Sound /\ (OneWay => Turning) => IInv
  <2> SUFFICES ASSUME Sound, OneWay => Turning PROVE IInv
    OBVIOUS
  <2> USE DEF Sound
  <2>1. \A q \in {fq, lb} : q \in Kinds /\ Arranged(q) /\ Attached(q) = Held
    BY DEF Incoming, Outgoing, Kinds
  <2>2. \A q \in {fq, lb} : q.active \in 0 .. Len(q.pipes) /\ q.current \in 0 .. q.active /\ q.more \in BOOLEAN
    <3> TAKE q \in {fq, lb}
    <3>1. q \in Kinds /\ Arranged(q)
      BY <2>1
    <3>2. q.active \in 0 .. Len(q.pipes) /\ q.current \in Nat /\ q.more \in BOOLEAN /\ q.active \in Nat
      BY <3>1, Fields, Shorter
    <3>3. q.current <= q.active
      BY <3>1, <3>2 DEF Arranged
    <3> QED
      BY <3>2, <3>3
  <2>3. lb.dropping \in BOOLEAN
    BY DEF Outgoing, Balancer
  <2>4. Typed
    BY <2>2, <2>3 DEF Typed, TypeOK, Base, Incoming, Outgoing
  <2>5. Arrays
    BY <2>1 DEF Arrays, Held
  <2>6. Flags
    BY DEF Flags, Flagged, Incoming, Outgoing
  <2>7. Reading /\ Writing
    BY DEF Reading, Incoming, Outgoing, Unsplit
  <2>8. WholeMessages
    BY DEF WholeMessages, WholeOut, WholeOrTorn, Incoming, Outgoing
  <2> QED
    BY <2>4, <2>5, <2>6, <2>7, <2>8 DEF IInv
<1> QED
  BY <1>1, <1>2

LEMMA Assumed ==
  /\ N \in Nat /\ Hwm \in Nat /\ MaxPart \in Nat /\ N >= 1 /\ Hwm >= 1 /\ MaxPart >= 1
  /\ Pipes = 1 .. N /\ 0 \notin Pipes /\ None \notin Pipes
  /\ \A t \in Traffic : t \in SUBSET {"in", "out"}
BY DealerAssumption DEF Pipes, None

LEMMA Initially == Init => Sound
<1> SUFFICES ASSUME Init PROVE Sound
  OBVIOUS
<1>1. Base
  <2>1. <<>> \in Seq(Message) /\ <<>> \in Parts /\ <<>> \in Seq({"more", "last", "delimiter"})
    BY DEF Parts
  <2>2. 1 \in 1 .. MaxPart /\ 0 \in 0 .. Hwm
    BY Assumed
  <2> QED
    BY <2>1, <2>2 DEF Init, Base, State
<1>2. Held = {} /\ Readable = {}
  BY DEF Init, Held, Readable
<1>3. fq \in Array /\ lb \in Balancer
  BY DEF Init, Array, Balancer
<1>4. Arranged(fq) /\ Arranged(lb)
  BY DEF Init, Arranged
<1>5. Attached(fq) = {} /\ Attached(lb) = {}
  BY DEF Init, Attached, First
<1>6. Incoming
  <2>1. \A p \in Pipes : Unsplit(inq[p])
    BY DEF Init, Unsplit
  <2>2. RestIsThere /\ (fq.more <=> from # None)
    BY DEF Init, RestIsThere
  <2>3. \A p \in Pipes : st[p] = "new" => in_active[p]
    BY DEF Init
  <2>4. from = None /\ half = {} /\ fate = "running"
    BY DEF Init
  <2> QED
    BY <1>2, <1>3, <1>4, <1>5, <2>1, <2>2, <2>3, <2>4 DEF Incoming
<1>7. Outgoing
  <2>1. WholeOut
    BY DEF Init, WholeOut, Whole
  <2>2. Writing
    BY DEF Init, Writing, Sending
  <2>3. (\A p \in Pipes : st[p] = "new" /\ out_active[p]) /\ fate = "running"
    BY DEF Init
  <2> QED
    BY <1>2, <1>3, <1>4, <1>5, <2>1, <2>2, <2>3 DEF Outgoing
<1> QED
  BY <1>1, <1>6, <1>7 DEF Sound

(* A pipe that is not read, written or terminated stays in its arrays. *)
Onward ==
  \A p \in Pipes :
    st'[p] = st[p] \/ (p \in Readable /\ st'[p] \in {"waiting_for_delimiter", "closed"})

LEMMA Staying ==
  ASSUME Base, Onward
  PROVE  /\ Held' = Held /\ Readable' \subseteq Readable
         /\ \A p \in Pipes : /\ st'[p] = "new" <=> st[p] = "new"
                             /\ st'[p] = "active" => st[p] = "active"
                             /\ st[p] = "closed" => st'[p] = "closed"
BY DEF Base, Onward, Held, Readable, State

LEMMA Unread ==
  ASSUME Base, Incoming, Onward, UNCHANGED <<in_active, fq, from, half>>, astray \subseteq astray',
         \A p \in Pipes : Unsplit(inq[p])',
         from # None /\ from \in HasMessage /\ from \notin astray' => from \in HasMessage',
         fate' \in {fate, "undefined"}
  PROVE  Incoming'
<1>1. Held' = Held /\ Readable' \subseteq Readable /\ \A p \in Pipes : st'[p] = "new" => st[p] = "new"
  BY Staying
<1>2. (from \in astray \/ RestIsThere)'
  <2>1. SUFFICES ASSUME from \notin astray', fq.more
                 PROVE  fq.active > 0 /\ At(fq) = from /\ from \in HasMessage'
    BY DEF RestIsThere, At
  <2>2. fq.active > 0 /\ At(fq) = from /\ from \in HasMessage /\ from # None
    BY <2>1 DEF Incoming, RestIsThere
  <2> QED
    BY <2>1, <2>2
<1>3. (Attached(fq) = Held)' /\ (Arranged(fq))' /\ ActivePart(fq)' = ActivePart(fq)
  BY <1>1 DEF Incoming, Attached, ActivePart, Arranged
<1>4. (half \subseteq astray \cup {from})' /\ (fate = "aborted" => from \in astray)'
  BY DEF Incoming
<1> QED
  BY <1>1, <1>2, <1>3, <1>4 DEF Incoming

LEMMA Unwritten ==
  ASSUME Base, Outgoing, Onward, Runs, UNCHANGED <<out, used, lb, next, torn, misplaced>>,
         \A p \in Pipes : st'[p] = "active" => out_active'[p] = out_active[p],
         \A p \in Pipes : st[p] = "new" => out_active'[p],
         \A p \in Pipes : open'[p] = open[p] \/ (open'[p] = <<>> /\ st'[p] = "closed"),
         fate' \in {fate, "aborted"}
  PROVE  Outgoing'
<1>1. Held' = Held
      /\ \A p \in Pipes : /\ st'[p] = "new" <=> st[p] = "new"
                          /\ st'[p] = "active" => st[p] = "active"
                          /\ st[p] = "closed" => st'[p] = "closed"
  BY Staying
<1>2. (Attached(lb) = Held)' /\ (Arranged(lb))' /\ ActivePart(lb)' = ActivePart(lb) /\ At(lb)' = At(lb)
  BY <1>1 DEF Outgoing, Attached, ActivePart, Arranged, At
<1>3. WholeOut'
  <2> SUFFICES ASSUME NEW p \in Pipes
               PROVE  /\ \A i \in DOMAIN out'[p] : WholeOrTorn(out'[p][i])
                      /\ p \in torn' \/ Whole(open'[p])
    BY DEF WholeOut, WholeOrTorn, Whole
  <2>1. Whole(<<>>)
    BY DEF Whole
  <2> QED
    BY <2>1 DEF Outgoing, WholeOut
<1>4. Sending' = Sending
  BY DEF Sending
<1>5. Sending => At(lb) \in Pipes
  BY Current DEF Outgoing, Writing, Kinds
<1>6. Writing'
  <2>1. \A p \in Pipes \ torn' : open'[p] # <<>> =>
          Sending' /\ p = At(lb)' /\ (st'[p] = "active" => out_active'[p])
    BY <1>1, <1>2, <1>4 DEF Outgoing, Writing
  <2>2. Sending => /\ lb'.active > 0
                   /\ \/ At(lb) \in torn'
                      \/ ~(st'[At(lb)] = "active" /\ out_active'[At(lb)])
                      \/ Len(open'[At(lb)]) = next' - 1 /\ ~Full(At(lb))'
    <3>1. SUFFICES ASSUME Sending, st'[At(lb)] = "active", out_active'[At(lb)], At(lb) \notin torn
                   PROVE  Len(open'[At(lb)]) = next' - 1 /\ ~Full(At(lb))'
      BY DEF Outgoing, Writing
    <3>2. st[At(lb)] = "active" /\ out_active[At(lb)] /\ open'[At(lb)] = open[At(lb)]
      BY <1>1, <1>5, <3>1
    <3>3. Len(open[At(lb)]) = next - 1 /\ ~Full(At(lb))
      BY <3>1, <3>2 DEF Outgoing, Writing, Writable, Runs
    <3> QED
      BY <1>2, <3>2, <3>3 DEF Full
  <2> QED
    BY <1>2, <1>4, <2>1, <2>2 DEF Outgoing, Writing, Writable, Full
<1>7. \A p \in Pipes : st'[p] = "active" => Flagged(p)'
  BY <1>1, <1>2 DEF Outgoing, Flagged
<1>8. (fate = "undefined" => misplaced)'
  BY DEF Outgoing
<1> QED
  BY <1>1, <1>2, <1>3, <1>6, <1>7, <1>8 DEF Outgoing

-----------------------------------------------------------------------------
(* The peers. *)

LEMMA WritePeer ==
  ASSUME Sound, NEW p \in Pipes, PeerWrite(p)
  PROVE  Sound'
<1> USE DEF Sound
<1>1. PICK n \in 1 .. MaxPart :
        inq' = [inq EXCEPT ![p] = [i \in 1 .. n |-> IF i = n THEN "last" ELSE "more"]]
  BY DEF PeerWrite
<1> DEFINE s == [i \in 1 .. n |-> IF i = n THEN "last" ELSE "more"]
<1>2. n \in Nat /\ s \in Seq({"more", "last", "delimiter"}) /\ Len(s) = n /\ DOMAIN s = 1 .. n
  <2>1. n \in Nat
    BY Assumed
  <2>2. s \in [1 .. n -> {"more", "last", "delimiter"}]
    OBVIOUS
  <2> QED
    BY <2>1, <2>2
<1>3. Unsplit(s)
  BY <1>2 DEF Unsplit
<1> HIDE DEF s
<1>4. inq' = [inq EXCEPT ![p] = s]
  BY <1>1 DEF s
<1>5. inq' \in [Pipes -> Seq({"more", "last", "delimiter"})] /\ \A x \in Pipes : inq'[x] = IF x = p THEN s ELSE inq[x]
  BY <1>2, <1>4 DEF Base
<1>0. /\ UNCHANGED <<traffic, st, in_active, out, open, used, out_active, waits, fate>>
      /\ UNCHANGED <<fq, from, half, astray, lb, next, torn, misplaced>>
      /\ inq[p] = <<>> /\ fate = "running"
  BY DEF PeerWrite, inVars, outVars, Runs
<1>6. Base' /\ Onward
  BY <1>0, <1>5 DEF Base, Onward
<1>7. \A x \in Pipes : Unsplit(inq[x])'
  <2> TAKE x \in Pipes
  <2>1. Unsplit(inq[x]) /\ (inq[x]' = s \/ inq[x]' = inq[x])
    BY <1>5 DEF Incoming
  <2> QED
    BY <1>3, <2>1 DEF Unsplit
<1>8. from # None /\ from \in HasMessage => from \in HasMessage'
  BY <1>0, <1>5 DEF HasMessage, Readable
<1>9. Incoming'
  BY <1>0, <1>6, <1>7, <1>8, Unread
<1>10. Outgoing'
  BY <1>0, <1>6, Unwritten DEF Outgoing, Runs
<1> QED
  BY <1>6, <1>9, <1>10

LEMMA ReadPeer ==
  ASSUME Sound, NEW p \in Pipes, PeerRead(p)
  PROVE  Sound'
<1> USE DEF Sound
<1>0. /\ UNCHANGED <<traffic, st, inq, in_active, open, used, out_active, waits, fate>>
      /\ UNCHANGED <<fq, from, half, astray, lb, next, torn, misplaced>>
      /\ out[p] # <<>> /\ out' = [out EXCEPT ![p] = Tail(@)]
  BY DEF PeerRead, inVars, outVars
<1>1. PICK s : s = out[p]
  OBVIOUS
<1>2. PICK b : b = Tail(s)
  OBVIOUS
<1>3. s \in Seq(Message) /\ s # <<>> /\ \A i \in DOMAIN s : WholeOrTorn(s[i])
  BY <1>0, <1>1 DEF Base, Outgoing, WholeOut
<1>4. b \in Seq(Message) /\ Len(b) = Len(s) - 1 /\ Len(s) \in Nat /\ DOMAIN s = 1 .. Len(s)
      /\ \A i \in 1 .. Len(s) - 1 : b[i] = s[i + 1]
  BY <1>2, <1>3
<1>5. \A i \in DOMAIN b : WholeOrTorn(b[i])
  <2>1. \A i \in DOMAIN b : i \in 1 .. Len(s) - 1 /\ i + 1 \in DOMAIN s
    BY <1>4
  <2> QED
    BY <1>3, <1>4, <2>1
<1>6. out' \in [Pipes -> Seq(Message)] /\ \A x \in Pipes : out'[x] = IF x = p THEN b ELSE out[x]
  BY <1>0, <1>1, <1>2, <1>4 DEF Base
<1>7. Base' /\ Onward
  BY <1>0, <1>6 DEF Base, Onward
<1>8. HasMessage' = HasMessage
  BY <1>0 DEF HasMessage, Readable
<1>9. \A x \in Pipes : Unsplit(inq[x])'
  BY <1>0 DEF Incoming, Unsplit
<1>10. Incoming'
  BY <1>0, <1>7, <1>8, <1>9, Unread
<1>11. WholeOut'
  <2> SUFFICES ASSUME NEW x \in Pipes
               PROVE  /\ \A i \in DOMAIN out'[x] : WholeOrTorn(out'[x][i])
                      /\ x \in torn' \/ Whole(open'[x])
    BY DEF WholeOut, WholeOrTorn, Whole
  <2> QED
    BY <1>0, <1>5, <1>6 DEF Outgoing, WholeOut
<1>12. Outgoing'
  <2>1. Writing'
    BY <1>0 DEF Outgoing, Writing, Writable, Sending, At, Full
  <2>2. (Attached(lb) = Held)' /\ (Arranged(lb))' /\ ActivePart(lb)' = ActivePart(lb)
    BY <1>0 DEF Outgoing, Attached, ActivePart, Arranged, Held
  <2> QED
    BY <1>0, <1>11, <2>1, <2>2 DEF Outgoing, Flagged
<1> QED
  BY <1>7, <1>10, <1>12

LEMMA TerminatePeer ==
  ASSUME Sound, NEW p \in Pipes, PeerTerminate(p)
  PROVE  Sound'
<1> USE DEF Sound
<1>0. /\ UNCHANGED <<traffic, st, in_active, out, open, used, out_active, waits, fate>>
      /\ UNCHANGED <<fq, from, half, astray, lb, next, torn, misplaced>>
      /\ inq' = [inq EXCEPT ![p] = Append(@, "delimiter")] /\ fate = "running"
  BY DEF PeerTerminate, inVars, outVars, Runs
<1>1. PICK s : s = inq[p]
  OBVIOUS
<1>2. s \in Seq({"more", "last", "delimiter"}) /\ Unsplit(s) /\ Len(s) \in Nat
  BY <1>1 DEF Base, Incoming
<1> DEFINE b == Append(s, "delimiter")
<1>3. /\ b \in Seq({"more", "last", "delimiter"}) /\ Len(b) = Len(s) + 1
      /\ \A k \in 1 .. Len(s) + 1 : b[k] = IF k = Len(s) + 1 THEN "delimiter" ELSE s[k]
  BY <1>2, AppendProperties
<1> HIDE DEF b
<1>4. inq' = [inq EXCEPT ![p] = b]
  BY <1>0, <1>1 DEF b
<1>5. inq' \in [Pipes -> Seq({"more", "last", "delimiter"})] /\ \A x \in Pipes : inq'[x] = IF x = p THEN b ELSE inq[x]
  BY <1>3, <1>4 DEF Base
<1>6. Base' /\ Onward
  BY <1>0, <1>5 DEF Base, Onward
<1>7. Unsplit(b)
  <2>1. \A i \in DOMAIN b : b[i] = "more" => i \in 1 .. Len(s)
    BY <1>2, <1>3
  <2>2. DOMAIN s = 1 .. Len(s)
    BY <1>2
  <2>3. \A i \in 1 .. Len(s) : i < Len(s) => i + 1 \in 1 .. Len(s)
    BY <1>2
  <2> QED
    BY <1>2, <1>3, <2>1, <2>2, <2>3 DEF Unsplit
<1>8. \A x \in Pipes : Unsplit(inq[x])'
  <2> TAKE x \in Pipes
  <2>1. Unsplit(inq[x]) /\ (inq[x]' = b \/ inq[x]' = inq[x])
    BY <1>5 DEF Incoming
  <2> QED
    BY <1>7, <2>1 DEF Unsplit
<1>9. from # None /\ from \in HasMessage => from \in HasMessage'
  <2>1. s # <<>> => b # <<>> /\ Head(b) = Head(s)
    BY <1>2, <1>3
  <2> QED
    BY <1>0, <1>1, <1>5, <2>1 DEF HasMessage, Readable
<1>10. Incoming'
  BY <1>0, <1>6, <1>8, <1>9, Unread
<1>11. Outgoing'
  BY <1>0, <1>6, Unwritten DEF Outgoing, Runs
<1> QED
  BY <1>6, <1>10, <1>11
-----------------------------------------------------------------------------
(* The commands of the pipes. *)

LEMMA InPlace ==
  ASSUME NEW q \in Kinds, Arranged(q), q.active > 0, NEW r, r.current = q.current,
         \A k \in 1 .. q.active : r.pipes[k] = q.pipes[k]
  PROVE  At(r) = At(q)
<1>1. q.active \in Nat /\ q.current \in Nat /\ q.current < q.active
  BY Fields DEF Arranged
<1>2. q.current + 1 \in 1 .. q.active
  BY <1>1
<1> QED
  BY <1>2 DEF At

LEMMA AttachPipe ==
  ASSUME Sound, NEW p \in Pipes, xattach_pipe(p)
  PROVE  Sound'
<1> USE DEF Sound
<1>0. /\ UNCHANGED <<traffic, inq, in_active, out, open, used, out_active, next, from, waits,
                     half, astray, torn, misplaced, fate>>
      /\ fq' = Attach(fq, p) /\ lb' = Attach(lb, p)
      /\ st' = [st EXCEPT ![p] = "active"] /\ st[p] = "new" /\ fate = "running"
  BY DEF xattach_pipe, Runs
<1>1. fq \in Kinds /\ lb \in Kinds /\ Arranged(fq) /\ Arranged(lb) /\ p \notin Attached(fq) /\ p \notin Attached(lb)
  BY <1>0 DEF Incoming, Outgoing, Held, Kinds
<1>3. st' \in [Pipes -> State] /\ \A x \in Pipes : st'[x] = IF x = p THEN "active" ELSE st[x]
  BY <1>0 DEF Base, State
<1>4. Base'
  BY <1>0, <1>3 DEF Base
<1>5. Held' = Held \cup {p} /\ Readable' = Readable \cup {p} /\ p \notin Readable
  BY <1>0, <1>3 DEF Held, Readable
<1>6. Incoming'
  <2>1. /\ Like(fq, fq') /\ Arranged(fq')
        /\ fq'.active = fq.active + 1 /\ fq'.current = fq.current
        /\ Attached(fq') = Attached(fq) \cup {p}
        /\ ActivePart(fq') = ActivePart(fq) \cup {p}
        /\ \A k \in 1 .. fq.active : fq'.pipes[k] = fq.pipes[k]
    BY <1>0, <1>1, Attaching
  <2>2. in_active[p]
    BY <1>0 DEF Incoming
  <2>3. (from \in astray \/ RestIsThere)'
    <3>1. SUFFICES ASSUME fq.more, from \notin astray
                   PROVE fq'.active > 0 /\ At(fq') = from /\ from \in HasMessage'
      BY <1>0, <2>1 DEF Like, RestIsThere, At
    <3>2. fq.active > 0 /\ At(fq) = from /\ from \in HasMessage
      BY <3>1 DEF Incoming, RestIsThere
    <3>3. At(fq') = At(fq)
      BY <1>1, <2>1, <3>2, InPlace
    <3>4. from \in HasMessage'
      BY <1>0, <1>5, <3>2 DEF HasMessage
    <3> QED
      BY <1>1, <2>1, <3>2, <3>3, <3>4, Fields
  <2>4. Attached(fq') = Held'
    BY <1>5, <2>1 DEF Incoming
  <2>5. \A x \in Readable' : in_active'[x] <=> x \in ActivePart(fq')
    BY <1>0, <1>5, <2>1, <2>2 DEF Incoming
  <2>6. \A x \in Pipes : st'[x] = "new" => in_active'[x]
    BY <1>0, <1>3 DEF Incoming
  <2>7. fq' \in Array /\ fq'.more = fq.more
    BY <2>1 DEF Like, Incoming
  <2>8. (\A x \in Pipes : Unsplit(inq[x])') /\ (fq'.more <=> from' # None)
        /\ (from # None => from \in half)' /\ (half \subseteq astray \cup {from})'
        /\ (fate = "aborted" => from \in astray)'
    BY <1>0, <2>7 DEF Incoming, Unsplit
  <2>9. Attached(fq)' = Held' /\ Arranged(fq)' /\ ActivePart(fq)' = ActivePart(fq')
    BY <2>1, <2>4 DEF Attached, Arranged, ActivePart
  <2> QED
    BY <2>3, <2>5, <2>6, <2>7, <2>8, <2>9 DEF Incoming
<1>7. Outgoing'
  <2>1. /\ Like(lb, lb') /\ Arranged(lb')
        /\ lb'.active = lb.active + 1 /\ lb'.current = lb.current
        /\ Attached(lb') = Attached(lb) \cup {p}
        /\ ActivePart(lb') = ActivePart(lb) \cup {p}
        /\ \A k \in 1 .. lb.active : lb'.pipes[k] = lb.pipes[k]
    BY <1>0, <1>1, Attaching
  <2>2. out_active[p]
    BY <1>0 DEF Outgoing
  <2>3. Attached(lb') = Held'
    BY <1>5, <2>1 DEF Outgoing
  <2>9. Attached(lb)' = Held' /\ Arranged(lb)' /\ ActivePart(lb)' = ActivePart(lb')
    BY <2>1, <2>3 DEF Attached, Arranged, ActivePart
  <2>4. \A x \in Pipes : st'[x] = "active" => Flagged(x)'
    BY <1>0, <1>3, <2>1, <2>2, <2>9 DEF Outgoing, Flagged
  <2>5. lb' \in Balancer /\ lb'.more = lb.more /\ lb'.dropping = lb.dropping
    BY <2>1 DEF Like, Outgoing
  <2>6. Writing'
    <3>1. Sending' = Sending
      BY <2>5 DEF Sending
    <3>2. Sending => lb'.active > 0 /\ lb.active > 0 /\ At(lb') = At(lb) /\ At(lb) # p /\ At(lb) \in Pipes
      <4>1. lb.active \in Nat /\ ActivePart(lb) \subseteq Attached(lb) /\ (lb.active > 0 => At(lb) \in ActivePart(lb))
            /\ Attached(lb) \subseteq Pipes
        BY <1>1, Fields, Current
      <4> QED
        BY <1>1, <2>1, <4>1, InPlace DEF Outgoing, Writing
    <3>3. At(lb)' = At(lb')
      BY DEF At
    <3>4. \A x \in Pipes \ torn' : open'[x] # <<>> =>
            Sending' /\ x = At(lb)' /\ (st'[x] = "active" => out_active'[x])
      BY <1>0, <1>3, <3>1, <3>2, <3>3 DEF Outgoing, Writing
    <3>5. Sending => Full(At(lb))' = Full(At(lb)) /\ Writable(At(lb))' = Writable(At(lb))
      BY <1>0, <1>3, <3>2, <3>3 DEF Full, Writable
    <3>6. lb'.dropping => lb'.more
      BY <2>5 DEF Outgoing, Writing
    <3>7. Sending => At(lb) \in torn \/ ~Writable(At(lb)) \/ (Len(open[At(lb)]) = next - 1 /\ ~Full(At(lb)))
      BY <1>0 DEF Outgoing, Writing
    <3> QED
      BY <1>0, <3>1, <3>2, <3>3, <3>4, <3>5, <3>6, <3>7 DEF Writing
  <2>7. WholeOut'
    BY <1>0 DEF Outgoing, WholeOut, WholeOrTorn, Whole
  <2>8. (\A x \in Pipes : st'[x] = "new" => out_active'[x]) /\ (fate = "undefined" => misplaced)'
    BY <1>0, <1>3 DEF Outgoing
  <2> QED
    BY <2>4, <2>5, <2>6, <2>7, <2>8, <2>9 DEF Outgoing
<1> QED
  BY <1>4, <1>6, <1>7

LEMMA ReadActivated ==
  ASSUME Sound, NEW p \in Pipes, xread_activated(p)
  PROVE  Sound'
<1> USE DEF Sound
<1>0. /\ UNCHANGED <<traffic, st, inq, out, open, used, out_active, from, waits, half, astray, fate>>
      /\ UNCHANGED <<lb, next, torn, misplaced>>
      /\ p \in Readable /\ ~in_active[p] /\ in_active' = [in_active EXCEPT ![p] = TRUE]
      /\ fq' = Activated(fq, p) /\ fate = "running"
  BY DEF xread_activated, outVars, Runs
<1>1. fq \in Kinds /\ Arranged(fq) /\ p \in Attached(fq) /\ p \notin ActivePart(fq) /\ p \in Readable
  BY <1>0 DEF Incoming, Held, Kinds, Readable
<1>2. in_active' \in [Pipes -> BOOLEAN] /\ \A x \in Pipes : in_active'[x] = (x = p \/ in_active[x])
  BY <1>0 DEF Base
<1>3. Base'
  BY <1>0, <1>2 DEF Base
<1>4. Incoming'
  <2>1. /\ Like(fq, fq') /\ Arranged(fq')
        /\ fq'.active = fq.active + 1 /\ fq'.current = fq.current
        /\ Attached(fq') = Attached(fq)
        /\ ActivePart(fq') = ActivePart(fq) \cup {p}
        /\ \A k \in 1 .. fq.active : fq'.pipes[k] = fq.pipes[k]
    BY <1>0, <1>1, Activating
  <2>2. fq' \in Array /\ fq'.more = fq.more
    BY <2>1 DEF Like, Incoming
  <2>3. (from \in astray \/ RestIsThere)'
    <3>1. SUFFICES ASSUME fq.more, from \notin astray
                   PROVE fq'.active > 0 /\ At(fq') = from /\ from \in HasMessage'
      BY <1>0, <2>2 DEF RestIsThere, At
    <3>2. fq.active > 0 /\ At(fq) = from /\ from \in HasMessage
      BY <3>1 DEF Incoming, RestIsThere
    <3>3. At(fq') = At(fq)
      BY <1>1, <2>1, <3>2, InPlace
    <3>4. from \in HasMessage'
      BY <1>0, <1>2, <3>2 DEF HasMessage, Readable
    <3> QED
      BY <1>1, <2>1, <3>2, <3>3, <3>4, Fields
  <2>4. Readable' = Readable /\ Held' = Held
    BY <1>0 DEF Readable, Held
  <2>5. \A x \in Readable' : in_active'[x] <=> x \in ActivePart(fq')
    BY <1>1, <1>2, <2>1, <2>4 DEF Incoming, Readable
  <2>6. \A x \in Pipes : st'[x] = "new" => in_active'[x]
    BY <1>0, <1>2 DEF Incoming
  <2>7. (\A x \in Pipes : Unsplit(inq[x])') /\ (fq'.more <=> from' # None)
        /\ (from # None => from \in half)' /\ (half \subseteq astray \cup {from})'
        /\ (fate = "aborted" => from \in astray)'
    BY <1>0, <2>2 DEF Incoming, Unsplit
  <2>8. Attached(fq)' = Held' /\ Arranged(fq)' /\ ActivePart(fq)' = ActivePart(fq')
    BY <2>1, <2>4 DEF Attached, Arranged, ActivePart, Incoming
  <2> QED
    BY <2>2, <2>3, <2>5, <2>6, <2>7, <2>8 DEF Incoming
<1>5. Outgoing'
  BY <1>0, Unwritten DEF Onward, Outgoing, Runs
<1> QED
  BY <1>3, <1>4, <1>5

(* A pipe that was full becomes an active one, or, when it was left in the *)
(* active part, gives its place there to one that is not writable.         *)
LEMMA MakingRoom ==
  ASSUME Sound, NEW p \in Pipes, st[p] = "active", ~out_active[p], lb.active < Len(lb.pipes)
  PROVE  LET r == Activated(lb, p)
         IN  /\ r \in Balancer /\ Arranged(r) /\ r.more = lb.more /\ r.dropping = lb.dropping
             /\ Attached(r) = Attached(lb) /\ r.active = lb.active + 1 /\ r.current = lb.current
             /\ p \in ActivePart(r) /\ ActivePart(lb) \subseteq ActivePart(r)
             /\ \A x \in ActivePart(r) \ ActivePart(lb) : x = p \/ misplaced
             /\ \A k \in 1 .. lb.active :
                  \/ r.pipes[k] = lb.pipes[k]
                  \/ lb.pipes[k] = p /\ r.pipes[k] # p /\ r.pipes[k] \in Pipes \ ActivePart(lb)
             /\ \A k \in 1 .. lb.active : r.pipes[k] # p
<1> USE DEF Sound
<1>1. lb \in Kinds /\ Arranged(lb) /\ p \in Attached(lb)
  BY DEF Outgoing, Held, Kinds
<1>2. lb \in Balancer /\ lb.active \in Nat
  BY <1>1, Fields DEF Outgoing
<1> DEFINE r == Activated(lb, p)
<1>3. CASE p \notin ActivePart(lb)
  <2>1. /\ Like(lb, r) /\ Arranged(r)
        /\ r.active = lb.active + 1 /\ r.current = lb.current
        /\ Attached(r) = Attached(lb)
        /\ ActivePart(r) = ActivePart(lb) \cup {p}
        /\ \A k \in 1 .. lb.active : r.pipes[k] = lb.pipes[k]
    BY <1>1, <1>3, Activating
  <2>2. \A k \in 1 .. lb.active : lb.pipes[k] # p
    BY <1>3 DEF ActivePart, First
  <2> HIDE DEF r
  <2>3. /\ r \in Balancer /\ Arranged(r) /\ r.more = lb.more /\ r.dropping = lb.dropping
        /\ p \in ActivePart(r) /\ ActivePart(lb) \subseteq ActivePart(r)
        /\ \A x \in ActivePart(r) \ ActivePart(lb) : x = p
        /\ \A k \in 1 .. lb.active : r.pipes[k] # p
    BY <1>2, <2>1, <2>2 DEF Like
  <2> QED
    BY <2>1, <2>3 DEF r
<1>4. CASE p \in ActivePart(lb)
  <2> DEFINE x == lb.pipes[lb.active + 1]
  <2>2. /\ Like(lb, r) /\ Arranged(r)
        /\ r.active = lb.active + 1 /\ r.current = lb.current
        /\ Attached(r) = Attached(lb)
        /\ ActivePart(r) = ActivePart(lb) \cup {x} /\ x \notin ActivePart(lb)
        /\ \A k \in 1 .. lb.active : r.pipes[k] = IF lb.pipes[k] = p THEN x ELSE lb.pipes[k]
    BY <1>1, <1>4, Reactivating
  <2>3. misplaced
    BY <1>4 DEF Outgoing, Flagged
  <2>4. x \in Pipes
    <3>1. lb.active + 1 \in 1 .. Len(lb.pipes) /\ lb.pipes \in Seq(Pipes)
      BY <1>1, Fields
    <3> QED
      BY <3>1
  <2> HIDE DEF r, x
  <2>5. x # p
    BY <1>4, <2>2
  <2>6. /\ r \in Balancer /\ r.more = lb.more /\ r.dropping = lb.dropping
        /\ p \in ActivePart(r) /\ ActivePart(lb) \subseteq ActivePart(r)
        /\ \A k \in 1 .. lb.active :
             \/ r.pipes[k] = lb.pipes[k]
             \/ lb.pipes[k] = p /\ r.pipes[k] # p /\ r.pipes[k] \in Pipes \ ActivePart(lb)
        /\ \A k \in 1 .. lb.active : r.pipes[k] # p
    BY <1>2, <1>4, <2>2, <2>4, <2>5 DEF Like
  <2> QED
    BY <2>2, <2>3, <2>6 DEF r
<1> QED
  BY <1>3, <1>4

LEMMA WriteActivated ==
  ASSUME Sound, NEW p \in Pipes, xwrite_activated(p)
  PROVE  /\ Sound'
         /\ \A x \in Pipes : used'[x] <= used[x] /\ used'[x] \in Nat /\ used[x] \in Nat
<1> USE DEF Sound
<1>0. /\ UNCHANGED <<traffic, st, inq, in_active, out, open, fq, from, half, astray, next, torn, misplaced, waits>>
      /\ fate = "running"
  BY DEF xwrite_activated, inVars, Runs
<1>1. \E n \in Len(out[p]) .. used[p] - 1 : used' = [used EXCEPT ![p] = n]
  BY DEF xwrite_activated
<1>2. PICK n \in Len(out[p]) .. used[p] - 1 : used' = [used EXCEPT ![p] = n]
  <2> HIDE DEF Sound
  <2> QED
    BY <1>1
<1>3. used[p] \in 0 .. Hwm /\ n \in Nat /\ n < used[p] /\ n \in 0 .. Hwm
  <2>1. used[p] \in 0 .. Hwm /\ out[p] \in Seq(Message)
    BY DEF Base
  <2>2. PICK m : m = Len(out[p])
    OBVIOUS
  <2>3. m \in Nat /\ n \in m .. used[p] - 1 /\ Hwm \in Nat
    BY <2>1, <2>2, Assumed
  <2> QED
    BY <2>1, <2>3
<1>4. used' \in [Pipes -> 0 .. Hwm] /\ \A x \in Pipes : used'[x] = IF x = p THEN n ELSE used[x]
  BY <1>2, <1>3 DEF Base
<1>5. out_active' \in [Pipes -> BOOLEAN] /\ fate' \in {"running", "undefined"}
  BY <1>0 DEF Base, xwrite_activated
<1>6. Base'
  BY <1>0, <1>4, <1>5 DEF Base
<1>7. Incoming'
  <2>1. HasMessage' = HasMessage
    BY <1>0 DEF HasMessage, Readable
  <2> QED
    BY <1>0, <1>5, <2>1, Unread DEF Onward, Incoming, Unsplit
<1>14. \A x \in Pipes : used'[x] <= used[x] /\ used'[x] \in Nat /\ used[x] \in Nat
  <2> TAKE x \in Pipes
  <2>1. used[x] \in 0 .. Hwm /\ Hwm \in Nat
    BY Assumed DEF Base
  <2> QED
    BY <1>3, <1>4, <2>1
<1>8. \A x \in Pipes : ~Full(x) => ~Full(x)'
  BY <1>14, Assumed DEF Full
<1>9. WholeOut'
  BY <1>0 DEF Outgoing, WholeOut, WholeOrTorn, Whole
<1>10. lb \in Kinds /\ Arranged(lb)
  BY DEF Outgoing, Kinds
<1>11. Held' = Held
  BY <1>0 DEF Held
<1>15. \A x \in Pipes : out_active'[x] = (out_active[x] \/ (x = p /\ st[p] = "active"))
  BY DEF xwrite_activated, Base
<1>16. \A x \in Pipes : st'[x] = "new" => out_active'[x]
  BY <1>0, <1>15 DEF Outgoing
<1>12. ASSUME UNCHANGED <<out_active, lb, fate>> PROVE Outgoing'
  <2>1. Writing'
    <3>1. At(lb)' = At(lb) /\ Sending' = Sending
      BY <1>12 DEF At, Sending
    <3>2. Sending => At(lb) \in Pipes
      BY <1>10, Current DEF Outgoing, Writing
    <3>3. Sending => Writable(At(lb))' = Writable(At(lb)) /\ (~Full(At(lb)) => ~Full(At(lb))')
      BY <1>0, <1>8, <1>12, <3>1, <3>2 DEF Writable, Full
    <3>4. Sending => At(lb) \in torn \/ ~Writable(At(lb)) \/ (Len(open[At(lb)]) = next - 1 /\ ~Full(At(lb)))
      BY <1>0 DEF Outgoing, Writing
    <3> QED
      BY <1>0, <1>12, <3>1, <3>3, <3>4 DEF Outgoing, Writing
  <2>2. Arranged(lb)' /\ Attached(lb)' = Attached(lb) /\ ActivePart(lb)' = ActivePart(lb)
    BY <1>12 DEF Outgoing, Arranged, Attached, ActivePart
  <2> QED
    BY <1>0, <1>9, <1>11, <1>12, <2>1, <2>2 DEF Outgoing, Flagged
<1>13. ASSUME st[p] = "active", ~out_active[p], lb.active < Len(lb.pipes)
      PROVE  Outgoing'
  <2>1. lb' = Activated(lb, p) /\ fate' = fate
    BY <1>13 DEF xwrite_activated
  <2>2. /\ lb' \in Balancer /\ Arranged(lb') /\ lb'.more = lb.more /\ lb'.dropping = lb.dropping
        /\ Attached(lb') = Attached(lb) /\ lb'.active = lb.active + 1 /\ lb'.current = lb.current
        /\ p \in ActivePart(lb') /\ ActivePart(lb) \subseteq ActivePart(lb')
        /\ \A x \in ActivePart(lb') \ ActivePart(lb) : x = p \/ misplaced
        /\ \A k \in 1 .. lb.active :
             \/ lb'.pipes[k] = lb.pipes[k]
             \/ lb.pipes[k] = p /\ lb'.pipes[k] # p /\ lb'.pipes[k] \in Pipes \ ActivePart(lb)
        /\ \A k \in 1 .. lb.active : lb'.pipes[k] # p
    <3>1. PICK r : r = Activated(lb, p)
      OBVIOUS
    <3>2. /\ r \in Balancer /\ Arranged(r) /\ r.more = lb.more /\ r.dropping = lb.dropping
          /\ Attached(r) = Attached(lb) /\ r.active = lb.active + 1 /\ r.current = lb.current
          /\ p \in ActivePart(r) /\ ActivePart(lb) \subseteq ActivePart(r)
          /\ \A x \in ActivePart(r) \ ActivePart(lb) : x = p \/ misplaced
          /\ \A k \in 1 .. lb.active :
               \/ r.pipes[k] = lb.pipes[k]
               \/ lb.pipes[k] = p /\ r.pipes[k] # p /\ r.pipes[k] \in Pipes \ ActivePart(lb)
          /\ \A k \in 1 .. lb.active : r.pipes[k] # p
      <4> HIDE DEF Sound
      <4> QED
        BY ZenonT(60), <1>13, <3>1, MakingRoom
    <3>3. lb' = r
      BY <2>1, <3>1
    <3> QED
      BY <3>2, <3>3
  <2>3. Attached(lb)' = Held' /\ Arranged(lb)' /\ ActivePart(lb)' = ActivePart(lb') /\ At(lb)' = At(lb')
    BY <1>11, <2>2 DEF Attached, Arranged, ActivePart, Outgoing, At
  <2>4. Sending' = Sending
    BY <2>2 DEF Sending
  <2>5. lb.active > 0 => /\ At(lb') # p
                         /\ \/ At(lb') = At(lb)
                            \/ At(lb) = p /\ At(lb') \in Pipes \ ActivePart(lb)
    <3>1. lb.active > 0 => lb.current + 1 \in 1 .. lb.active
      <4>1. lb.active \in Nat /\ lb.current \in Nat
        BY <1>10, Fields
      <4> QED
        BY <1>10, <4>1 DEF Arranged
    <3>2. At(lb') = lb'.pipes[lb.current + 1] /\ At(lb) = lb.pipes[lb.current + 1]
      BY <2>2 DEF At
    <3> QED
      BY <2>2, <3>1, <3>2
  <2>6. Sending => lb.active > 0 /\ At(lb) \in Pipes /\ At(lb) \in ActivePart(lb)
    BY <1>10, Current DEF Outgoing, Writing
  <2>7. \A x \in Pipes \ torn : open[x] # <<>> => x # p /\ Sending /\ x = At(lb)
    BY <1>13 DEF Outgoing, Writing
  <2>8. \A x \in Pipes \ torn' : open'[x] # <<>> =>
          Sending' /\ x = At(lb)' /\ (st'[x] = "active" => out_active'[x])
    <3> TAKE x \in Pipes \ torn'
    <3> HAVE open'[x] # <<>>
    <3>1. x # p /\ Sending /\ x = At(lb) /\ (st[x] = "active" => out_active[x])
      BY <1>0, <2>7 DEF Outgoing, Writing
    <3> QED
      BY <1>0, <1>15, <2>3, <2>4, <2>5, <2>6, <3>1
  <2>12. PICK c : c = At(lb')
    OBVIOUS
  <2>9. Sending => \/ c \in torn
                   \/ ~(st'[c] = "active" /\ out_active'[c])
                   \/ Len(open[c]) = next - 1 /\ ~(used'[c] >= Hwm)
    <3>1. SUFFICES ASSUME Sending, c \notin torn, st'[c] = "active", out_active'[c]
                   PROVE  Len(open[c]) = next - 1 /\ ~(used'[c] >= Hwm)
      OBVIOUS
    <3>2. c # p /\ c \in Pipes /\ out_active[c] /\ st[c] = "active"
      BY <1>0, <1>15, <2>5, <2>6, <2>12, <3>1
    <3>3. c = At(lb)
      BY <2>5, <2>6, <2>12, <3>1, <3>2 DEF Outgoing, Flagged
    <3>4. Len(open[c]) = next - 1 /\ ~(used[c] >= Hwm)
      BY <1>0, <3>1, <3>2, <3>3 DEF Outgoing, Writing, Writable, Full
    <3> QED
      BY <1>4, <3>2, <3>4
  <2>10. Writing'
    <3>1. (lb'.dropping => lb'.more) /\ (Sending => lb'.active > 0)
      <4>1. lb.active \in Nat
        BY <1>10, Fields
      <4> QED
        BY <2>2, <2>6, <4>1 DEF Outgoing, Writing
    <3>2. At(lb)' = c
      BY <2>12 DEF At
    <3> QED
      BY <1>0, <2>4, <2>8, <2>9, <3>1, <3>2 DEF Writing, Writable, Full
  <2>11. \A x \in Pipes : st'[x] = "active" => Flagged(x)'
    BY <1>0, <1>13, <1>15, <2>2, <2>3 DEF Outgoing, Flagged
  <2>13. (fate = "undefined" => misplaced)'
    BY <1>0, <2>1
  <2> HIDE DEF Sound
  <2> QED
    BY <1>9, <1>16, <2>2, <2>3, <2>10, <2>11, <2>13 DEF Outgoing
<1>17. ASSUME st[p] = "active", ~out_active[p], ~(lb.active < Len(lb.pipes))
      PROVE  Outgoing'
  <2>1. lb' = lb
    BY <1>17 DEF xwrite_activated
  <2>2. ActivePart(lb) = Attached(lb) /\ p \in Attached(lb)
    <3>1. lb.active \in 0 .. Len(lb.pipes) /\ Len(lb.pipes) \in Nat
      BY <1>10, Fields, Shorter
    <3>2. lb.active = Len(lb.pipes)
      BY <1>17, <3>1
    <3> QED
      BY <1>17, <3>2 DEF ActivePart, Attached, Outgoing, Held
  <2>3. misplaced
    BY <1>17, <2>2 DEF Outgoing, Flagged
  <2>4. Arranged(lb)' /\ Attached(lb)' = Attached(lb) /\ ActivePart(lb)' = ActivePart(lb)
        /\ At(lb)' = At(lb) /\ Sending' = Sending
    BY <2>1 DEF Outgoing, Arranged, Attached, ActivePart, At, Sending
  <2>5. \A x \in Pipes : st'[x] = "active" => Flagged(x)'
    BY <1>0, <1>15, <2>2, <2>3, <2>4 DEF Outgoing, Flagged
  <2>6. \A x \in Pipes \ torn' : open'[x] # <<>> =>
          Sending' /\ x = At(lb)' /\ (st'[x] = "active" => out_active'[x])
    BY <1>0, <1>15, <2>4 DEF Outgoing, Writing
  <2>7. fate' = "undefined"
    BY <1>17 DEF xwrite_activated
  <2>8. Writing'
    BY <1>0, <2>1, <2>4, <2>6, <2>7 DEF Outgoing, Writing
  <2>9. lb' \in Balancer /\ Arranged(lb)' /\ Attached(lb)' = Held'
    BY <1>11, <2>1, <2>4 DEF Outgoing
  <2>10. (fate = "undefined" => misplaced)'
    BY <1>0, <2>3
  <2> HIDE DEF Sound
  <2> QED
    BY <1>9, <1>16, <2>5, <2>8, <2>9, <2>10 DEF Outgoing
<1>18. \/ UNCHANGED <<out_active, lb, fate>>
       \/ st[p] = "active" /\ ~out_active[p]
  BY DEF xwrite_activated
<1> QED
  BY <1>6, <1>7, <1>12, <1>13, <1>14, <1>17, <1>18

LEMMA PipeTerm ==
  ASSUME Sound, NEW p \in Pipes, process_pipe_term(p)
  PROVE  Sound'
<1> USE DEF Sound
<1>0. /\ UNCHANGED <<traffic, inq, in_active, out, open, used, out_active, waits, fate>>
      /\ UNCHANGED <<fq, from, half, astray, lb, next, torn, misplaced>>
      /\ st[p] = "active" /\ st' = [st EXCEPT ![p] = "waiting_for_delimiter"] /\ fate = "running"
  BY DEF process_pipe_term, inVars, outVars, Runs
<1>1. st' \in [Pipes -> State] /\ \A x \in Pipes : st'[x] = IF x = p THEN "waiting_for_delimiter" ELSE st[x]
  BY <1>0 DEF Base, State
<1>2. Base' /\ Onward
  BY <1>0, <1>1 DEF Base, Onward, Readable
<1>3. Incoming'
  <2>1. from # None /\ from \in HasMessage => from \in HasMessage'
    BY <1>0, <1>1 DEF HasMessage, Readable
  <2> QED
    BY <1>0, <1>2, <2>1, Unread DEF Incoming, Unsplit
<1>4. Outgoing'
  BY <1>0, <1>2, Unwritten DEF Outgoing, Runs
<1> QED
  BY <1>2, <1>3, <1>4

LEMMA Terminate ==
  ASSUME Sound, NEW p \in Pipes, terminate(p)
  PROVE  Sound'
<1> USE DEF Sound
<1>0. /\ UNCHANGED <<traffic, in_active, out, used, waits, fate>>
      /\ UNCHANGED <<fq, from, half, lb, next, torn, misplaced>>
      /\ p \in Readable /\ fate = "running"
      /\ astray' = astray \cup ({p} \cap {from})
  BY DEF terminate, outVars, Runs
<1>1. st' \in [Pipes -> State] /\ \A x \in Pipes : st'[x] = IF x = p THEN "closed" ELSE st[x]
  BY DEF Base, terminate, State
<1>2. inq' \in [Pipes -> Seq({"more", "last", "delimiter"})] /\ \A x \in Pipes : inq'[x] = IF x = p THEN <<>> ELSE inq[x]
  BY DEF Base, terminate
<1>3. open' \in [Pipes -> Parts] /\ \A x \in Pipes : open'[x] = IF x = p THEN <<>> ELSE open[x]
  BY DEF Base, terminate, Parts
<1>4. out_active' \in [Pipes -> BOOLEAN] /\ \A x \in Pipes : out_active'[x] = (x # p /\ out_active[x])
  BY DEF Base, terminate
<1>5. Base' /\ Onward
  BY <1>0, <1>1, <1>2, <1>3, <1>4 DEF Base, Onward
<1>6. Incoming'
  <2>1. from # None /\ from \in HasMessage /\ from \notin astray' => from \in HasMessage'
    BY <1>0, <1>1, <1>2 DEF HasMessage, Readable
  <2>2. \A x \in Pipes : Unsplit(inq[x])'
    <3> TAKE x \in Pipes
    <3>1. Unsplit(inq[x]) /\ (inq[x]' = <<>> \/ inq[x]' = inq[x])
      BY <1>2 DEF Incoming
    <3> QED
      BY <3>1 DEF Unsplit
  <2> QED
    BY <1>0, <1>5, <2>1, <2>2, Unread
<1>7. Outgoing'
  <2>1. \A x \in Pipes : st'[x] = "active" => out_active'[x] = out_active[x]
    BY <1>1, <1>4 DEF Base
  <2>2. \A x \in Pipes : st[x] = "new" => out_active'[x]
    BY <1>0, <1>4 DEF Outgoing, Readable
  <2>3. \A x \in Pipes : open'[x] = open[x] \/ (open'[x] = <<>> /\ st'[x] = "closed")
    BY <1>1, <1>3
  <2> QED
    BY <1>0, <1>5, <2>1, <2>2, <2>3, Unwritten DEF Runs
<1> QED
  BY <1>5, <1>6, <1>7

(* A pipe that ends takes the turn of the current one only from a message  *)
(* that is recorded as astray or torn, or whose rest is dropped.           *)
LEMMA PipeTerminated ==
  ASSUME Sound, NEW p \in Pipes, xpipe_terminated(p)
  PROVE  Sound'
<1> USE DEF Sound
<1>0. /\ UNCHANGED <<traffic, next, from, half, misplaced, fate>>
      /\ st[p] = "closed" /\ fate = "running"
      /\ fq' = Terminated(fq, p)
      /\ astray' = IF Jumps(fq, p) THEN astray \cup {from} ELSE astray
      /\ torn' = (IF Jumps(lb, p) /\ ~lb.dropping THEN torn \cup {At(lb), lb.pipes[1]} ELSE torn) \ {p}
  BY DEF xpipe_terminated, Runs
<1>1. /\ fq \in Kinds /\ lb \in Kinds /\ Arranged(fq) /\ Arranged(lb)
      /\ p \in Attached(fq) /\ p \in Attached(lb)
  BY <1>0 DEF Incoming, Outgoing, Held, Kinds
<1>2. st' \in [Pipes -> State] /\ \A x \in Pipes : st'[x] = IF x = p THEN "gone" ELSE st[x]
  BY DEF Base, xpipe_terminated, State
<1>3. inq' \in [Pipes -> Seq({"more", "last", "delimiter"})] /\ \A x \in Pipes : inq'[x] = IF x = p THEN <<>> ELSE inq[x]
  BY DEF Base, xpipe_terminated
<1>4. /\ out' \in [Pipes -> Seq(Message)] /\ open' \in [Pipes -> Parts]
      /\ \A x \in Pipes : /\ out'[x] = IF x = p THEN <<>> ELSE out[x]
                          /\ open'[x] = IF x = p THEN <<>> ELSE open[x]
  BY DEF Base, xpipe_terminated, Parts
<1>5. used' \in [Pipes -> 0 .. Hwm] /\ \A x \in Pipes : x # p => used'[x] = used[x]
  BY Assumed DEF Base, xpipe_terminated
<1>6. /\ in_active' \in [Pipes -> BOOLEAN] /\ out_active' \in [Pipes -> BOOLEAN]
      /\ \A x \in Pipes : x # p => in_active'[x] = in_active[x] /\ out_active'[x] = out_active[x]
  BY DEF Base, xpipe_terminated
<1>7. waits' \in [Pipes -> Nat]
  BY DEF Base, xpipe_terminated
<1>15. Jumps(lb, p) => /\ lb.active > 0 /\ At(lb) \in Pipes /\ lb.pipes[1] \in Pipes
                       /\ At(lb) # p /\ lb.pipes[1] # p
  <2>1. SUFFICES ASSUME Jumps(lb, p)
                 PROVE  lb.active > 0 /\ At(lb) \in Pipes /\ lb.pipes[1] \in Pipes /\ At(lb) # p /\ lb.pipes[1] # p
    OBVIOUS
  <2>2. lb.active > 0 /\ At(lb) # p /\ lb.pipes[1] # p
    BY <1>1, <2>1, Terminating
  <2>3. lb.active \in 0 .. Len(lb.pipes) /\ Len(lb.pipes) \in Nat /\ lb.pipes \in Seq(Pipes)
    BY <1>1, Fields, Shorter
  <2>4. At(lb) \in Pipes
    BY <1>1, <2>2, Current
  <2> QED
    BY <2>2, <2>3, <2>4
<1>16. torn' \subseteq Pipes /\ astray' \subseteq Pipes
  <2>1. Jumps(fq, p) => from \in Pipes
    BY DEF Jumps, Incoming, Base
  <2> QED
    BY <1>0, <1>15, <2>1 DEF Base
<1>8. Base'
  BY <1>0, <1>2, <1>3, <1>4, <1>5, <1>6, <1>7, <1>16 DEF Base
<1>9. Held' = Held \ {p} /\ Readable' = Readable
  BY <1>0, <1>2 DEF Held, Readable
<1>10. Incoming'
  <2>1. /\ Like(fq, fq') /\ Arranged(fq')
        /\ Attached(fq') = Attached(fq) \ {p}
        /\ ActivePart(fq') = ActivePart(fq) \ {p}
        /\ fq.more /\ fq.active > 0 /\ At(fq) # p /\ ~Jumps(fq, p) => fq'.active > 0 /\ At(fq') = At(fq)
    BY <1>0, <1>1, Terminating
  <2>2. fq' \in Array /\ fq'.more = fq.more
    BY <2>1 DEF Like, Incoming
  <2>3. (from \in astray \/ RestIsThere)'
    <3>1. SUFFICES ASSUME fq.more, from \notin astray, ~Jumps(fq, p)
                   PROVE fq'.active > 0 /\ At(fq') = from /\ from \in HasMessage'
      BY <1>0, <2>2 DEF RestIsThere, At
    <3>2. fq.active > 0 /\ At(fq) = from /\ from \in HasMessage
      BY <3>1 DEF Incoming, RestIsThere
    <3>3. from # p
      BY <1>0, <3>2 DEF HasMessage, Readable
    <3>4. from \in HasMessage'
      BY <1>3, <1>6, <1>9, <3>2, <3>3 DEF HasMessage, Readable
    <3> QED
      BY <2>1, <3>1, <3>2, <3>3, <3>4
  <2>4. \A x \in Readable' : in_active'[x] <=> x \in ActivePart(fq')
    <3> TAKE x \in Readable'
    <3>1. x \in Pipes /\ x # p /\ x \in Readable
      BY <1>0, <1>9 DEF Readable
    <3> QED
      BY <1>6, <2>1, <3>1 DEF Incoming
  <2>5. \A x \in Pipes : st'[x] = "new" => in_active'[x]
    BY <1>2, <1>6 DEF Incoming
  <2>6. (\A x \in Pipes : Unsplit(inq[x])') /\ (fq'.more <=> from' # None)
    <3>1. ASSUME NEW x \in Pipes PROVE Unsplit(inq[x])'
      <4>1. Unsplit(inq[x]) /\ (inq[x]' = <<>> \/ inq[x]' = inq[x])
        BY <1>3 DEF Incoming
      <4> QED
        BY <4>1 DEF Unsplit
    <3> QED
      BY <1>0, <2>2, <3>1 DEF Incoming
  <2>7. Attached(fq)' = Held' /\ Arranged(fq)' /\ ActivePart(fq)' = ActivePart(fq')
    BY <1>9, <2>1 DEF Attached, Arranged, ActivePart, Incoming
  <2>8. (from # None => from \in half)' /\ (half \subseteq astray \cup {from})'
        /\ (fate = "aborted" => from \in astray)'
    BY <1>0 DEF Incoming
  <2> QED
    BY <2>2, <2>3, <2>4, <2>5, <2>6, <2>7, <2>8 DEF Incoming
<1>11. Outgoing'
  <2> DEFINE r == Terminated(lb, p)
  <2>1. /\ r \in Kinds /\ Like(lb, r) /\ Arranged(r)
        /\ Attached(r) = Attached(lb) \ {p}
        /\ ActivePart(r) = ActivePart(lb) \ {p}
        /\ lb.more /\ lb.active > 0 /\ At(lb) # p /\ ~Jumps(lb, p) => r.active > 0 /\ At(r) = At(lb)
        /\ Jumps(lb, p) => r.active > 0 /\ At(r) = lb.pipes[1]
    BY <1>1, Terminating
  <2>2. lb' = [r EXCEPT !.dropping = @ \/ CutShort(p)]
    BY DEF xpipe_terminated
  <2> HIDE DEF r
  <2>3. r \in Balancer /\ r.more = lb.more /\ r.dropping = lb.dropping
    BY <2>1 DEF Like, Outgoing
  <2>4. CutShort(p) \in BOOLEAN
    BY <1>1, Fields DEF CutShort
  <2>5. /\ lb' \in Balancer /\ lb'.more = lb.more /\ (lb'.dropping <=> lb.dropping \/ CutShort(p))
        /\ lb'.pipes = r.pipes /\ lb'.active = r.active /\ lb'.current = r.current
    BY <2>2, <2>3, <2>4 DEF Balancer
  <2>6. Arranged(lb') /\ Attached(lb') = Attached(r) /\ ActivePart(lb') = ActivePart(r) /\ At(lb') = At(r)
    BY <2>1, <2>5 DEF Arranged, Attached, ActivePart, At
  <2>7. lb.active > 0 /\ At(lb) = p => Place(lb.pipes, p) = lb.current
    <3>1. lb.active > 0 => lb.current + 1 \in 1 .. Len(lb.pipes) /\ lb.current \in Nat
      <4>1. lb.active \in 0 .. Len(lb.pipes) /\ lb.current \in Nat /\ Len(lb.pipes) \in Nat
        BY <1>1, Fields, Shorter
      <4> QED
        BY <1>1, <4>1 DEF Arranged
    <3>2. Once(lb.pipes) /\ lb.pipes \in Seq(Pipes)
      BY <1>1, Fields, Shorter
    <3>3. lb.active > 0 => Place(lb.pipes, lb.pipes[lb.current + 1]) = (lb.current + 1) - 1
      BY <3>1, <3>2, Placed
    <3> QED
      BY <3>1, <3>3 DEF At
  <2>8. lb.active > 0 /\ CutShort(p) => At(lb) = p
    <3>1. PICK l \in 1 .. Len(lb.pipes) : lb.pipes[l] = p
      BY <1>1 DEF Attached, First
    <3>2. Once(lb.pipes) /\ lb.pipes \in Seq(Pipes)
      BY <1>1, Fields, Shorter
    <3>3. Place(lb.pipes, p) = l - 1
      BY <3>1, <3>2, Placed
    <3>4. Place(lb.pipes, p) = lb.current => l = lb.current + 1
      BY <1>1, <3>3, Fields
    <3> QED
      BY <3>1, <3>4 DEF CutShort, At
  <2>14. PICK c : c = At(lb')
    OBVIOUS
  <2>15. \A x \in Pipes \ torn' : open'[x] # <<>> =>
            /\ x # p /\ x \notin torn /\ Sending /\ x = At(lb) /\ lb.active > 0
            /\ st'[x] = "active" => out_active'[x]
    <3> TAKE x \in Pipes \ torn'
    <3> HAVE open'[x] # <<>>
    <3>1. x # p /\ open[x] # <<>>
      BY <1>4
    <3>2. x \notin torn
      BY <1>0, <3>1
    <3> QED
      BY <1>2, <1>6, <3>1, <3>2 DEF Outgoing, Writing
  <2>16. Sending' => Sending /\ ~CutShort(p) /\ lb.more /\ lb.active > 0 /\ At(lb) # p /\ At(lb) \in Pipes
    <3>1. Sending' => Sending /\ ~CutShort(p)
      BY <2>5 DEF Sending
    <3> QED
      BY <1>1, <2>7, <3>1, Current DEF Sending, CutShort, Outgoing, Writing
  <2>17. Sending' => lb'.active > 0
    BY <2>1, <2>5, <2>16
  <2>18. \A x \in Pipes \ torn' : open'[x] # <<>> =>
            Sending' /\ x = c /\ (st'[x] = "active" => out_active'[x])
    <3> TAKE x \in Pipes \ torn'
    <3> HAVE open'[x] # <<>>
    <3>1. x # p /\ x \notin torn /\ Sending /\ x = At(lb) /\ lb.active > 0 /\ (st'[x] = "active" => out_active'[x])
      BY <2>15
    <3>2. ~Jumps(lb, p)
      BY <1>0, <3>1 DEF Sending
    <3>3. ~CutShort(p)
      BY <2>8, <3>1
    <3>4. Sending'
      BY <2>5, <3>1, <3>3 DEF Sending
    <3> QED
      BY <2>1, <2>6, <2>14, <2>16, <3>1, <3>2, <3>4
  <2>19. Sending' => \/ c \in torn'
                     \/ ~(st'[c] = "active" /\ out_active'[c])
                     \/ Len(open'[c]) = next - 1 /\ ~(used'[c] >= Hwm)
    <3>1. SUFFICES ASSUME Sending', c \notin torn', st'[c] = "active", out_active'[c]
                   PROVE  Len(open'[c]) = next - 1 /\ ~(used'[c] >= Hwm)
      OBVIOUS
    <3>2. ~Jumps(lb, p)
      BY <1>0, <1>15, <2>1, <2>6, <2>14, <2>16, <3>1 DEF Sending
    <3>3. c = At(lb) /\ c # p /\ c \in Pipes
      BY <2>1, <2>6, <2>14, <2>16, <3>1, <3>2
    <3>4. c \notin torn /\ st[c] = "active" /\ out_active[c]
      BY <1>0, <1>2, <1>6, <3>1, <3>3
    <3>5. Len(open[c]) = next - 1 /\ ~(used[c] >= Hwm)
      BY <1>0, <2>16, <3>1, <3>3, <3>4 DEF Outgoing, Writing, Writable, Full
    <3> QED
      BY <1>4, <1>5, <3>3, <3>5
  <2>9. Writing'
    <3>1. lb'.dropping => lb'.more
      BY <2>5 DEF Outgoing, Writing, CutShort
    <3>2. At(lb)' = c
      BY <2>14 DEF At
    <3> QED
      BY <1>0, <2>17, <2>18, <2>19, <3>1, <3>2 DEF Writing, Writable, Full
  <2>10. WholeOut'
    <3> SUFFICES ASSUME NEW x \in Pipes
                 PROVE  /\ \A i \in DOMAIN out'[x] : WholeOrTorn(out'[x][i])
                        /\ x \in torn' \/ Whole(open'[x])
      BY DEF WholeOut, WholeOrTorn, Whole
    <3>1. Whole(<<>>)
      BY DEF Whole
    <3>2. CASE x = p
      BY <1>4, <3>1, <3>2
    <3>3. CASE x # p
      BY <1>0, <1>4, <3>3 DEF Outgoing, WholeOut
    <3> QED
      BY <3>2, <3>3
  <2>13. Attached(lb)' = Held' /\ Arranged(lb)' /\ ActivePart(lb)' = ActivePart(lb')
    BY <1>9, <2>1, <2>6 DEF Attached, Arranged, ActivePart, Outgoing
  <2>11. \A x \in Pipes : st'[x] = "active" => Flagged(x)'
    <3> TAKE x \in Pipes
    <3>1. CASE x = p
      BY <1>2, <3>1
    <3>2. CASE x # p
      BY <1>0, <1>2, <1>6, <2>1, <2>6, <2>13, <3>2 DEF Outgoing, Flagged
    <3> QED
      BY <3>1, <3>2
  <2>12. (\A x \in Pipes : st'[x] = "new" => out_active'[x]) /\ (fate = "undefined" => misplaced)'
    BY <1>0, <1>2, <1>6 DEF Outgoing
  <2> QED
    BY <2>5, <2>9, <2>10, <2>11, <2>12, <2>13 DEF Outgoing
<1> QED
  BY <1>8, <1>10, <1>11
-----------------------------------------------------------------------------
(* recvpipe and has_in. *)

(* What asking for a message does: those passed over had none, and are no  *)
(* longer active, whatever they answered.                                  *)
LEMMA Asking ==
  ASSUME Sound, NEW q, q = Settle(fq, HasMessage), ReadFailed(ActivePart(fq) \ ActivePart(q))
  PROVE  /\ st' \in [Pipes -> State] /\ in_active' \in [Pipes -> BOOLEAN] /\ Onward
         /\ q \in Array /\ Arranged(q) /\ Attached(q) = Held /\ q.more = fq.more
         /\ q.active = 0 \/ At(q) \in HasMessage
         /\ fq.active > 0 /\ At(fq) \in HasMessage => q = fq
         /\ Sooner(fq, q)
         /\ \A x \in Readable' : in_active'[x] <=> x \in ActivePart(q)
         /\ \A x \in Pipes : st'[x] = "new" => in_active'[x]
         /\ \A x \in HasMessage : st'[x] = st[x] /\ in_active'[x] /\ x \in ActivePart(q)
<1> USE DEF Sound
<1> DEFINE asked == ActivePart(fq) \ ActivePart(q)
           live == {x \in asked : x \in Readable /\ in_active[x]}
           delimited == {x \in live : inq[x] # <<>>}
<1>1. fq \in Kinds /\ Arranged(fq) /\ fq \in Array /\ Attached(fq) = Held
  BY DEF Incoming, Kinds
<1>2. /\ q \in Kinds /\ Like(fq, q) /\ Arranged(q)
      /\ Attached(q) = Attached(fq)
      /\ ActivePart(q) \subseteq ActivePart(fq)
      /\ asked \cap HasMessage = {}
      /\ Sooner(fq, q)
      /\ q.active = 0 \/ At(q) \in HasMessage
      /\ fq.active > 0 /\ At(fq) \in HasMessage => q = fq
  BY <1>1, Settling DEF Settled
<1>3. /\ in_active' = [x \in Pipes |-> in_active[x] /\ x \notin live \ delimited]
      /\ st' = [x \in Pipes |-> IF x \in delimited THEN "closed" ELSE st[x]]
  BY DEF ReadFailed
<1>4. asked \subseteq Held /\ Held \subseteq Pipes
  BY <1>1, Current DEF Held
<1> HIDE DEF asked
<1>5. \A x \in Pipes : st'[x] = IF x \in delimited THEN "closed" ELSE st[x]
  BY <1>3
<1>6. st' \in [Pipes -> State] /\ in_active' \in [Pipes -> BOOLEAN]
  BY <1>3 DEF Base, State
<1>7. \A x \in delimited : x \in Readable
  OBVIOUS
<1>8. Onward
  BY <1>5, <1>7 DEF Onward
<1>9. \A x \in HasMessage : st'[x] = st[x] /\ in_active'[x] /\ x \in ActivePart(q)
  <2> TAKE x \in HasMessage
  <2>1. x \notin asked /\ x \in Pipes /\ x \in Readable /\ in_active[x]
    BY <1>2 DEF HasMessage, Readable
  <2>2. x \in ActivePart(fq)
    BY <2>1 DEF Incoming
  <2> QED
    BY <1>3, <1>5, <2>1, <2>2 DEF asked
<1>10. \A x \in Readable' : in_active'[x] <=> x \in ActivePart(q)
  <2> TAKE x \in Readable'
  <2>1. x \in Pipes /\ x \in Readable /\ x \notin delimited
    BY <1>5 DEF Readable
  <2>2. in_active'[x] <=> in_active[x] /\ x \notin live
    BY <1>3, <2>1
  <2>3. in_active[x] <=> x \in ActivePart(fq)
    BY <2>1 DEF Incoming
  <2>4. x \in live <=> x \in asked /\ in_active[x]
    BY <2>1
  <2> QED
    BY <1>2, <2>2, <2>3, <2>4 DEF asked
<1>11. \A x \in Pipes : st'[x] = "new" => in_active'[x]
  <2> TAKE x \in Pipes
  <2> HAVE st'[x] = "new"
  <2>1. st[x] = "new" /\ x \notin live
    BY <1>5 DEF Readable
  <2> QED
    BY <1>3, <2>1 DEF Incoming
<1> QED
  BY <1>1, <1>2, <1>6, <1>8, <1>9, <1>10, <1>11 DEF Like

LEMMA HasIn ==
  ASSUME Sound, xhas_in
  PROVE  Sound'
<1> USE DEF Sound
<1>0. /\ UNCHANGED <<traffic, inq, out, open, used, out_active, waits, fate>>
      /\ UNCHANGED <<from, half, astray, lb, next, torn, misplaced>>
      /\ ~fq.more /\ fate = "running"
  BY DEF xhas_in, outVars, Runs
<1>1. PICK q : q = fq'
  OBVIOUS
<1>2. q = Settle(fq, HasMessage) /\ ReadFailed(ActivePart(fq) \ ActivePart(q))
  <2>1. ReadFailed(ActivePart(fq) \ ActivePart(fq'))
    BY DEF xhas_in, ReadFailed
  <2> QED
    BY <1>1, <2>1 DEF xhas_in
<1>3. /\ st' \in [Pipes -> State] /\ in_active' \in [Pipes -> BOOLEAN] /\ Onward
      /\ q \in Array /\ Arranged(q) /\ Attached(q) = Held /\ q.more = fq.more
      /\ \A x \in Readable' : in_active'[x] <=> x \in ActivePart(q)
      /\ \A x \in Pipes : st'[x] = "new" => in_active'[x]
  BY <1>2, Asking
<1>4. Base'
  BY <1>0, <1>3 DEF Base
<1>5. Held' = Held
  BY <1>3, Staying
<1>6. Incoming'
  <2>1. ~q.more /\ from' = None
    BY <1>0, <1>3 DEF Incoming
  <2>2. \A x \in Pipes : Unsplit(inq[x])'
    BY <1>0 DEF Incoming, Unsplit
  <2>3. RestIsThere'
    BY <1>1, <2>1 DEF RestIsThere
  <2>4. Attached(fq)' = Held' /\ Arranged(fq)' /\ ActivePart(fq)' = ActivePart(q)
    BY <1>1, <1>3, <1>5 DEF Attached, Arranged, ActivePart
  <2>5. (half \subseteq astray \cup {from})' /\ fate' = "running"
    BY <1>0 DEF Incoming
  <2> QED
    BY <1>1, <1>3, <2>1, <2>2, <2>3, <2>4, <2>5 DEF Incoming
<1>7. Outgoing'
  BY <1>0, <1>3, Unwritten DEF Outgoing, Runs
<1> QED
  BY <1>4, <1>6, <1>7

(* The assertion fails only on a message whose rest has gone astray. *)
LEMMA Aborting ==
  ASSUME Sound, Runs, RecvAborts
  PROVE  Sound'
<1> USE DEF Sound
<1>0. /\ UNCHANGED <<traffic, st, inq, in_active, out, open, used, out_active, waits>>
      /\ UNCHANGED <<fq, from, half, astray, lb, next, torn, misplaced>>
      /\ fq.more /\ fq.active > 0 /\ At(fq) \notin HasMessage /\ fate' = "aborted"
  BY DEF RecvAborts, pipeVars, inVars, outVars
<1>1. Base'
  BY <1>0 DEF Base
<1>2. from \in astray
  BY <1>0 DEF Incoming, RestIsThere
<1>3. Onward
  BY <1>0 DEF Onward
<1>4. Outgoing'
  BY <1>0, <1>3, Unwritten DEF Outgoing
<1>5. Incoming'
  <2>1. \A x \in Pipes : Unsplit(inq[x])'
    BY <1>0 DEF Incoming, Unsplit
  <2>2. Attached(fq)' = Held' /\ Arranged(fq)' /\ ActivePart(fq)' = ActivePart(fq) /\ Readable' = Readable
    BY <1>0 DEF Attached, Arranged, ActivePart, Incoming, Held, Readable
  <2> QED
    BY <1>0, <1>2, <2>1, <2>2 DEF Incoming
<1> QED
  BY <1>1, <1>4, <1>5

LEMMA Taking ==
  ASSUME Sound, Runs, RecvTakes
  PROVE  Sound' /\ (Settle(fq, HasMessage).active # 0 => RestIsThere')
<1> USE DEF Sound
<1>1. PICK q : q = Settle(fq, HasMessage)
  OBVIOUS
<1>2. PICK p : p = At(q)
  OBVIOUS
<1>3. PICK more : more = (Head(inq[p]) = "more")
  OBVIOUS
<1>4. /\ fq.more /\ fq.active > 0 => At(fq) \in HasMessage
      /\ ReadFailed(ActivePart(fq) \ ActivePart(q))
      /\ q.active = 0 => fq' = q /\ UNCHANGED <<inq, from, waits, half, astray>>
      /\ q.active # 0 => /\ inq' = [inq EXCEPT ![p] = Tail(@)]
                         /\ fq' = [q EXCEPT !.more = more, !.current = Turned(q, more)]
                         /\ from' = IF more THEN p ELSE None
                         /\ waits' = IF more THEN waits ELSE Counted(p, HasMessage)
                         /\ half' = IF more THEN half \cup {p} ELSE half \ {p}
                         /\ astray' = IF more THEN astray ELSE astray \ {p}
      /\ UNCHANGED <<traffic, out, open, used, out_active, lb, next, torn, misplaced, fate>>
  BY <1>1, <1>2, <1>3 DEF RecvTakes, outVars
<1>5. /\ st' \in [Pipes -> State] /\ in_active' \in [Pipes -> BOOLEAN] /\ Onward
      /\ q \in Array /\ Arranged(q) /\ Attached(q) = Held /\ q.more = fq.more
      /\ q.active = 0 \/ p \in HasMessage
      /\ fq.active > 0 /\ At(fq) \in HasMessage => q = fq
      /\ \A x \in Readable' : in_active'[x] <=> x \in ActivePart(q)
      /\ \A x \in Pipes : st'[x] = "new" => in_active'[x]
      /\ \A x \in HasMessage : st'[x] = st[x] /\ in_active'[x] /\ x \in ActivePart(q)
  BY <1>1, <1>2, <1>4, Asking
<1>6. Held' = Held
  BY <1>5, Staying
<1>7. Outgoing'
  BY <1>4, <1>5, Unwritten DEF Outgoing
<1>10. from # None /\ from \notin astray => q.active # 0 /\ p = from
  <2>1. SUFFICES ASSUME fq.more, from \notin astray PROVE q.active # 0 /\ p = from
    BY DEF Incoming
  <2>2. fq.active > 0 /\ At(fq) = from /\ from \in HasMessage
    BY <2>1 DEF Incoming, RestIsThere
  <2> QED
    BY <1>2, <1>5, <2>2, Fields DEF Kinds
<1>11. from \in Pipes \cup {None} /\ half \subseteq Pipes /\ half \subseteq astray \cup {from} /\ None \notin Pipes
  BY Assumed DEF Base, Incoming
<1>12. fate' = "running"
  BY <1>4 DEF Runs
<1>8. CASE q.active = 0
  <2>1. fq' = q /\ UNCHANGED <<inq, from, waits, half, astray>>
    BY <1>4, <1>8
  <2>2. Base'
    BY <1>4, <1>5, <2>1 DEF Base
  <2>3. fq.more => from \in astray
    BY <1>8, <1>10 DEF Incoming
  <2>4. \A x \in Pipes : Unsplit(inq[x])'
    BY <2>1 DEF Incoming, Unsplit
  <2>5. (from \in astray \/ RestIsThere)'
    BY <1>5, <2>1, <2>3 DEF RestIsThere
  <2>6. Attached(fq)' = Held' /\ Arranged(fq)' /\ ActivePart(fq)' = ActivePart(q)
    BY <1>5, <1>6, <2>1 DEF Attached, Arranged, ActivePart
  <2>7. (from # None => from \in half)' /\ (half \subseteq astray \cup {from})' /\ (fq'.more <=> from' # None)
    BY <1>5, <2>1 DEF Incoming
  <2>8. Incoming'
    BY <1>5, <1>12, <2>1, <2>4, <2>5, <2>6, <2>7 DEF Incoming
  <2> QED
    BY <1>1, <1>7, <1>8, <2>2, <2>8
<1>9. CASE q.active # 0
  <2>1. /\ inq' = [inq EXCEPT ![p] = Tail(@)]
        /\ fq' = [q EXCEPT !.more = more, !.current = Turned(q, more)]
        /\ from' = IF more THEN p ELSE None
        /\ waits' = IF more THEN waits ELSE Counted(p, HasMessage)
        /\ half' = IF more THEN half \cup {p} ELSE half \ {p}
        /\ astray' = IF more THEN astray ELSE astray \ {p}
    BY <1>4, <1>9
  <2>2. /\ p \in HasMessage /\ p \in Pipes /\ p \in Readable /\ inq[p] # <<>>
        /\ inq[p] \in Seq({"more", "last", "delimiter"}) /\ more \in BOOLEAN /\ Unsplit(inq[p])
    BY <1>3, <1>5, <1>9 DEF HasMessage, Base, Readable, Incoming
  <2>3. PICK s : s = inq[p]
    OBVIOUS
  <2>4. PICK b : b = Tail(s)
    OBVIOUS
  <2>5. /\ b \in Seq({"more", "last", "delimiter"}) /\ Len(b) = Len(s) - 1 /\ Len(s) \in Nat
        /\ Len(s) >= 1 /\ Head(s) = s[1] /\ DOMAIN s = 1 .. Len(s)
        /\ \A i \in 1 .. Len(s) - 1 : b[i] = s[i + 1]
    BY <2>2, <2>3, <2>4
  <2>6. Unsplit(b)
    <3>1. \A i \in 1 .. Len(s) - 1 : i + 1 \in 1 .. Len(s) /\ (i < Len(s) - 1 => i + 1 \in 1 .. Len(s) - 1)
      BY <2>5
    <3>2. DOMAIN b = 1 .. Len(s) - 1
      BY <2>5
    <3>3. ASSUME NEW i \in 1 .. Len(s) - 1, b[i] = "more"
          PROVE  i < Len(s) - 1 /\ b[i + 1] # "delimiter"
      <4>1. s[i + 1] = "more" /\ i + 1 \in DOMAIN s
        BY <2>5, <3>1, <3>3
      <4>2. i + 1 < Len(s) /\ s[(i + 1) + 1] # "delimiter"
        BY <2>2, <2>3, <4>1 DEF Unsplit
      <4>3. i < Len(s) - 1 /\ i + 1 \in 1 .. Len(s) - 1
        BY <2>5, <3>1, <4>2
      <4> QED
        BY <2>5, <4>2, <4>3
    <3> QED
      BY <2>5, <3>2, <3>3 DEF Unsplit
  <2>7. more => b # <<>> /\ Head(b) # "delimiter"
    <3> SUFFICES ASSUME more PROVE b # <<>> /\ Head(b) # "delimiter"
      OBVIOUS
    <3>1. s[1] = "more" /\ 1 \in DOMAIN s
      <4>1. Head(s) = "more"
        BY <1>3, <2>3
      <4> QED
        BY <2>5, <4>1
    <3>2. 1 < Len(s) /\ s[1 + 1] # "delimiter"
      BY <2>2, <2>3, <3>1 DEF Unsplit
    <3>3. 1 \in 1 .. Len(s) - 1
      BY <2>5, <3>2
    <3>4. b[1] # "delimiter"
      BY <2>5, <3>2, <3>3
    <3> QED
      BY <2>5, <3>2, <3>4
  <2>8. inq' \in [Pipes -> Seq({"more", "last", "delimiter"})] /\ \A x \in Pipes : inq'[x] = IF x = p THEN b ELSE inq[x]
    BY <2>1, <2>2, <2>3, <2>4, <2>5 DEF Base
  <2>9. waits' \in [Pipes -> Nat] /\ from' \in Pipes \cup {None} /\ half' \subseteq Pipes /\ astray' \subseteq Pipes
    <3>1. waits \in [Pipes -> Nat] /\ from \in Pipes \cup {None} /\ half \subseteq Pipes /\ astray \subseteq Pipes
      BY DEF Base
    <3>2. Counted(p, HasMessage) \in [Pipes -> Nat]
      <4> HIDE DEF HasMessage
      <4> QED
        BY <3>1 DEF Counted
    <3> QED
      BY <2>1, <2>2, <3>1, <3>2
  <2>10. Base'
    BY <1>4, <1>5, <2>8, <2>9 DEF Base
  <2>11. /\ fq' \in Array /\ Arranged(fq') /\ fq'.more = more
         /\ Attached(fq') = Attached(q) /\ ActivePart(fq') = ActivePart(q)
         /\ fq'.active = q.active /\ q.active > 0
         /\ more => At(fq') = At(q)
    <3>1. q \in Kinds /\ q.active > 0
      BY <1>5, <1>9, Fields DEF Kinds
    <3> QED
      BY ZenonT(60), <1>5, <2>1, <2>2, <3>1, TakingTurns
  <2>12. fq'.more <=> from' # None
    BY <1>11, <2>1, <2>2, <2>11
  <2>17. more => p \in HasMessage'
    BY <1>5, <2>2, <2>7, <2>8 DEF HasMessage, Readable
  <2>13. RestIsThere'
    <3>1. SUFFICES ASSUME more PROVE fq'.active > 0 /\ At(fq') = from' /\ from' \in HasMessage'
      BY <2>11 DEF RestIsThere, At
    <3> QED
      BY <1>2, <2>1, <2>11, <2>17, <3>1
  <2>14. \A x \in Pipes : Unsplit(inq[x])'
    <3> TAKE x \in Pipes
    <3>1. Unsplit(inq[x]) /\ (inq[x]' = b \/ inq[x]' = inq[x])
      BY <2>8 DEF Incoming
    <3> QED
      BY <2>6, <3>1 DEF Unsplit
  <2>15. Attached(fq)' = Held' /\ Arranged(fq)' /\ ActivePart(fq)' = ActivePart(q)
    BY <1>5, <1>6, <2>11 DEF Attached, Arranged, ActivePart
  <2>18. half' \subseteq astray' \cup {from'} /\ (from' # None => from' \in half')
    BY <1>10, <1>11, <2>1
  <2>16. Incoming'
    BY <1>5, <1>12, <2>11, <2>12, <2>13, <2>14, <2>15, <2>18 DEF Incoming
  <2> QED
    BY <1>7, <2>10, <2>13, <2>16
<1> QED
  BY <1>8, <1>9
-----------------------------------------------------------------------------
(* sendpipe and has_out. *)

LEMMA AskingRoom ==
  ASSUME Sound, NEW q, q = Settle(lb, HasRoom), WriteFailed(ActivePart(lb) \ ActivePart(q))
  PROVE  /\ out_active' \in [Pipes -> BOOLEAN]
         /\ q \in Balancer /\ Arranged(q) /\ Attached(q) = Held
         /\ q.more = lb.more /\ q.dropping = lb.dropping
         /\ q.active = 0 \/ At(q) \in HasRoom
         /\ lb.active > 0 /\ At(lb) \in HasRoom => q = lb
         /\ Sooner(lb, q)
         /\ \A x \in Pipes : st[x] = "active" =>
              /\ out_active'[x] => x \in ActivePart(q)
              /\ x \in ActivePart(q) => out_active'[x] \/ misplaced
         /\ \A x \in Pipes : st[x] = "new" => out_active'[x]
         /\ \A x \in HasRoom : out_active'[x] /\ x \in ActivePart(q)
<1> USE DEF Sound
<1> DEFINE asked == ActivePart(lb) \ ActivePart(q)
<1>1. lb \in Kinds /\ Arranged(lb) /\ lb \in Balancer /\ Attached(lb) = Held
  BY DEF Outgoing, Kinds
<1>2. /\ q \in Kinds /\ Like(lb, q) /\ Arranged(q)
      /\ Attached(q) = Attached(lb)
      /\ ActivePart(q) \subseteq ActivePart(lb)
      /\ asked \cap HasRoom = {}
      /\ Sooner(lb, q)
      /\ q.active = 0 \/ At(q) \in HasRoom
      /\ lb.active > 0 /\ At(lb) \in HasRoom => q = lb
  BY <1>1, Settling DEF Settled
<1>3. out_active' = [x \in Pipes |-> out_active[x] /\ ~(x \in asked /\ st[x] = "active" /\ Full(x))]
  BY DEF WriteFailed
<1> HIDE DEF asked
<1>4. out_active' \in [Pipes -> BOOLEAN]
  BY <1>3 DEF Base
<1>5. \A x \in HasRoom : out_active'[x] /\ x \in ActivePart(q)
  <2> TAKE x \in HasRoom
  <2>1. x \notin asked /\ x \in Pipes /\ st[x] = "active" /\ out_active[x]
    BY <1>2 DEF HasRoom
  <2>2. x \in ActivePart(lb)
    BY <2>1 DEF Outgoing, Flagged
  <2> QED
    BY <1>3, <2>1, <2>2 DEF asked
<1>6. \A x \in Pipes : st[x] = "active" =>
         /\ out_active'[x] => x \in ActivePart(q)
         /\ x \in ActivePart(q) => out_active'[x] \/ misplaced
  <2> TAKE x \in Pipes
  <2> HAVE st[x] = "active"
  <2>1. Flagged(x)
    BY DEF Outgoing
  <2>2. x \in asked /\ out_active[x] => Full(x)
    BY <1>2 DEF HasRoom
  <2>3. out_active'[x] <=> out_active[x] /\ ~(x \in asked /\ Full(x))
    BY <1>3
  <2> QED
    BY <1>2, <2>1, <2>2, <2>3 DEF asked, Flagged
<1>7. \A x \in Pipes : st[x] = "new" => out_active'[x]
  BY <1>3 DEF Outgoing
<1> QED
  BY <1>1, <1>2, <1>4, <1>5, <1>6, <1>7 DEF Like

(* A call of zmq_send changes nothing of what is received. *)
LEMMA Sent ==
  ASSUME Sound, UNCHANGED <<st, inq, in_active, fq, from, half, astray, fate>>
  PROVE  Incoming' /\ Onward /\ Held' = Held
<1>1. Onward
  BY DEF Onward
<1>2. from # None /\ from \in HasMessage => from \in HasMessage'
  BY DEF HasMessage, Readable
<1>3. \A x \in Pipes : Unsplit(inq[x])'
  BY DEF Sound, Incoming, Unsplit
<1>4. Incoming'
  BY <1>1, <1>2, <1>3, Unread DEF Sound
<1> QED
  BY <1>1, <1>4 DEF Held

LEMMA HasOut ==
  ASSUME Sound, xhas_out
  PROVE  Sound'
<1> USE DEF Sound
<1>0. /\ UNCHANGED <<traffic, st, inq, in_active, out, open, used, waits, fate>>
      /\ UNCHANGED <<fq, from, half, astray, next, torn, misplaced>>
      /\ ~lb.more /\ fate = "running"
  BY DEF xhas_out, inVars, Runs
<1>1. PICK q : q = lb'
  OBVIOUS
<1>2. q = Settle(lb, HasRoom) /\ WriteFailed(ActivePart(lb) \ ActivePart(q))
  <2>1. WriteFailed(ActivePart(lb) \ ActivePart(lb'))
    BY DEF xhas_out, WriteFailed
  <2> QED
    BY <1>1, <2>1 DEF xhas_out
<1>3. /\ out_active' \in [Pipes -> BOOLEAN]
      /\ q \in Balancer /\ Arranged(q) /\ Attached(q) = Held
      /\ q.more = lb.more /\ q.dropping = lb.dropping
      /\ \A x \in Pipes : st[x] = "active" =>
           /\ out_active'[x] => x \in ActivePart(q)
           /\ x \in ActivePart(q) => out_active'[x] \/ misplaced
      /\ \A x \in Pipes : st[x] = "new" => out_active'[x]
  BY <1>2, AskingRoom
<1>4. Base'
  BY <1>0, <1>3 DEF Base
<1>5. Incoming' /\ Held' = Held
  BY <1>0, Sent
<1>6. Outgoing'
  <2>1. Writing'
    <3>1. ~Sending /\ ~Sending'
      BY <1>0, <1>1, <1>3 DEF Sending
    <3>2. \A x \in Pipes \ torn' : open'[x] = <<>>
      BY <1>0, <3>1 DEF Outgoing, Writing
    <3>3. lb'.dropping => lb'.more
      BY <1>1, <1>3 DEF Outgoing, Writing
    <3> QED
      BY <3>1, <3>2, <3>3 DEF Writing
  <2>2. WholeOut'
    BY <1>0 DEF Outgoing, WholeOut, WholeOrTorn, Whole
  <2>3. Attached(lb)' = Held' /\ Arranged(lb)' /\ ActivePart(lb)' = ActivePart(q)
    BY <1>1, <1>3, <1>5 DEF Attached, Arranged, ActivePart
  <2>4. \A x \in Pipes : st'[x] = "active" => Flagged(x)'
    BY <1>0, <1>3, <2>3 DEF Flagged
  <2>5. (\A x \in Pipes : st'[x] = "new" => out_active'[x]) /\ (fate = "undefined" => misplaced)'
    BY <1>0, <1>3
  <2> QED
    BY <1>1, <1>3, <2>1, <2>2, <2>3, <2>4, <2>5 DEF Outgoing
<1> QED
  BY <1>4, <1>5, <1>6

LEMMA Dropping ==
  ASSUME Sound, Runs, NEW more \in BOOLEAN, more => next < MaxPart, SendDropped(more)
  PROVE  Sound'
<1> USE DEF Sound
<1>0. /\ UNCHANGED <<traffic, st, inq, in_active, out, open, used, out_active, waits, fate>>
      /\ UNCHANGED <<fq, from, half, astray, torn, misplaced>>
  BY DEF SendDropped, pipeVars, inVars
<1>1. lb' = [lb EXCEPT !.more = more, !.dropping = more] /\ lb \in Balancer /\ lb.dropping
  BY DEF SendDropped, Outgoing
<1>2. /\ lb' \in Balancer /\ lb'.more = more /\ lb'.dropping = more
      /\ lb'.pipes = lb.pipes /\ lb'.active = lb.active /\ lb'.current = lb.current
  BY <1>1 DEF Balancer
<1>3. next' \in 1 .. MaxPart
  BY Assumed DEF SendDropped, Following, Base
<1>4. Base'
  BY <1>0, <1>3 DEF Base
<1>5. Incoming' /\ Held' = Held
  BY <1>0, Sent
<1>6. Writing'
  <2>1. ~Sending /\ ~Sending'
    BY <1>1, <1>2 DEF Sending
  <2>2. \A x \in Pipes \ torn' : open'[x] = <<>>
    BY <1>0, <2>1 DEF Outgoing, Writing
  <2> QED
    BY <1>2, <2>1, <2>2 DEF Writing
<1>7. WholeOut'
  BY <1>0 DEF Outgoing, WholeOut, WholeOrTorn, Whole
<1>8. Attached(lb)' = Held' /\ Arranged(lb)' /\ ActivePart(lb)' = ActivePart(lb)
  BY <1>2, <1>5 DEF Attached, Arranged, ActivePart, Outgoing
<1>10. Outgoing'
  <2>1. \A x \in Pipes : st'[x] = "active" => Flagged(x)'
    BY <1>0, <1>8 DEF Outgoing, Flagged
  <2> QED
    BY <1>0, <1>2, <1>6, <1>7, <1>8, <2>1 DEF Outgoing
<1> QED
  BY <1>4, <1>5, <1>10

(* A full pipe that a message has jumped to stays in the active part. *)
LEMMA RollingBack ==
  ASSUME Sound, Runs, SendRolledBack
  PROVE  Sound' /\ HasRoom' = HasRoom
<1> USE DEF Sound
<1>1. PICK p : p = At(lb)
  OBVIOUS
<1>0. /\ UNCHANGED <<traffic, st, inq, in_active, out, used, waits, fate>>
      /\ UNCHANGED <<fq, from, half, astray>>
      /\ ~lb.dropping /\ lb.more /\ lb.active > 0 /\ p \notin HasRoom
      /\ open' = [open EXCEPT ![p] = <<>>] /\ lb' = [lb EXCEPT !.more = FALSE]
      /\ next' \in {1, next} /\ torn' = torn \ {p}
      /\ misplaced' = (misplaced \/ st[p] = "active")
      /\ out_active' = [x \in Pipes |-> out_active[x] /\ ~(x \in {p} /\ st[x] = "active" /\ Full(x))]
  BY <1>1 DEF SendRolledBack, inVars, WriteFailed
<1>2. lb \in Balancer /\ Arranged(lb) /\ Sending /\ p \in Pipes /\ p \in ActivePart(lb)
  <2>1. lb \in Balancer /\ Arranged(lb) /\ Sending
    BY <1>0 DEF Sending, Outgoing
  <2>2. p \in ActivePart(lb) /\ p \in Pipes
    BY <1>0, <1>1, <2>1, Current DEF Kinds
  <2> QED
    BY <2>1, <2>2
<1>4. /\ out_active' \in [Pipes -> BOOLEAN]
      /\ \A x \in Pipes : /\ out_active'[x] => out_active[x]
                          /\ x # p => out_active'[x] = out_active[x]
                          /\ st[x] # "active" => out_active'[x] = out_active[x]
  <2>1. out_active \in [Pipes -> BOOLEAN]
    BY DEF Base
  <2> HIDE DEF Sound
  <2> QED
    BY <1>0, <2>1
<1>5. /\ lb' \in Balancer /\ lb'.more = FALSE /\ lb'.dropping = lb.dropping
      /\ lb'.pipes = lb.pipes /\ lb'.active = lb.active /\ lb'.current = lb.current
  BY <1>0, <1>2 DEF Balancer
<1>6. open' \in [Pipes -> Parts] /\ \A x \in Pipes : open'[x] = IF x = p THEN <<>> ELSE open[x]
  <2>1. open \in [Pipes -> Parts] /\ <<>> \in Parts
    BY DEF Base, Parts
  <2> HIDE DEF Sound
  <2> QED
    BY <1>0, <2>1
<1>7. next' \in 1 .. MaxPart /\ torn' \subseteq Pipes /\ misplaced' \in BOOLEAN
  BY <1>0, Assumed DEF Base
<1>8. Base'
  BY <1>0, <1>4, <1>6, <1>7 DEF Base
<1>9. Incoming' /\ Held' = Held
  BY <1>0, Sent
<1>10. Writing'
  <2>1. \A x \in Pipes \ torn' : open'[x] = <<>>
    BY <1>0, <1>1, <1>6 DEF Outgoing, Writing
  <2>2. ~lb'.dropping
    BY <1>0, <1>5
  <2> QED
    BY <1>5, <2>1, <2>2 DEF Writing, Sending
<1>11. WholeOut'
  <2> SUFFICES ASSUME NEW x \in Pipes
               PROVE  /\ \A i \in DOMAIN out'[x] : WholeOrTorn(out'[x][i])
                      /\ x \in torn' \/ Whole(open'[x])
    BY DEF WholeOut, WholeOrTorn, Whole
  <2>1. Whole(<<>>)
    BY DEF Whole
  <2> QED
    BY <1>0, <1>6, <2>1 DEF Outgoing, WholeOut
<1>12. Attached(lb)' = Held' /\ Arranged(lb)' /\ ActivePart(lb)' = ActivePart(lb)
  BY <1>5, <1>9 DEF Attached, Arranged, ActivePart, Outgoing
<1>13. \A x \in Pipes : st'[x] = "active" => Flagged(x)'
  BY <1>0, <1>4, <1>12 DEF Outgoing, Flagged
<1>15. (\A x \in Pipes : st'[x] = "new" => out_active'[x]) /\ (fate = "undefined" => misplaced)'
  BY <1>0, <1>4 DEF Outgoing
<1>14. Outgoing'
  BY <1>5, <1>10, <1>11, <1>12, <1>13, <1>15 DEF Outgoing
<1>16. HasRoom' = HasRoom
  BY <1>0, <1>4 DEF HasRoom, Full
<1> QED
  BY <1>8, <1>9, <1>14, <1>16

LEMMA Written ==
  ASSUME Sound, Runs, NEW more \in BOOLEAN, more => next < MaxPart, SendWritten(more)
  PROVE  Sound'
<1> USE DEF Sound
<1>1. PICK q : q = Settle(lb, HasRoom)
  OBVIOUS
<1>2. PICK p : p = At(q)
  OBVIOUS
<1>3. PICK w, amiss : /\ w = Append(open[p], next)
                      /\ amiss = IF ~lb.more /\ next > 1 THEN torn \cup {p} ELSE torn
  OBVIOUS
<1>4. /\ ~lb.dropping
      /\ lb.more /\ lb.active > 0 => At(lb) \in HasRoom
      /\ WriteFailed(ActivePart(lb) \ ActivePart(q))
      /\ q.active = 0 => lb' = q /\ UNCHANGED <<out, open, used, next, torn, waits>>
      /\ q.active # 0 =>
           /\ open' = [open EXCEPT ![p] = IF more THEN w ELSE <<>>]
           /\ out' = [out EXCEPT ![p] = IF more THEN @
                        ELSE Append(@, [parts |-> w, torn |-> p \in amiss])]
           /\ used' = [used EXCEPT ![p] = IF more THEN @ ELSE @ + 1]
           /\ lb' = [q EXCEPT !.more = more, !.current = Turned(q, more)]
           /\ next' = Following(more)
           /\ torn' = IF more THEN amiss ELSE amiss \ {p}
           /\ waits' = IF more THEN waits ELSE Counted(p, HasRoom)
      /\ UNCHANGED <<traffic, st, inq, in_active, fq, from, half, astray, misplaced, fate>>
  BY <1>1, <1>2, <1>3 DEF SendWritten, inVars
<1>5. /\ out_active' \in [Pipes -> BOOLEAN]
      /\ q \in Balancer /\ Arranged(q) /\ Attached(q) = Held
      /\ q.more = lb.more /\ q.dropping = lb.dropping
      /\ q.active = 0 \/ p \in HasRoom
      /\ lb.active > 0 /\ At(lb) \in HasRoom => q = lb
      /\ \A x \in Pipes : st[x] = "active" =>
           /\ out_active'[x] => x \in ActivePart(q)
           /\ x \in ActivePart(q) => out_active'[x] \/ misplaced
      /\ \A x \in Pipes : st[x] = "new" => out_active'[x]
      /\ \A x \in HasRoom : out_active'[x]
  BY <1>1, <1>2, <1>4, AskingRoom
<1>6. Incoming' /\ Held' = Held
  BY <1>4, Sent
<1>9. Sending => lb.more /\ q = lb /\ lb.active > 0 /\ p = At(lb)
  BY <1>2, <1>4, <1>5 DEF Sending, Outgoing, Writing
<1>10. \A x \in Pipes \ torn : open[x] # <<>> => x = p /\ Sending
  BY <1>9 DEF Outgoing, Writing
<1>11. (\A x \in Pipes : st'[x] = "new" => out_active'[x]) /\ (fate = "undefined" => misplaced)'
  BY <1>4, <1>5 DEF Outgoing
<1>7. CASE q.active = 0
  <2>1. lb' = q /\ UNCHANGED <<out, open, used, next, torn, waits>>
    BY <1>4, <1>7
  <2>2. Base'
    BY <1>4, <1>5, <2>1 DEF Base
  <2>3. ~Sending
    BY <1>7, <1>9
  <2>4. Writing'
    <3>1. ~Sending'
      BY <1>5, <2>1, <2>3 DEF Sending
    <3>2. \A x \in Pipes \ torn' : open'[x] = <<>>
      BY <1>10, <2>1, <2>3
    <3>3. lb'.dropping => lb'.more
      BY <1>4, <1>5, <2>1
    <3> QED
      BY <3>1, <3>2, <3>3 DEF Writing
  <2>5. WholeOut'
    BY <2>1 DEF Outgoing, WholeOut, WholeOrTorn, Whole
  <2>6. Attached(lb)' = Held' /\ Arranged(lb)' /\ ActivePart(lb)' = ActivePart(q)
    BY <1>5, <1>6, <2>1 DEF Attached, Arranged, ActivePart
  <2>8. \A x \in Pipes : st'[x] = "active" => Flagged(x)'
    BY <1>4, <1>5, <2>6 DEF Flagged
  <2>7. Outgoing'
    BY <1>5, <1>11, <2>1, <2>4, <2>5, <2>6, <2>8 DEF Outgoing
  <2> QED
    BY <1>6, <2>2, <2>7
<1>8. CASE q.active # 0
  <2>1. /\ open' = [open EXCEPT ![p] = IF more THEN w ELSE <<>>]
        /\ out' = [out EXCEPT ![p] = IF more THEN @
                     ELSE Append(@, [parts |-> w, torn |-> p \in amiss])]
        /\ used' = [used EXCEPT ![p] = IF more THEN @ ELSE @ + 1]
        /\ lb' = [q EXCEPT !.more = more, !.current = Turned(q, more)]
        /\ next' = Following(more)
        /\ torn' = IF more THEN amiss ELSE amiss \ {p}
        /\ waits' = IF more THEN waits ELSE Counted(p, HasRoom)
    BY <1>4, <1>8
  <2>2. p \in HasRoom /\ p \in Pipes /\ st[p] = "active" /\ out_active[p] /\ used[p] \in 0 .. Hwm /\ used[p] < Hwm
    <3>1. p \in HasRoom /\ p \in Pipes /\ st[p] = "active" /\ out_active[p] /\ used[p] \in 0 .. Hwm /\ ~Full(p)
      BY <1>5, <1>8 DEF HasRoom, Base
    <3> QED
      BY <3>1, Assumed DEF Full
  <2>3. /\ lb' \in Balancer /\ Arranged(lb') /\ lb'.more = more /\ lb'.dropping = q.dropping
        /\ Attached(lb') = Attached(q) /\ ActivePart(lb') = ActivePart(q)
        /\ lb'.active = q.active /\ q.active > 0
        /\ more => At(lb') = At(q)
    <3>1. q \in Kinds /\ q.active > 0
      BY <1>5, <1>8, Fields DEF Kinds
    <3> QED
      BY ZenonT(60), <1>5, <2>1, <3>1, TakingTurns
  <2>4. PICK o : o = open[p]
    OBVIOUS
  <2>5. /\ o \in Parts /\ next \in 1 .. MaxPart /\ MaxPart \in Nat
        /\ torn \subseteq Pipes /\ amiss \subseteq Pipes /\ torn \subseteq amiss
        /\ p \notin amiss => Whole(o) /\ Len(o) = next - 1
    <3>1. o \in Parts /\ next \in 1 .. MaxPart /\ MaxPart \in Nat /\ torn \subseteq Pipes
      BY <2>2, <2>4, Assumed DEF Base
    <3>2. p \notin torn => Whole(o)
      BY <2>2, <2>4 DEF Outgoing, WholeOut
    <3>3. CASE lb.more
      <4>1. Sending
        BY <1>4, <3>3 DEF Sending
      <4>2. p \notin torn => Len(o) = next - 1
        BY <1>9, <2>2, <2>4, <4>1 DEF Outgoing, Writing, Writable, Runs
      <4> QED
        BY <1>3, <3>1, <3>2, <3>3, <4>2
    <3>4. CASE ~lb.more
      <4>1. p \notin amiss => next = 1 /\ p \notin torn
        BY <1>3, <3>1, <3>4
      <4>2. p \notin torn => o = <<>>
        BY <1>10, <2>2, <2>4, <3>4 DEF Sending
      <4>3. Len(<<>>) = 0
        OBVIOUS
      <4> QED
        BY <1>3, <2>2, <3>1, <3>2, <4>1, <4>2, <4>3
    <3> QED
      BY <3>3, <3>4
  <2>6. /\ w \in Parts /\ Len(w) = Len(o) + 1 /\ Len(o) \in Nat /\ DOMAIN w = 1 .. Len(o) + 1 /\ DOMAIN o = 1 .. Len(o)
        /\ \A k \in 1 .. Len(o) + 1 : w[k] = IF k = Len(o) + 1 THEN next ELSE o[k]
    <3>1. w = Append(o, next) /\ o \in Seq(1 .. MaxPart)
      BY <1>3, <2>4, <2>5 DEF Parts
    <3>2. w \in Seq(1 .. MaxPart) /\ Len(w) = Len(o) + 1
          /\ \A k \in 1 .. Len(o) + 1 : w[k] = IF k = Len(o) + 1 THEN next ELSE o[k]
      BY <2>5, <3>1, AppendProperties
    <3>3. Len(o) \in Nat /\ DOMAIN o = 1 .. Len(o) /\ DOMAIN w = 1 .. Len(w)
      BY <3>1, <3>2
    <3> QED
      BY <3>2, <3>3 DEF Parts
  <2>7. p \notin amiss => Whole(w) /\ Len(w) = next
    <3>1. SUFFICES ASSUME p \notin amiss PROVE Whole(w) /\ Len(w) = next
      OBVIOUS
    <3>2. Len(o) + 1 = next /\ Whole(o)
      BY <2>5, <2>6, <3>1
    <3>3. \A k \in 1 .. Len(o) + 1 : k # Len(o) + 1 => k \in DOMAIN o
      BY <2>6
    <3> QED
      BY <2>6, <3>2, <3>3 DEF Whole
  <2>9. open' \in [Pipes -> Parts]
        /\ \A x \in Pipes : open'[x] = IF x = p THEN IF more THEN w ELSE <<>> ELSE open[x]
    <3>1. open \in [Pipes -> Parts]
      BY DEF Base
    <3>3. <<>> \in Parts
      BY DEF Parts
    <3>2. (IF more THEN w ELSE <<>>) \in Parts
      BY <2>6, <3>3
    <3> QED
      BY <2>1, <2>2, <3>1, <3>2
  <2>12. PICK m : m = [parts |-> w, torn |-> p \in amiss]
    OBVIOUS
  <2>13. m \in Message /\ WholeOrTorn(m)
    <3>1. (p \in amiss) \in BOOLEAN
      OBVIOUS
    <3>2. m \in Message
      BY <2>6, <2>12, <3>1 DEF Message
    <3>3. m.parts = w /\ m.torn = (p \in amiss)
      BY <2>12
    <3> QED
      BY <2>7, <3>2, <3>3 DEF WholeOrTorn
  <2>8. out' \in [Pipes -> Seq(Message)] /\ \A x \in Pipes : \A i \in DOMAIN out'[x] : WholeOrTorn(out'[x][i])
    <3>1. out \in [Pipes -> Seq(Message)] /\ \A x \in Pipes : \A i \in DOMAIN out[x] : WholeOrTorn(out[x][i])
      BY DEF Base, Outgoing, WholeOut
    <3>2. CASE more
      <4>1. out' = [out EXCEPT ![p] = @]
        BY <2>1, <3>2
      <4> QED
        BY <3>1, <4>1
    <3>3. CASE ~more
      <4>1. PICK s : s = out[p]
        OBVIOUS
      <4>2. PICK c : c = Append(s, m)
        OBVIOUS
      <4>3. out' = [out EXCEPT ![p] = c]
        BY <2>1, <2>12, <3>3, <4>1, <4>2
      <4>4. s \in Seq(Message) /\ \A i \in DOMAIN s : WholeOrTorn(s[i])
        BY <2>2, <3>1, <4>1
      <4>5. /\ c \in Seq(Message) /\ Len(c) = Len(s) + 1 /\ Len(s) \in Nat /\ DOMAIN s = 1 .. Len(s)
            /\ \A k \in 1 .. Len(s) + 1 : c[k] = IF k = Len(s) + 1 THEN m ELSE s[k]
        BY <2>13, <4>2, <4>4, AppendProperties
      <4>6. DOMAIN c = 1 .. Len(s) + 1 /\ \A k \in 1 .. Len(s) + 1 : k # Len(s) + 1 => k \in DOMAIN s
        BY <4>5
      <4>7. \A i \in DOMAIN c : WholeOrTorn(c[i])
        BY <2>13, <4>4, <4>5, <4>6
      <4> QED
        BY <2>2, <3>1, <4>3, <4>5, <4>7
    <3> QED
      BY <3>2, <3>3
  <2>14. WholeOut'
    <3> SUFFICES ASSUME NEW x \in Pipes
                 PROVE  /\ \A i \in DOMAIN out'[x] : WholeOrTorn(out'[x][i])
                        /\ x \in torn' \/ Whole(open'[x])
      BY DEF WholeOut, WholeOrTorn, Whole
    <3>1. Whole(<<>>)
      BY DEF Whole
    <3>2. CASE x = p
      BY <2>1, <2>7, <2>8, <2>9, <3>1, <3>2
    <3>3. CASE x # p
      BY <2>1, <2>5, <2>8, <2>9, <3>3 DEF Outgoing, WholeOut
    <3> QED
      BY <3>2, <3>3
  <2>15. used' \in [Pipes -> 0 .. Hwm] /\ (more => used'[p] = used[p])
    <3>1. used \in [Pipes -> 0 .. Hwm] /\ Hwm \in Nat
      BY Assumed DEF Base
    <3>2. used[p] + 1 \in 0 .. Hwm
      BY <2>2, <3>1
    <3> QED
      BY <2>1, <2>2, <3>1, <3>2
  <2>16. next' \in 1 .. MaxPart /\ next' = IF more THEN next + 1 ELSE 1
    BY <2>1, <2>5 DEF Following
  <2>17. waits' \in [Pipes -> Nat]
    <3>1. waits \in [Pipes -> Nat]
      BY DEF Base
    <3>2. Counted(p, HasRoom) \in [Pipes -> Nat]
      <4> HIDE DEF HasRoom
      <4> QED
        BY <3>1 DEF Counted
    <3> QED
      BY <2>1, <3>1, <3>2
  <2>22. torn' \subseteq Pipes
    BY <2>1, <2>5
  <2>18. Base'
    BY <1>4, <1>5, <2>8, <2>9, <2>15, <2>16, <2>17, <2>22 DEF Base
  <2>19. Writing'
    <3>1. ~lb'.dropping /\ (Sending' <=> more)
      BY <1>4, <1>5, <2>3 DEF Sending
    <3>2. \A x \in Pipes \ torn' : open'[x] # <<>> => x = p /\ more
      <4> TAKE x \in Pipes \ torn'
      <4> HAVE open'[x] # <<>>
      <4>1. CASE x = p
        BY <2>9, <4>1
      <4>2. CASE x # p
        <5>1. x \notin torn /\ open[x] # <<>>
          BY <2>1, <2>5, <2>9, <4>2
        <5> QED
          BY <1>10, <4>2, <5>1
      <4> QED
        BY <4>1, <4>2
    <3>3. out_active'[p]
      BY <1>5, <2>2
    <3>4. more => At(lb)' = p
      BY <1>2, <2>3 DEF At
    <3>5. more => p \in torn' \/ (Len(open'[p]) = next' - 1 /\ ~(used'[p] >= Hwm))
      <4>1. SUFFICES ASSUME more, p \notin amiss PROVE Len(open'[p]) = next' - 1 /\ ~(used'[p] >= Hwm)
        BY <2>1
      <4>2. Len(w) = next /\ open'[p] = w /\ next' = next + 1 /\ next \in Nat
        BY <2>2, <2>5, <2>7, <2>9, <2>16, <4>1
      <4>3. ~(used'[p] >= Hwm)
        BY <2>2, <2>15, <4>1, Assumed
      <4> QED
        BY <4>2, <4>3
    <3> QED
      BY <2>3, <3>1, <3>2, <3>3, <3>4, <3>5 DEF Writing, Full
  <2>20. Attached(lb)' = Held' /\ Arranged(lb)' /\ ActivePart(lb)' = ActivePart(q)
    BY <1>5, <1>6, <2>3 DEF Attached, Arranged, ActivePart
  <2>23. \A x \in Pipes : st'[x] = "active" => Flagged(x)'
    BY <1>4, <1>5, <2>20 DEF Flagged
  <2>21. Outgoing'
    BY <1>11, <2>3, <2>14, <2>19, <2>20, <2>23 DEF Outgoing
  <2> QED
    BY <1>6, <2>18, <2>21
<1> QED
  BY <1>7, <1>8
-----------------------------------------------------------------------------
(* Every step keeps the arrays and the messages sound. *)

LEMMA SoundStep ==
  ASSUME Sound, [Next]_vars
  PROVE  Sound'
<1>1. CASE UNCHANGED vars
  <2>1. /\ UNCHANGED <<traffic, st, inq, in_active, out, open, used, out_active, waits, fate>>
        /\ UNCHANGED <<fq, from, half, astray, lb, next, torn, misplaced>>
    BY <1>1 DEF vars, pipeVars, inVars, outVars
  <2>2. Base' /\ Held' = Held
    BY <2>1 DEF Sound, Base, Held
  <2>3. Incoming'
    BY <2>1, Sent DEF Sound
  <2>4. WholeOut' /\ Writing'
    BY <2>1 DEF Sound, Outgoing, WholeOut, WholeOrTorn, Whole, Writing, Writable, Sending, Full, At
  <2>5. (Attached(lb) = Held)' /\ (Arranged(lb))' /\ ActivePart(lb)' = ActivePart(lb)
    BY <2>1, <2>2 DEF Sound, Outgoing, Attached, ActivePart, Arranged
  <2>6. \A x \in Pipes : st'[x] = "active" => Flagged(x)'
    BY <2>1, <2>5 DEF Sound, Outgoing, Flagged
  <2>7. Outgoing'
    BY <2>1, <2>4, <2>5, <2>6 DEF Sound, Outgoing
  <2> QED
    BY <2>2, <2>3, <2>7 DEF Sound
<1>2. ASSUME NEW p \in Pipes,
             \/ PeerWrite(p) \/ PeerRead(p) \/ PeerTerminate(p)
             \/ xattach_pipe(p) \/ xread_activated(p) \/ xwrite_activated(p)
             \/ process_pipe_term(p) \/ terminate(p) \/ xpipe_terminated(p)
      PROVE  Sound'
  BY <1>2, WritePeer, ReadPeer, TerminatePeer, AttachPipe, ReadActivated, WriteActivated, PipeTerm,
     Terminate, PipeTerminated
<1>3. CASE sendpipe
  <2>0. Runs
    BY <1>3 DEF sendpipe
  <2>1. CASE SendRolledBack
    BY <2>0, <2>1, RollingBack
  <2>2. ASSUME NEW more \in BOOLEAN, more => next < MaxPart, SendDropped(more) \/ SendWritten(more)
        PROVE  Sound'
    BY <2>0, <2>2, Dropping, Written
  <2> QED
    BY <1>3, <2>1, <2>2 DEF sendpipe
<1>4. CASE recvpipe
  BY <1>4, Aborting, Taking DEF recvpipe
<1> QED
  BY <1>1, <1>2, <1>3, <1>4, HasIn, HasOut DEF Next
-----------------------------------------------------------------------------
(* Whose turn it is: what a ready pipe has waited, and has yet to. *)

Even(q, w, most, ready) ==
  \A i \in 1 .. q.active : q.pipes[i] \in ready => w[q.pipes[i]] + Rank(q, i - 1) <= most

LEMMA Limit ==
  ASSUME Base
  PROVE  Turns \in Nat /\ N - 1 <= Turns
<1>1. Ended \subseteq 1 .. N /\ N \in Nat /\ N >= 1
  BY Assumed DEF Ended
<1>2. IsFiniteSet(1 .. N)
  BY <1>1, FS_Interval
<1>3. PICK c \in Nat : c = Cardinality(Ended)
  BY <1>1, <1>2, FS_Subset, FS_CardinalityType
<1>4. PICK m \in Nat : m = N - 1
  BY <1>1
<1>5. m * (1 + c) = m + m * c /\ m * c \in Nat
  OBVIOUS
<1> QED
  BY <1>3, <1>4, <1>5 DEF Turns

LEMMA Farther ==
  ASSUME Base, NEW p \in Pipes, st[p] # "gone", Ended' = Ended \cup {p}
  PROVE  Turns' = Turns + (N - 1)
<1>1. Ended \subseteq 1 .. N /\ N \in Nat /\ N >= 1 /\ p \notin Ended
  BY Assumed DEF Ended
<1>2. IsFiniteSet(1 .. N)
  BY <1>1, FS_Interval
<1>3. IsFiniteSet(Ended)
  BY <1>1, <1>2, FS_Subset
<1>4. PICK c \in Nat : c = Cardinality(Ended)
  BY <1>3, FS_CardinalityType
<1>5. Cardinality(Ended') = c + 1
  BY <1>1, <1>3, <1>4, FS_AddElement
<1>6. PICK m \in Nat : m = N - 1
  BY <1>1
<1>7. m * (1 + (c + 1)) = m * (1 + c) + m
  OBVIOUS
<1>8. Turns = m * (1 + c) /\ Turns' = m * (1 + (c + 1))
  BY <1>4, <1>5, <1>6 DEF Turns
<1> QED
  BY <1>6, <1>7, <1>8

LEMMA EvenSooner ==
  ASSUME NEW q \in Kinds, NEW r \in Kinds, Arranged(q), Arranged(r), Sooner(q, r), NEW ready,
         NEW w \in [Pipes -> Nat], NEW most \in Nat, Even(q, w, most, ready)
  PROVE  Even(r, w, most, ready)
<1> SUFFICES ASSUME NEW k \in 1 .. r.active, r.pipes[k] \in ready
             PROVE  w[r.pipes[k]] + Rank(r, k - 1) <= most
  BY DEF Even
<1>1. PICK j \in 1 .. q.active : r.pipes[k] = q.pipes[j] /\ Rank(r, k - 1) <= Rank(q, j - 1)
  BY DEF Sooner
<1>2. Rank(r, k - 1) \in Nat /\ Rank(q, j - 1) \in Nat
  BY Ranked, Assumed
<1>3. q.pipes[j] \in Pipes
  BY Fields, Shorter
<1>4. w[q.pipes[j]] + Rank(q, j - 1) <= most
  BY <1>1 DEF Even
<1> QED
  BY <1>1, <1>2, <1>3, <1>4

(* Pipes that are not ready come into the active part, or change places. *)
LEMMA EvenMore ==
  ASSUME NEW q, NEW r, r.current = q.current, NEW ready, NEW w, NEW most, Even(q, w, most, ready),
         \A k \in 1 .. r.active : r.pipes[k] \in ready => k \in 1 .. q.active /\ r.pipes[k] = q.pipes[k]
  PROVE  Even(r, w, most, ready)
BY DEF Even, Rank

(* One pipe less, and the places of the others changed. *)
LEMMA EvenLess ==
  ASSUME NEW q \in Kinds, NEW r \in Kinds, Arranged(q), Arranged(r),
         NEW p, ActivePart(r) = ActivePart(q) \ {p},
         NEW w \in [Pipes -> Nat], NEW v \in [Pipes -> Nat], \A x \in Pipes : x # p => v[x] = w[x],
         NEW ready, NEW later, later \subseteq ready, NEW most \in Nat, Even(q, w, most, ready)
  PROVE  Even(r, v, most + (N - 1), later)
<1> SUFFICES ASSUME NEW k \in 1 .. r.active, r.pipes[k] \in later
             PROVE  v[r.pipes[k]] + Rank(r, k - 1) <= most + (N - 1)
  BY DEF Even
<1>1. r.pipes[k] \in ActivePart(r)
  BY DEF ActivePart, First
<1>2. r.pipes[k] \in ActivePart(q) /\ r.pipes[k] # p
  BY <1>1
<1>3. PICK j \in 1 .. q.active : q.pipes[j] = r.pipes[k]
  BY <1>2 DEF ActivePart, First
<1>4. Rank(r, k - 1) \in 0 .. N - 1 /\ Rank(q, j - 1) \in 0 .. N - 1 /\ N \in Nat
  BY Ranked, Assumed
<1>5. q.pipes[j] \in Pipes
  BY Fields, Shorter
<1>6. w[q.pipes[j]] + Rank(q, j - 1) <= most
  BY <1>3 DEF Even
<1>7. v[r.pipes[k]] = w[q.pipes[j]] /\ w[q.pipes[j]] \in Nat
  BY <1>2, <1>3, <1>5
<1> QED
  BY <1>4, <1>6, <1>7

(* A message of the current pipe is complete. *)
LEMMA EvenTurned ==
  ASSUME NEW q \in Kinds, NEW r \in Kinds, Arranged(q), Arranged(r), q.active > 0,
         r.pipes = q.pipes, r.active = q.active,
         \A k \in 1 .. q.active : k # q.current + 1 => Rank(r, k - 1) <= Rank(q, k - 1) - 1,
         NEW w \in [Pipes -> Nat], NEW ready, NEW v,
         v = [x \in Pipes |-> IF x \in ready \ {At(q)} THEN w[x] + 1 ELSE 0],
         NEW most \in Nat, N - 1 <= most, Even(q, w, most, ready), NEW later
  PROVE  Even(r, v, most, later)
<1> SUFFICES ASSUME NEW k \in 1 .. q.active PROVE v[q.pipes[k]] + Rank(r, k - 1) <= most
  BY DEF Even
<1>1. PICK x : x = q.pipes[k]
  OBVIOUS
<1>2. x \in Pipes /\ k \in DOMAIN q.pipes
  BY <1>1, Fields, Shorter
<1>3. Rank(r, k - 1) \in 0 .. N - 1 /\ Rank(q, k - 1) \in 0 .. N - 1 /\ N \in Nat
  BY Ranked, Assumed
<1>4. w[x] \in Nat /\ (x \in ready => w[x] + Rank(q, k - 1) <= most)
  BY <1>1, <1>2 DEF Even
<1>5. CASE k = q.current + 1 \/ x \notin ready
  <2>1. v[x] = 0
    BY <1>1, <1>2, <1>5 DEF At
  <2> QED
    BY <1>1, <1>3, <2>1
<1>6. CASE k # q.current + 1 /\ x \in ready
  <2>1. v[x] = 0 \/ v[x] = w[x] + 1
    BY <1>2
  <2>2. Rank(r, k - 1) <= Rank(q, k - 1) - 1
    BY <1>6
  <2> QED
    BY <1>1, <1>3, <1>4, <1>6, <2>1, <2>2
<1> QED
  BY <1>5, <1>6

(* What one direction needs of a step that serves nobody.  A pipe that     *)
(* becomes ready has waited for none.                                      *)
Idle(q, ready, ends) ==
  /\ Even(q', waits, Turns, ready)
  /\ \A p \in Pipes : waits[p] > 0 /\ (p \in ready \/ st[p] \in ends) => p \in ready' \/ st'[p] \in ends

Fading ==
  \A p \in Pipes : /\ st[p] = "closed" => st'[p] = "closed"
                   /\ st[p] = "waiting_for_delimiter" => st'[p] # "active"

LEMMA EvenLater ==
  ASSUME NEW r \in Kinds, Arranged(r), NEW ready, NEW later, NEW w \in [Pipes -> Nat],
         NEW most \in Nat, N - 1 <= most, Even(r, w, most, ready),
         \A p \in Pipes : p \in later /\ p \notin ready => w[p] = 0
  PROVE  Even(r, w, most, later)
<1> SUFFICES ASSUME NEW k \in 1 .. r.active, r.pipes[k] \in later
             PROVE  w[r.pipes[k]] + Rank(r, k - 1) <= most
  BY DEF Even
<1>1. r.pipes[k] \in Pipes
  BY Fields, Shorter
<1>2. Rank(r, k - 1) \in 0 .. N - 1 /\ N \in Nat
  BY Ranked, Assumed
<1>3. CASE r.pipes[k] \in ready
  BY <1>3 DEF Even
<1>4. CASE r.pipes[k] \notin ready
  <2>1. w[r.pipes[k]] = 0
    BY <1>1, <1>4
  <2> QED
    BY <1>2, <2>1
<1> QED
  BY <1>3, <1>4

LEMMA ServingNobody ==
  ASSUME Sound, Sound', Turning, UNCHANGED <<traffic, waits>>, Ended' = Ended, Fading,
         "in" \in traffic => Idle(fq, HasMessage, {"closed"}),
         "out" \in traffic => Idle(lb, HasRoom, {"closed", "waiting_for_delimiter"})
  PROVE  Turning'
<1>1. Turns' = Turns
  BY DEF Turns
<1>2. (\A p \in Pipes : waits[p] <= Turns)'
  BY <1>1 DEF Turning
<1>6. /\ fq' \in Kinds /\ Arranged(fq') /\ lb' \in Kinds /\ Arranged(lb')
      /\ waits \in [Pipes -> Nat] /\ Turns \in Nat /\ N - 1 <= Turns
  BY Limit DEF Sound, Base, Incoming, Outgoing, Kinds, Arranged
<1>7. \A p \in Pipes : waits[p] \in Nat
  BY <1>6
<1>3. ASSUME "in" \in traffic PROVE Waiting(fq, HasMessage, {"closed"})'
  <2>2. \A p \in Pipes : waits'[p] > 0 => p \in HasMessage' \/ st'[p] \in {"closed"}
    BY <1>3 DEF Idle, Turning, Waiting
  <2>3. \A p \in Pipes : p \in HasMessage' /\ p \notin HasMessage => waits[p] = 0
    <3> TAKE p \in Pipes
    <3> HAVE p \in HasMessage' /\ p \notin HasMessage
    <3>1. st[p] # "closed"
      BY DEF Fading, HasMessage, Readable
    <3> QED
      BY <1>3, <1>7, <3>1 DEF Turning, Waiting
  <2>1. Even(fq', waits, Turns, HasMessage')
    <3>1. Even(fq', waits, Turns, HasMessage)
      BY <1>3 DEF Idle
    <3> HIDE DEF HasMessage
    <3> QED
      BY <1>6, <2>3, <3>1, EvenLater
  <2> QED
    BY <1>1, <2>1, <2>2 DEF Waiting, Even, Rank
<1>4. ASSUME "out" \in traffic PROVE Waiting(lb, HasRoom, {"closed", "waiting_for_delimiter"})'
  <2>2. \A p \in Pipes : waits'[p] > 0 => p \in HasRoom' \/ st'[p] \in {"closed", "waiting_for_delimiter"}
    BY <1>4 DEF Idle, Turning, Waiting
  <2>3. \A p \in Pipes : p \in HasRoom' /\ p \notin HasRoom => waits[p] = 0
    <3> TAKE p \in Pipes
    <3> HAVE p \in HasRoom' /\ p \notin HasRoom
    <3>1. st[p] \notin {"closed", "waiting_for_delimiter"}
      BY DEF Fading, HasRoom
    <3> QED
      BY <1>4, <1>7, <3>1 DEF Turning, Waiting
  <2>1. Even(lb', waits, Turns, HasRoom')
    <3>1. Even(lb', waits, Turns, HasRoom)
      BY <1>4 DEF Idle
    <3> HIDE DEF HasRoom
    <3> QED
      BY <1>6, <2>3, <3>1, EvenLater
  <2> QED
    BY <1>1, <2>1, <2>2 DEF Waiting, Even, Rank
<1>5. traffic' = {} => (\A p \in Pipes : waits[p] = 0)'
  BY DEF Turning
<1> QED
  BY <1>2, <1>3, <1>4, <1>5 DEF Turning

LEMMA Facts ==
  ASSUME Sound
  PROVE  /\ fq \in Kinds /\ Arranged(fq) /\ lb \in Kinds /\ Arranged(lb)
         /\ waits \in [Pipes -> Nat] /\ Turns \in Nat /\ N - 1 <= Turns
BY Limit DEF Sound, Incoming, Outgoing, Base, Kinds

LEMMA NowEven ==
  ASSUME Turning
  PROVE  /\ "in" \in traffic => Even(fq, waits, Turns, HasMessage)
         /\ "out" \in traffic => Even(lb, waits, Turns, HasRoom)
BY DEF Turning, Waiting, Even

LEMMA EvenAlike ==
  ASSUME NEW q, NEW r, r.pipes = q.pipes, r.active = q.active, r.current = q.current, NEW w, NEW most, NEW ready,
         Even(q, w, most, ready)
  PROVE  Even(r, w, most, ready)
BY DEF Even, Rank

(* The steps that serve nobody and end no pipe. *)
LEMMA TurnsOfCommands ==
  ASSUME Sound, Sound', Turning, NEW p \in Pipes,
         \/ PeerWrite(p) \/ PeerRead(p) \/ PeerTerminate(p)
         \/ xattach_pipe(p) \/ xread_activated(p) \/ xwrite_activated(p)
         \/ process_pipe_term(p) \/ terminate(p)
  PROVE  Turning'
<1>1. /\ fq \in Kinds /\ Arranged(fq) /\ lb \in Kinds /\ Arranged(lb)
      /\ waits \in [Pipes -> Nat] /\ Turns \in Nat /\ N - 1 <= Turns
      /\ st \in [Pipes -> State]
      /\ inq \in [Pipes -> Seq({"more", "last", "delimiter"})]
  BY Facts DEF Sound, Base
<1>2. fq' \in Kinds /\ Arranged(fq') /\ lb' \in Kinds /\ Arranged(lb')
  BY DEF Sound, Incoming, Outgoing, Kinds, Arranged
<1>3. /\ "in" \in traffic => Even(fq, waits, Turns, HasMessage)
      /\ "out" \in traffic => Even(lb, waits, Turns, HasRoom)
  BY NowEven
<1>4. CASE PeerWrite(p) \/ PeerTerminate(p)
  <2>1. \A x \in HasMessage : x \in HasMessage'
    <3> TAKE x \in HasMessage
    <3>1. x \in Pipes /\ x \in Readable' /\ in_active'[x] /\ inq[x] # <<>> /\ Head(inq[x]) # "delimiter"
      BY <1>4 DEF PeerWrite, PeerTerminate, HasMessage, Readable
    <3>2. inq'[x] = inq[x] \/ inq'[x] = Append(inq[x], "delimiter")
      BY <1>1, <1>4, <3>1 DEF PeerWrite, PeerTerminate
    <3>3. inq'[x] # <<>> /\ Head(inq'[x]) = Head(inq[x])
      <4>1. PICK s : s = inq[x]
        OBVIOUS
      <4>2. s \in Seq({"more", "last", "delimiter"}) /\ s # <<>>
        BY <1>1, <3>1, <4>1
      <4>3. Append(s, "delimiter") # <<>> /\ Head(Append(s, "delimiter")) = Head(s)
        BY <4>2
      <4> QED
        BY <3>2, <4>1, <4>2, <4>3
    <3> QED
      BY <3>1, <3>3 DEF HasMessage
  <2>2. UNCHANGED <<traffic, waits, st, fq, lb, out_active, used>>
    BY <1>4 DEF PeerWrite, PeerTerminate, inVars, outVars
  <2>3. HasRoom' = HasRoom /\ Ended' = Ended /\ Fading
    BY <2>2 DEF HasRoom, Full, Ended, Fading
  <2>4. "in" \in traffic => Idle(fq, HasMessage, {"closed"})
    BY <1>3, <2>1, <2>2 DEF Idle
  <2>5. "out" \in traffic => Idle(lb, HasRoom, {"closed", "waiting_for_delimiter"})
    BY <1>3, <2>2, <2>3 DEF Idle
  <2> QED
    BY <2>2, <2>3, <2>4, <2>5, ServingNobody
<1>5. CASE PeerRead(p)
  <2>1. UNCHANGED <<traffic, waits, st, inq, in_active, fq, lb, out_active, used>>
    BY <1>5 DEF PeerRead, inVars, outVars
  <2>2. HasRoom' = HasRoom /\ Ended' = Ended /\ HasMessage' = HasMessage /\ Fading
    BY <2>1 DEF HasRoom, Full, Ended, HasMessage, Readable, Fading
  <2>3. "in" \in traffic => Idle(fq, HasMessage, {"closed"})
    BY <1>3, <2>1, <2>2 DEF Idle
  <2>4. "out" \in traffic => Idle(lb, HasRoom, {"closed", "waiting_for_delimiter"})
    BY <1>3, <2>1, <2>2 DEF Idle
  <2> QED
    BY <2>1, <2>2, <2>3, <2>4, ServingNobody
<1>6. CASE xattach_pipe(p)
  <2>1. /\ UNCHANGED <<traffic, waits, inq, in_active, out_active, used>> /\ st[p] = "new"
        /\ st' = [st EXCEPT ![p] = "active"] /\ fq' = Attach(fq, p) /\ lb' = Attach(lb, p)
    BY <1>6 DEF xattach_pipe
  <2>2. \A x \in Pipes : st'[x] = IF x = p THEN "active" ELSE st[x]
    BY <1>1, <2>1
  <2>3. /\ Ended' = Ended /\ (\A x \in HasMessage : x \in HasMessage') /\ (\A x \in HasRoom : x \in HasRoom')
        /\ Fading /\ p \notin HasMessage /\ p \notin HasRoom
    BY <2>1, <2>2 DEF Ended, HasMessage, HasRoom, Full, Readable, Fading
  <2>4. p \notin Attached(fq) /\ p \notin Attached(lb)
    BY <2>1 DEF Sound, Incoming, Outgoing, Held
  <2>7. fq.active \in Nat /\ lb.active \in Nat
    BY <1>1, Fields
  <2>5. "in" \in traffic => Idle(fq, HasMessage, {"closed"})
    <3>1. SUFFICES ASSUME "in" \in traffic PROVE Idle(fq, HasMessage, {"closed"})
      OBVIOUS
    <3>3. /\ fq'.active = fq.active + 1 /\ fq'.current = fq.current
          /\ \A k \in 1 .. fq.active : fq'.pipes[k] = fq.pipes[k]
          /\ fq'.pipes[fq.active + 1] = p
      BY <1>1, <2>1, <2>4, Attaching
    <3>2. \A k \in 1 .. fq'.active : fq'.pipes[k] \in HasMessage => k \in 1 .. fq.active /\ fq'.pipes[k] = fq.pipes[k]
      BY <2>3, <2>7, <3>3
    <3>4. Even(fq', waits, Turns, HasMessage)
      <4> HIDE DEF HasMessage
      <4> QED
        BY <1>3, <3>1, <3>2, <3>3, EvenMore
    <3> QED
      BY <2>1, <2>2, <2>3, <3>4 DEF Idle
  <2>6. "out" \in traffic => Idle(lb, HasRoom, {"closed", "waiting_for_delimiter"})
    <3>1. SUFFICES ASSUME "out" \in traffic PROVE Idle(lb, HasRoom, {"closed", "waiting_for_delimiter"})
      OBVIOUS
    <3>3. /\ lb'.active = lb.active + 1 /\ lb'.current = lb.current
          /\ \A k \in 1 .. lb.active : lb'.pipes[k] = lb.pipes[k]
          /\ lb'.pipes[lb.active + 1] = p
      BY <1>1, <2>1, <2>4, Attaching
    <3>2. \A k \in 1 .. lb'.active : lb'.pipes[k] \in HasRoom => k \in 1 .. lb.active /\ lb'.pipes[k] = lb.pipes[k]
      BY <2>3, <2>7, <3>3
    <3>4. Even(lb', waits, Turns, HasRoom)
      <4> HIDE DEF HasRoom
      <4> QED
        BY <1>3, <3>1, <3>2, <3>3, EvenMore
    <3> QED
      BY <2>1, <2>2, <2>3, <3>4 DEF Idle
  <2> QED
    BY <2>1, <2>3, <2>5, <2>6, ServingNobody
<1>7. CASE xread_activated(p)
  <2>1. /\ UNCHANGED <<traffic, waits, st, inq, out_active, used, lb>>
        /\ p \in Readable /\ ~in_active[p]
        /\ in_active' = [in_active EXCEPT ![p] = TRUE] /\ fq' = Activated(fq, p)
        /\ in_active \in [Pipes -> BOOLEAN]
    BY <1>7 DEF xread_activated, Sound, Base, outVars
  <2>2. /\ Ended' = Ended /\ (\A x \in HasMessage : x \in HasMessage') /\ HasRoom' = HasRoom
        /\ Fading /\ p \notin HasMessage
    BY <2>1 DEF Ended, HasMessage, HasRoom, Full, Readable, Fading
  <2>3. p \in Attached(fq) /\ p \notin ActivePart(fq)
    BY <2>1 DEF Sound, Incoming, Held, Readable
  <2>4. "in" \in traffic => Idle(fq, HasMessage, {"closed"})
    <3>1. SUFFICES ASSUME "in" \in traffic PROVE Idle(fq, HasMessage, {"closed"})
      OBVIOUS
    <3>3. /\ fq'.active = fq.active + 1 /\ fq'.current = fq.current
          /\ \A k \in 1 .. fq.active : fq'.pipes[k] = fq.pipes[k]
          /\ fq'.pipes[fq.active + 1] = p
      <4>1. fq \in Kinds /\ Arranged(fq) /\ p \in Attached(fq) /\ p \notin ActivePart(fq)
        BY <1>1, <2>3
      <4>2. PICK r : r = Activated(fq, p)
        OBVIOUS
      <4>3. /\ r.active = fq.active + 1 /\ r.current = fq.current
            /\ \A k \in 1 .. fq.active : r.pipes[k] = fq.pipes[k]
            /\ r.pipes[fq.active + 1] = p
        BY ZenonT(30), <4>1, <4>2, Activating
      <4>4. fq' = r
        BY <2>1, <4>2
      <4> QED
        BY <4>3, <4>4
    <3>2. \A k \in 1 .. fq'.active : fq'.pipes[k] \in HasMessage => k \in 1 .. fq.active /\ fq'.pipes[k] = fq.pipes[k]
      <4>1. fq.active \in Nat
        BY <1>1, Fields
      <4> QED
        BY <2>2, <3>3, <4>1
    <3>4. Even(fq', waits, Turns, HasMessage)
      <4> HIDE DEF HasMessage
      <4> QED
        BY <1>3, <3>1, <3>2, <3>3, EvenMore
    <3> QED
      BY <2>1, <2>2, <3>4 DEF Idle
  <2>5. "out" \in traffic => Idle(lb, HasRoom, {"closed", "waiting_for_delimiter"})
    BY <1>3, <2>1, <2>2 DEF Idle
  <2> QED
    BY <2>1, <2>2, <2>4, <2>5, ServingNobody
<1>8. CASE xwrite_activated(p)
  <2>1. UNCHANGED <<traffic, waits, st, inq, in_active, fq>>
    BY <1>8 DEF xwrite_activated, inVars
  <2>2. Ended' = Ended /\ HasMessage' = HasMessage /\ Fading
    BY <2>1 DEF Ended, HasMessage, Readable, Fading
  <2>3. \A x \in HasRoom : x \in HasRoom'
    <3>1. \A x \in Pipes : used'[x] <= used[x] /\ used'[x] \in Nat /\ used[x] \in Nat
      BY <1>8, WriteActivated
    <3>2. \A x \in Pipes : out_active[x] => out_active'[x]
      BY <1>8 DEF xwrite_activated, Sound, Base
    <3> QED
      BY <2>1, <3>1, <3>2, Assumed DEF HasRoom, Full
  <2>4. "in" \in traffic => Idle(fq, HasMessage, {"closed"})
    BY <1>3, <2>1, <2>2 DEF Idle
  <2>5. "out" \in traffic => Idle(lb, HasRoom, {"closed", "waiting_for_delimiter"})
    <3>1. SUFFICES ASSUME "out" \in traffic PROVE Idle(lb, HasRoom, {"closed", "waiting_for_delimiter"})
      OBVIOUS
    <3>2. CASE lb' = lb
      BY <1>3, <2>1, <2>3, <3>1, <3>2 DEF Idle
    <3>3. CASE lb' # lb
      <4>1. st[p] = "active" /\ ~out_active[p] /\ lb' = Activated(lb, p) /\ lb.active < Len(lb.pipes)
        BY <1>8, <3>3 DEF xwrite_activated
      <4>2. HasRoom \subseteq ActivePart(lb) /\ p \notin HasRoom
        BY <4>1 DEF Sound, Outgoing, Flagged, HasRoom
      <4>4. /\ lb'.active = lb.active + 1 /\ lb'.current = lb.current
            /\ \A k \in 1 .. lb.active : lb'.pipes[k] = lb.pipes[k] \/ lb'.pipes[k] \in Pipes \ ActivePart(lb)
            /\ lb'.pipes[lb.active + 1] = p
        <5>1. PICK r : r = Activated(lb, p)
          OBVIOUS
        <5>2. /\ r.active = lb.active + 1 /\ r.current = lb.current /\ p \in ActivePart(r)
              /\ \A k \in 1 .. lb.active : lb.pipes[k] = r.pipes[k] \/ r.pipes[k] \in Pipes \ ActivePart(lb)
              /\ \A k \in 1 .. lb.active : r.pipes[k] # p
          BY ZenonT(30), <4>1, <5>1, MakingRoom
        <5>3. lb.active \in Nat
          BY <1>1, Fields
        <5>4. r.pipes[lb.active + 1] = p
          BY <5>2, <5>3 DEF ActivePart, First
        <5>5. lb' = r
          BY <4>1, <5>1
        <5> QED
          BY <5>2, <5>4, <5>5
      <4>3. \A k \in 1 .. lb'.active : lb'.pipes[k] \in HasRoom => k \in 1 .. lb.active /\ lb'.pipes[k] = lb.pipes[k]
        <5>1. lb.active \in Nat
          BY <1>1, Fields
        <5> QED
          BY <4>2, <4>4, <5>1
      <4>5. Even(lb', waits, Turns, HasRoom)
        <5> HIDE DEF HasRoom
        <5> QED
          BY <1>3, <3>1, <4>3, <4>4, EvenMore
      <4> QED
        BY <2>1, <2>3, <4>5 DEF Idle
    <3> QED
      BY <3>2, <3>3
  <2> QED
    BY <2>1, <2>2, <2>4, <2>5, ServingNobody
<1>9. CASE process_pipe_term(p)
  <2>1. UNCHANGED <<traffic, waits, inq, in_active, fq, lb, out_active, used>>
        /\ st[p] = "active" /\ st' = [st EXCEPT ![p] = "waiting_for_delimiter"]
    BY <1>9 DEF process_pipe_term, inVars, outVars
  <2>2. \A x \in Pipes : st'[x] = IF x = p THEN "waiting_for_delimiter" ELSE st[x]
    BY <1>1, <2>1
  <2>3. /\ Ended' = Ended /\ (\A x \in HasMessage : x \in HasMessage')
        /\ (\A x \in HasRoom : x # p => x \in HasRoom') /\ Fading
    BY <2>1, <2>2 DEF Ended, HasMessage, HasRoom, Full, Readable, Fading
  <2>4. "in" \in traffic => Idle(fq, HasMessage, {"closed"})
    BY <1>3, <2>1, <2>2, <2>3 DEF Idle
  <2>5. "out" \in traffic => Idle(lb, HasRoom, {"closed", "waiting_for_delimiter"})
    BY <1>3, <2>1, <2>2, <2>3 DEF Idle
  <2> QED
    BY <2>1, <2>3, <2>4, <2>5, ServingNobody
<1>10. CASE terminate(p)
  <2>1. UNCHANGED <<traffic, waits, in_active, fq, lb, used>>
        /\ p \in Readable /\ st' = [st EXCEPT ![p] = "closed"]
        /\ out_active' = [out_active EXCEPT ![p] = FALSE] /\ inq' = [inq EXCEPT ![p] = <<>>]
        /\ out_active \in [Pipes -> BOOLEAN]
    BY <1>10 DEF terminate, Sound, Base, outVars
  <2>2. \A x \in Pipes : st'[x] = IF x = p THEN "closed" ELSE st[x]
    BY <1>1, <2>1
  <2>3. /\ Ended' = Ended /\ Fading
        /\ \A x \in HasMessage : x # p => x \in HasMessage'
        /\ \A x \in HasRoom : x # p => x \in HasRoom'
    <3>1. Ended' = Ended /\ Fading
      BY <2>1, <2>2 DEF Ended, Readable, Fading
    <3>2. \A x \in HasMessage : x # p => x \in HasMessage'
      BY <1>1, <2>1, <2>2 DEF HasMessage, Readable
    <3>3. \A x \in HasRoom : x # p => x \in HasRoom'
      BY <2>1, <2>2 DEF HasRoom, Full
    <3> QED
      BY <3>1, <3>2, <3>3
  <2>4. "in" \in traffic => Idle(fq, HasMessage, {"closed"})
    BY <1>3, <2>1, <2>2, <2>3 DEF Idle
  <2>5. "out" \in traffic => Idle(lb, HasRoom, {"closed", "waiting_for_delimiter"})
    BY <1>3, <2>1, <2>2, <2>3 DEF Idle
  <2> QED
    BY <2>1, <2>3, <2>4, <2>5, ServingNobody
<1> QED
  BY <1>4, <1>5, <1>6, <1>7, <1>8, <1>9, <1>10

LEMMA TurnsOfEnding ==
  ASSUME Sound, Sound', Turning, NEW p \in Pipes, xpipe_terminated(p)
  PROVE  Turning'
<1>1. /\ fq \in Kinds /\ Arranged(fq) /\ lb \in Kinds /\ Arranged(lb)
      /\ waits \in [Pipes -> Nat] /\ Turns \in Nat /\ N - 1 <= Turns
  BY Facts
<1>2. fq' \in Kinds /\ Arranged(fq') /\ lb' \in Kinds /\ Arranged(lb') /\ waits' \in [Pipes -> Nat]
  BY DEF Sound, Base, Incoming, Outgoing, Kinds, Arranged
<1>3. /\ "in" \in traffic => Even(fq, waits, Turns, HasMessage)
      /\ "out" \in traffic => Even(lb, waits, Turns, HasRoom)
  BY NowEven
<1>4. /\ st[p] = "closed" /\ st' = [st EXCEPT ![p] = "gone"] /\ waits' = [waits EXCEPT ![p] = 0]
      /\ traffic' = traffic
      /\ fq' = Terminated(fq, p) /\ lb' = [Terminated(lb, p) EXCEPT !.dropping = @ \/ CutShort(p)]
      /\ st \in [Pipes -> State]
  BY DEF xpipe_terminated, Sound, Base
<1>5. /\ \A x \in Pipes : st'[x] = IF x = p THEN "gone" ELSE st[x]
      /\ \A x \in Pipes : waits'[x] = IF x = p THEN 0 ELSE waits[x]
  BY <1>1, <1>4
<1>6. Ended' = Ended \cup {p}
  BY <1>4, <1>5 DEF Ended
<1>7. Turns' = Turns + (N - 1) /\ N \in Nat /\ N >= 1
  BY <1>4, <1>6, Farther, Assumed DEF Sound
<1>8. (\A x \in Pipes : waits[x] <= Turns)'
  <2>1. \A x \in Pipes : waits[x] <= Turns /\ waits[x] \in Nat
    BY <1>1 DEF Turning
  <2> QED
    BY <1>1, <1>5, <1>7, <2>1
<1>9. /\ \A x \in Pipes : x # p => /\ x \in HasMessage <=> x \in HasMessage'
                                   /\ x \in HasRoom <=> x \in HasRoom'
      /\ HasMessage' \subseteq HasMessage /\ HasRoom' \subseteq HasRoom
  <2>1. \A x \in Pipes : x # p => /\ inq'[x] = inq[x] /\ in_active'[x] = in_active[x]
                                  /\ out_active'[x] = out_active[x] /\ used'[x] = used[x]
    BY DEF xpipe_terminated, Sound, Base
  <2>2. p \notin HasMessage' /\ p \notin HasRoom'
    BY <1>5 DEF HasMessage, HasRoom, Readable
  <2>3. \A x \in Pipes : x # p => /\ x \in HasMessage <=> x \in HasMessage'
                                  /\ x \in HasRoom <=> x \in HasRoom'
    BY <1>5, <2>1 DEF HasMessage, HasRoom, Readable, Full
  <2>4. HasMessage' \subseteq Pipes /\ HasRoom' \subseteq Pipes
    BY DEF HasMessage, HasRoom, Readable
  <2> QED
    BY <2>2, <2>3, <2>4
<1>10. p \in Attached(fq) /\ p \in Attached(lb)
  BY <1>4 DEF Sound, Incoming, Outgoing, Held
<1>11. ASSUME "in" \in traffic PROVE Waiting(fq, HasMessage, {"closed"})'
  <2>1. ActivePart(fq') = ActivePart(fq) \ {p}
    BY <1>1, <1>4, <1>10, Terminating
  <2>2. Even(fq', waits', Turns + (N - 1), HasMessage')
    <3> HIDE DEF HasMessage
    <3> QED
      BY <1>1, <1>2, <1>3, <1>5, <1>9, <1>11, <2>1, EvenLess
  <2>3. \A x \in Pipes : waits'[x] > 0 => x \in HasMessage' \/ st'[x] \in {"closed"}
    BY <1>5, <1>9, <1>11 DEF Turning, Waiting
  <2> QED
    BY <1>7, <2>2, <2>3 DEF Waiting, Even, Rank
<1>12. ASSUME "out" \in traffic PROVE Waiting(lb, HasRoom, {"closed", "waiting_for_delimiter"})'
  <2>1. PICK r : r = Terminated(lb, p)
    OBVIOUS
  <2>2. r \in Kinds /\ Arranged(r) /\ ActivePart(r) = ActivePart(lb) \ {p} /\ Like(lb, r)
    BY <1>1, <1>10, <2>1, Terminating
  <2>3. r \in Balancer
    BY <2>2 DEF Like, Sound, Outgoing
  <2>4. lb'.pipes = r.pipes /\ lb'.active = r.active /\ lb'.current = r.current
    BY <1>4, <2>1, <2>3 DEF Balancer
  <2>5. Even(r, waits', Turns + (N - 1), HasRoom')
    <3> HIDE DEF HasRoom
    <3> QED
      BY <1>1, <1>2, <1>3, <1>5, <1>9, <1>12, <2>2, EvenLess
  <2>6. Even(lb', waits', Turns + (N - 1), HasRoom')
    BY <2>4, <2>5, EvenAlike
  <2>7. \A x \in Pipes : waits'[x] > 0 => x \in HasRoom' \/ st'[x] \in {"closed", "waiting_for_delimiter"}
    BY <1>5, <1>9, <1>12 DEF Turning, Waiting
  <2> QED
    BY <1>7, <2>6, <2>7 DEF Waiting, Even, Rank
<1>13. traffic' = {} => (\A x \in Pipes : waits[x] = 0)'
  BY <1>4, <1>5 DEF Turning
<1> QED
  BY <1>4, <1>8, <1>11, <1>12, <1>13 DEF Turning

(* A message is served: the ready ones that were passed over wait longer. *)
LEMMA TurnsOfServing ==
  ASSUME NEW q \in Kinds, Arranged(q), q.active > 0, NEW r \in Kinds, Arranged(r),
         r.pipes = q.pipes, r.active = q.active,
         \A k \in 1 .. q.active : k # q.current + 1 => Rank(r, k - 1) <= Rank(q, k - 1) - 1,
         NEW w \in [Pipes -> Nat], NEW most \in Nat, N - 1 <= most,
         NEW ready, \A x \in ready : x \in ActivePart(q), Even(q, w, most, ready), NEW later,
         NEW v, v = [x \in Pipes |-> IF x \in ready \ {At(q)} THEN w[x] + 1 ELSE 0]
  PROVE  Even(r, v, most, later) /\ (\A x \in Pipes : v[x] <= most)
         /\ \A x \in Pipes : v[x] > 0 => x \in ready /\ x # At(q)
<1>1. Even(r, v, most, later) /\ Even(r, v, most, ready)
  BY EvenTurned
<1>2. \A x \in Pipes : v[x] > 0 => x \in ready /\ x # At(q)
  OBVIOUS
<1>3. ASSUME NEW x \in Pipes PROVE v[x] <= most
  <2>1. CASE x \in ready
    <3>1. PICK k \in 1 .. q.active : q.pipes[k] = x
      BY <2>1 DEF ActivePart, First
    <3>2. Rank(r, k - 1) \in 0 .. N - 1 /\ N \in Nat
      BY Ranked, Assumed
    <3>3. v[x] + Rank(r, k - 1) <= most
      BY <1>1, <2>1, <3>1 DEF Even
    <3>4. v[x] \in Nat
      BY <1>3
    <3> QED
      BY <3>2, <3>3, <3>4
  <2>2. CASE x \notin ready
    BY <1>3, <2>2
  <2> QED
    BY <2>1, <2>2
<1> QED
  BY <1>1, <1>2, <1>3

LEMMA TurnsOfReceiving ==
  ASSUME Sound, Sound', Turning, OneWay, Runs, RecvTakes \/ xhas_in, "in" \in traffic
  PROVE  Turning'
<1>1. /\ fq \in Kinds /\ Arranged(fq) /\ lb \in Kinds /\ Arranged(lb)
      /\ waits \in [Pipes -> Nat] /\ Turns \in Nat /\ N - 1 <= Turns
  BY Facts
<1>2. fq' \in Kinds /\ Arranged(fq') /\ waits' \in [Pipes -> Nat]
  BY DEF Sound, Base, Incoming, Kinds, Arranged
<1>3. "in" \in traffic /\ "out" \notin traffic /\ traffic' = traffic /\ traffic # {}
  BY Assumed DEF OneWay, RecvTakes, xhas_in, Sound, Base
<1>4. Even(fq, waits, Turns, HasMessage)
  BY <1>3, NowEven
<1>5. PICK q : q = Settle(fq, HasMessage)
  OBVIOUS
<1>6. ReadFailed(ActivePart(fq) \ ActivePart(q))
  <2>1. CASE RecvTakes
    BY <1>5, <2>1 DEF RecvTakes
  <2>2. CASE xhas_in
    <3>1. q = fq'
      BY <1>5, <2>2 DEF xhas_in
    <3> QED
      BY <2>2, <3>1 DEF xhas_in, ReadFailed
  <2> QED
    BY <2>1, <2>2
<1>7. /\ Onward /\ q \in Array /\ Arranged(q) /\ Sooner(fq, q)
      /\ q.active = 0 \/ At(q) \in HasMessage
      /\ \A x \in HasMessage : st'[x] = st[x] /\ in_active'[x] /\ x \in ActivePart(q)
  BY <1>5, <1>6, Asking
<1>8. q \in Kinds
  BY <1>7 DEF Kinds
<1>9. Even(q, waits, Turns, HasMessage)
  BY <1>1, <1>4, <1>7, <1>8, EvenSooner
<1>10. Ended' = Ended
  <2>1. Base
    BY DEF Sound
  <2> QED
    BY <1>7, <2>1 DEF Onward, Ended, Readable, Base
<1>11. Fading
  BY <1>7 DEF Onward, Readable, Fading
<1>12. CASE waits' = waits /\ Even(fq', waits, Turns, HasMessage) /\ \A x \in HasMessage : x \in HasMessage'
  <2>1. Idle(fq, HasMessage, {"closed"})
    BY <1>11, <1>12 DEF Idle, Fading
  <2> QED
    BY <1>3, <1>10, <1>11, <1>12, <2>1, ServingNobody
<1>13. CASE xhas_in
  <2>1. fq' = q /\ waits' = waits /\ inq' = inq
    BY <1>5, <1>13 DEF xhas_in
  <2>2. \A x \in HasMessage : x \in HasMessage'
    BY <1>7, <2>1 DEF HasMessage, Readable
  <2> QED
    BY <1>9, <1>12, <2>1, <2>2
<1>14. CASE RecvTakes /\ q.active = 0
  <2>1. fq' = q /\ waits' = waits /\ inq' = inq
    BY <1>5, <1>14 DEF RecvTakes
  <2>2. \A x \in HasMessage : x \in HasMessage'
    BY <1>7, <2>1 DEF HasMessage, Readable
  <2> QED
    BY <1>9, <1>12, <2>1, <2>2
<1>15. CASE RecvTakes /\ q.active # 0
  <2>1. PICK p : p = At(q)
    OBVIOUS
  <2>2. PICK more : more = (Head(inq[p]) = "more")
    OBVIOUS
  <2>3. /\ inq' = [inq EXCEPT ![p] = Tail(@)]
        /\ fq' = [q EXCEPT !.more = more, !.current = Turned(q, more)]
        /\ waits' = IF more THEN waits ELSE Counted(p, HasMessage)
        /\ inq \in [Pipes -> Seq({"more", "last", "delimiter"})]
        /\ from' = IF more THEN p ELSE None
    BY <1>5, <1>15, <2>1, <2>2 DEF RecvTakes, Sound, Base
  <2>4. more \in BOOLEAN /\ q.active > 0
    BY <1>8, <1>15, <2>2, Fields
  <2>5. /\ fq'.pipes = q.pipes /\ fq'.active = q.active /\ fq'.more = more
        /\ more => fq'.current = q.current
        /\ ~more => \A k \in 1 .. q.active : k # q.current + 1 => Rank(fq', k - 1) <= Rank(q, k - 1) - 1
    BY ZenonT(60), <1>7, <1>8, <2>3, <2>4, TakingTurns
  <2>6. \A x \in HasMessage : x # p => x \in HasMessage'
    <3> TAKE x \in HasMessage
    <3> HAVE x # p
    <3>1. inq'[x] = inq[x]
      BY <2>3 DEF HasMessage, Readable
    <3> QED
      BY <1>7, <3>1 DEF HasMessage, Readable
  <2>7. CASE more
    <3>1. Even(fq', waits, Turns, HasMessage)
      BY <1>9, <2>5, <2>7, EvenAlike
    <3>2. fq'.more /\ from' = p
      BY <2>3, <2>5, <2>7
    <3>3. p \in HasMessage'
      <4>1. RestIsThere'
        BY <1>5, <1>15, Taking
      <4> QED
        BY <3>2, <4>1 DEF RestIsThere
    <3>4. waits' = waits
      BY <2>3, <2>7
    <3> QED
      BY <1>12, <2>6, <3>1, <3>3, <3>4
  <2>8. CASE ~more
    <3>1. waits' = [x \in Pipes |-> IF x \in HasMessage \ {At(q)} THEN waits[x] + 1 ELSE 0]
      BY <2>1, <2>3, <2>8 DEF Counted
    <3>2. /\ Even(fq', waits', Turns, HasMessage')
          /\ \A x \in Pipes : waits'[x] <= Turns
          /\ \A x \in Pipes : waits'[x] > 0 => x \in HasMessage /\ x # At(q)
      <4>1. \A k \in 1 .. q.active : k # q.current + 1 => Rank(fq', k - 1) <= Rank(q, k - 1) - 1
        BY <2>5, <2>8
      <4>2. \A x \in HasMessage : x \in ActivePart(q)
        BY <1>7
      <4> HIDE DEF HasMessage
      <4> QED
        BY <1>1, <1>2, <1>7, <1>8, <1>9, <2>4, <2>5, <3>1, <4>1, <4>2, TurnsOfServing
    <3>3. Turns' = Turns
      BY <1>10 DEF Turns
    <3>4. \A x \in Pipes : waits'[x] > 0 => x \in HasMessage'
      BY <2>1, <2>6, <3>2
    <3>5. Waiting(fq, HasMessage, {"closed"})'
      BY <3>2, <3>3, <3>4 DEF Waiting, Even, Rank
    <3>6. (\A x \in Pipes : waits[x] <= Turns)'
      BY <3>2, <3>3
    <3> QED
      BY <1>3, <3>5, <3>6 DEF Turning
  <2> QED
    BY <2>7, <2>8
<1> QED
  BY <1>13, <1>14, <1>15

LEMMA TurnsOfSending ==
  ASSUME Sound, Sound', Turning, OneWay, sendpipe \/ xhas_out
  PROVE  Turning'
<1>1. /\ lb \in Kinds /\ Arranged(lb) /\ lb \in Balancer
      /\ waits \in [Pipes -> Nat] /\ Turns \in Nat /\ N - 1 <= Turns
  BY Facts DEF Sound, Outgoing
<1>2. lb' \in Kinds /\ Arranged(lb') /\ waits' \in [Pipes -> Nat]
  BY DEF Sound, Base, Outgoing, Kinds, Arranged
<1>3. "out" \in traffic /\ "in" \notin traffic /\ traffic # {}
  <2>1. "out" \in traffic
    BY DEF sendpipe, xhas_out
  <2>2. traffic \in SUBSET {"in", "out"}
    BY Assumed DEF Sound, Base
  <2> QED
    BY <2>1, <2>2 DEF OneWay
<1>4. Even(lb, waits, Turns, HasRoom)
  BY <1>3, NowEven
<1>5. ASSUME UNCHANGED <<traffic, st, waits>>, Even(lb', waits, Turns, HasRoom), \A x \in HasRoom : x \in HasRoom'
      PROVE  Turning'
  <2>1. Idle(lb, HasRoom, {"closed", "waiting_for_delimiter"}) /\ Ended' = Ended /\ Fading
    BY <1>5 DEF Idle, Ended, Fading
  <2> QED
    BY <1>3, <1>5, <2>1, ServingNobody
<1>11. Runs
  BY DEF sendpipe, xhas_out
<1>6. CASE SendRolledBack
  <2>2. UNCHANGED <<traffic, st, waits, used>> /\ lb' = [lb EXCEPT !.more = FALSE]
    BY <1>6 DEF SendRolledBack
  <2>3. lb'.pipes = lb.pipes /\ lb'.active = lb.active /\ lb'.current = lb.current
    BY <1>1, <2>2 DEF Balancer
  <2>4. Even(lb', waits, Turns, HasRoom)
    BY <1>4, <2>3, EvenAlike
  <2>5. HasRoom' = HasRoom
    BY <1>6, <1>11, RollingBack
  <2> QED
    BY <1>5, <2>2, <2>4, <2>5
<1>7. ASSUME NEW more \in BOOLEAN, SendDropped(more)
      PROVE  Turning'
  <2>1. UNCHANGED <<traffic, st, waits, used, out_active>> /\ lb' = [lb EXCEPT !.more = more, !.dropping = more]
    BY <1>7 DEF SendDropped, pipeVars, inVars, outVars
  <2>2. lb'.pipes = lb.pipes /\ lb'.active = lb.active /\ lb'.current = lb.current
    BY <1>1, <2>1 DEF Balancer
  <2>3. Even(lb', waits, Turns, HasRoom)
    BY <1>4, <2>2, EvenAlike
  <2>4. HasRoom' = HasRoom
    BY <2>1 DEF HasRoom, Full
  <2> QED
    BY <1>5, <2>1, <2>3, <2>4
<1>8. ASSUME NEW q, q = Settle(lb, HasRoom), WriteFailed(ActivePart(lb) \ ActivePart(q))
      PROVE  /\ q \in Balancer /\ q \in Kinds /\ Arranged(q) /\ Even(q, waits, Turns, HasRoom)
             /\ q.active = 0 \/ At(q) \in HasRoom
             /\ \A x \in HasRoom : out_active'[x] /\ x \in ActivePart(q)
  <2>1. /\ q \in Balancer /\ Arranged(q) /\ Sooner(lb, q)
        /\ q.active = 0 \/ At(q) \in HasRoom
        /\ \A x \in HasRoom : out_active'[x] /\ x \in ActivePart(q)
    BY <1>8, AskingRoom
  <2>2. q \in Kinds
    BY <2>1 DEF Kinds
  <2>3. Even(q, waits, Turns, HasRoom)
    BY <1>1, <1>4, <2>1, <2>2, EvenSooner
  <2> QED
    BY <2>1, <2>2, <2>3
<1>9. CASE xhas_out
  <2>1. PICK q : q = lb'
    OBVIOUS
  <2>2. UNCHANGED <<traffic, st, waits, used>> /\ q = Settle(lb, HasRoom)
    BY <1>9, <2>1 DEF xhas_out
  <2>3. WriteFailed(ActivePart(lb) \ ActivePart(q))
    BY <1>9, <2>1 DEF xhas_out, WriteFailed
  <2>4. Even(lb', waits, Turns, HasRoom) /\ \A x \in HasRoom : out_active'[x]
    BY <1>8, <2>1, <2>2, <2>3
  <2>5. \A x \in HasRoom : x \in HasRoom'
    BY <2>2, <2>4 DEF HasRoom, Full
  <2> QED
    BY <1>5, <2>2, <2>4, <2>5
<1>10. ASSUME NEW more \in BOOLEAN, SendWritten(more)
       PROVE  Turning'
  <2>1. PICK q : q = Settle(lb, HasRoom)
    OBVIOUS
  <2>2. PICK p : p = At(q)
    OBVIOUS
  <2>3. /\ WriteFailed(ActivePart(lb) \ ActivePart(q))
        /\ q.active = 0 => lb' = q /\ UNCHANGED <<used, waits>>
        /\ q.active # 0 => /\ used' = [used EXCEPT ![p] = IF more THEN @ ELSE @ + 1]
                           /\ lb' = [q EXCEPT !.more = more, !.current = Turned(q, more)]
                           /\ waits' = IF more THEN waits ELSE Counted(p, HasRoom)
        /\ UNCHANGED <<traffic, st>>
    BY <1>10, <2>1, <2>2 DEF SendWritten
  <2>4. /\ q \in Balancer /\ q \in Kinds /\ Arranged(q) /\ Even(q, waits, Turns, HasRoom)
        /\ q.active = 0 \/ At(q) \in HasRoom
        /\ \A x \in HasRoom : out_active'[x] /\ x \in ActivePart(q)
    BY <1>8, <2>1, <2>3
  <2>5. used \in [Pipes -> 0 .. Hwm]
    BY DEF Sound, Base
  <2>6. CASE q.active = 0
    <3>1. lb' = q /\ UNCHANGED <<used, waits>>
      BY <2>3, <2>6
    <3>2. \A x \in HasRoom : x \in HasRoom'
      BY <2>3, <2>4, <3>1 DEF HasRoom, Full
    <3> QED
      BY <1>5, <2>3, <2>4, <3>1, <3>2
  <2>7. CASE q.active # 0
    <3>1. /\ used' = [used EXCEPT ![p] = IF more THEN @ ELSE @ + 1]
          /\ lb' = [q EXCEPT !.more = more, !.current = Turned(q, more)]
          /\ waits' = IF more THEN waits ELSE Counted(p, HasRoom)
      BY <2>3, <2>7
    <3>2. q.active > 0
      BY <2>4, <2>7, Fields
    <3>3. /\ lb'.pipes = q.pipes /\ lb'.active = q.active
          /\ more => lb'.current = q.current
          /\ ~more => \A k \in 1 .. q.active : k # q.current + 1 => Rank(lb', k - 1) <= Rank(q, k - 1) - 1
      BY <2>4, <3>1, <3>2, TakingTurns
    <3>4. \A x \in HasRoom : x # p \/ more => x \in HasRoom'
      <4> TAKE x \in HasRoom
      <4> HAVE x # p \/ more
      <4>1. used'[x] = used[x]
        BY <2>5, <3>1 DEF HasRoom
      <4> QED
        BY <2>3, <2>4, <4>1 DEF HasRoom, Full
    <3>5. CASE more
      <4>1. Even(lb', waits, Turns, HasRoom)
        BY <2>4, <3>3, <3>5, EvenAlike
      <4>2. waits' = waits
        BY <3>1, <3>5
      <4> QED
        BY <1>5, <2>3, <3>4, <3>5, <4>1, <4>2
    <3>6. CASE ~more
      <4>1. waits' = [x \in Pipes |-> IF x \in HasRoom \ {At(q)} THEN waits[x] + 1 ELSE 0]
        BY <2>2, <3>1, <3>6 DEF Counted
      <4>2. /\ Even(lb', waits', Turns, HasRoom')
            /\ \A x \in Pipes : waits'[x] <= Turns
            /\ \A x \in Pipes : waits'[x] > 0 => x \in HasRoom /\ x # At(q)
        <5>1. \A k \in 1 .. q.active : k # q.current + 1 => Rank(lb', k - 1) <= Rank(q, k - 1) - 1
          BY <3>3, <3>6
        <5>2. \A x \in HasRoom : x \in ActivePart(q)
          BY <2>4
        <5> HIDE DEF HasRoom
        <5>3. PICK later : later = HasRoom'
          OBVIOUS
        <5>4. /\ q \in Kinds /\ Arranged(q) /\ q.active > 0 /\ lb' \in Kinds /\ Arranged(lb')
              /\ lb'.pipes = q.pipes /\ lb'.active = q.active
              /\ waits \in [Pipes -> Nat] /\ Turns \in Nat /\ N - 1 <= Turns
              /\ Even(q, waits, Turns, HasRoom)
          BY <1>1, <1>2, <2>4, <3>2, <3>3
        <5>5. /\ Even(lb', waits', Turns, later)
              /\ \A x \in Pipes : waits'[x] <= Turns
              /\ \A x \in Pipes : waits'[x] > 0 => x \in HasRoom /\ x # At(q)
          BY <4>1, <5>1, <5>2, <5>4, TurnsOfServing
        <5> QED
          BY <5>3, <5>5
      <4>3. Turns' = Turns
        BY <2>3 DEF Turns, Ended
      <4>4. \A x \in Pipes : waits'[x] > 0 => x \in HasRoom'
        BY <2>2, <3>4, <4>2
      <4>5. Waiting(lb, HasRoom, {"closed", "waiting_for_delimiter"})'
        BY <4>2, <4>3, <4>4 DEF Waiting, Even, Rank
      <4>6. (\A x \in Pipes : waits[x] <= Turns)'
        BY <4>2, <4>3
      <4> QED
        BY <1>3, <2>3, <4>5, <4>6 DEF Turning
    <3> QED
      BY <3>5, <3>6
  <2> QED
    BY <2>6, <2>7
<1> QED
  BY <1>6, <1>7, <1>9, <1>10 DEF sendpipe

LEMMA TurningStep ==
  ASSUME Sound, Sound', OneWay, Turning, [Next]_vars
  PROVE  Turning'
<1>1. CASE UNCHANGED vars
  <2>1. UNCHANGED <<traffic, waits, st, fq, lb, inq, in_active, out_active, used>>
    BY <1>1 DEF vars, pipeVars, inVars, outVars
  <2>2. Ended' = Ended /\ HasMessage' = HasMessage /\ HasRoom' = HasRoom /\ Fading
    BY <2>1 DEF Ended, HasMessage, HasRoom, Readable, Full, Fading
  <2>3. /\ "in" \in traffic => Idle(fq, HasMessage, {"closed"})
        /\ "out" \in traffic => Idle(lb, HasRoom, {"closed", "waiting_for_delimiter"})
    BY <2>1, <2>2, NowEven DEF Idle
  <2> QED
    BY <2>1, <2>2, <2>3, ServingNobody
<1>2. ASSUME NEW p \in Pipes,
             \/ PeerWrite(p) \/ PeerRead(p) \/ PeerTerminate(p)
             \/ xattach_pipe(p) \/ xread_activated(p) \/ xwrite_activated(p)
             \/ process_pipe_term(p) \/ terminate(p) \/ xpipe_terminated(p)
      PROVE  Turning'
  BY <1>2, TurnsOfCommands, TurnsOfEnding
<1>3. CASE recvpipe
  <2>1. CASE RecvAborts
    <3>1. UNCHANGED <<traffic, waits, st, fq, lb, inq, in_active, out_active, used>>
      BY <2>1 DEF RecvAborts, pipeVars, inVars, outVars
    <3>2. Ended' = Ended /\ HasMessage' = HasMessage /\ HasRoom' = HasRoom /\ Fading
      BY <3>1 DEF Ended, HasMessage, HasRoom, Readable, Full, Fading
    <3>3. /\ "in" \in traffic => Idle(fq, HasMessage, {"closed"})
          /\ "out" \in traffic => Idle(lb, HasRoom, {"closed", "waiting_for_delimiter"})
      BY <3>1, <3>2, NowEven DEF Idle
    <3> QED
      BY <3>1, <3>2, <3>3, ServingNobody
  <2>2. CASE RecvTakes
    BY <1>3, <2>2, TurnsOfReceiving DEF recvpipe
  <2> QED
    BY <1>3, <2>1, <2>2 DEF recvpipe
<1>4. CASE xhas_in
  BY <1>4, TurnsOfReceiving DEF xhas_in
<1> QED
  BY <1>1, <1>2, <1>3, <1>4, TurnsOfSending DEF Next

LEMMA InitiallyTurning == Init => Turning
<1> SUFFICES ASSUME Init PROVE Turning
  OBVIOUS
<1>1. Turns \in Nat
  BY Initially, Limit DEF Sound
<1>2. fq.active = 0 /\ lb.active = 0 /\ \A p \in Pipes : waits[p] = 0
  BY DEF Init
<1> QED
  BY <1>1, <1>2 DEF Turning, Waiting
-----------------------------------------------------------------------------
(* The inductive invariant, for every number of pipes, every mark and      *)
(* every length of messages, without any condition on when pipes end or    *)
(* what the application does: the arrays agree with the pipes and their    *)
(* flags, only a message that torn, astray or half records loses its pipe, *)
(* and in one direction the turns to come are bounded.                     *)
THEOREM DealerInvariant == Spec => []IInv
<1>1. Init => IInv
  BY Initially, InitiallyTurning, Both
<1>2. IInv /\ [Next]_vars => IInv'
  <2> SUFFICES ASSUME IInv, [Next]_vars PROVE IInv'
    OBVIOUS
  <2>1. Sound /\ (OneWay => Turning)
    BY Both
  <2>2. Sound'
    BY <2>1, SoundStep
  <2>3. OneWay' => OneWay
    <3>1. traffic' = traffic
      BY DEF Next, vars, pipeVars, inVars, outVars, PeerWrite, PeerRead, PeerTerminate, xattach_pipe, xread_activated,
             xwrite_activated, process_pipe_term, terminate, xpipe_terminated, recvpipe, RecvAborts,
             RecvTakes, xhas_in, sendpipe, SendRolledBack, SendDropped, SendWritten, xhas_out
    <3> QED
      BY <3>1 DEF OneWay
  <2>4. OneWay' => Turning'
    BY <2>1, <2>2, <2>3, TurningStep
  <2>5. (IInv <=> Sound /\ (OneWay => Turning))'
    BY Both, PTL
  <2> QED
    BY <2>2, <2>4, <2>5
<1> QED
  BY <1>1, <1>2, PTL DEF Spec

(* zmq_send.txt's promise for a socket of this kind, as far as the code    *)
(* keeps it: what a peer can read are whole messages, and what the         *)
(* application reads is not cut short and no assertion fails, but for the  *)
(* messages that jump, are tried again after a rollback, or are terminated *)
(* while they are read.                                                    *)
THEOREM DealerWholeMessages == Spec => []WholeMessages
<1>1. IInv => WholeMessages
  BY DEF IInv
<1> QED
  BY <1>1, DealerInvariant, PTL

(* fq.cpp and lb.cpp keep every pipe of the socket once, and ask every     *)
(* pipe that can have something for them; a full one is in the active part *)
(* of lb, and the array is read past its end, only after a message that    *)
(* had jumped was rolled back.                                             *)
THEOREM DealerPartitions == Spec => []Partitions
<1>1. IInv => Partitions
  <2> SUFFICES ASSUME IInv PROVE Partitions
    OBVIOUS
  <2>1. TypeOK /\ Flags
    BY DEF IInv, Typed
  <2>2. \A q \in {fq, lb} : q \in Kinds /\ Arranged(q) /\ Attached(q) = {p \in Pipes : st[p] \notin {"new", "gone"}}
    BY DEF IInv, Typed, Arrays, Kinds
  <2>3. ASSUME NEW q \in {fq, lb} PROVE Len(q.pipes) = Cardinality(Attached(q)) /\ (q.active > 0 => q.current < q.active)
    <3>1. q \in Kinds /\ Arranged(q)
      BY <2>2, <2>3
    <3>2. q.active > 0 => q.current < q.active
      BY <3>1 DEF Arranged
    <3>3. Len(q.pipes) = Cardinality(Attached(q))
      <4>1. PICK s : s = q.pipes
        OBVIOUS
      <4>2. s \in Seq(Pipes) /\ Len(s) \in Nat /\ Once(s) /\ s \in [1 .. Len(s) -> Pipes] /\ DOMAIN s = 1 .. Len(s)
        <5>1. s \in Seq(Pipes) /\ Len(s) \in Nat /\ Once(s)
          BY <3>1, <4>1, Fields, Shorter
        <5> QED
          BY <5>1
      <4>3. PICK a : a = First(s, Len(s))
        OBVIOUS
      <4>4. \A x : x \in a <=> \E i \in 1 .. Len(s) : s[i] = x
        BY <4>3 DEF First
      <4>5. s \in Bijection(1 .. Len(s), a)
        <5>1. s \in [1 .. Len(s) -> a]
          BY <4>2, <4>4
        <5>2. \A i, j \in 1 .. Len(s) : s[i] = s[j] => i = j
          BY <4>2 DEF Once
        <5>3. \A x \in a : \E i \in 1 .. Len(s) : s[i] = x
          BY <4>4
        <5> QED
          BY <5>1, <5>2, <5>3 DEF Bijection, Injection, Surjection, IsInjective
      <4>6. IsFiniteSet(1 .. Len(s)) /\ Cardinality(1 .. Len(s)) = Len(s)
        <5>1. 1 \in Int /\ Len(s) \in Int
          BY <4>2
        <5>2. IsFiniteSet(1 .. Len(s)) /\ Cardinality(1 .. Len(s)) = IF 1 > Len(s) THEN 0 ELSE Len(s) - 1 + 1
          BY <5>1, FS_Interval
        <5> QED
          BY <4>2, <5>2
      <4>7. Cardinality(a) = Cardinality(1 .. Len(s))
        BY <4>5, <4>6, FS_Bijection DEF ExistsBijection
      <4> QED
        BY <4>1, <4>3, <4>6, <4>7 DEF Attached
    <3> QED
      BY <3>2, <3>3
  <2> QED
    BY <2>1, <2>2, <2>3 DEF Partitions, Flags
<1> QED
  BY <1>1, DealerInvariant, PTL

(* Fair queueing and load balancing: each direction taken by itself, as    *)
(* the two share nothing but the pipes, a pipe that is ready waits for no  *)
(* more than N - 1 messages of others, and as many again for each pipe     *)
(* that has ended.                                                         *)
THEOREM DealerFairShare ==
  ASSUME \A t \in Traffic : t # {"in", "out"}
  PROVE  Spec => []FairShare
<1>1. IInv => FairShare
  <2> SUFFICES ASSUME IInv PROVE FairShare
    OBVIOUS
  <2>1. OneWay
    BY DEF IInv, Typed, TypeOK, OneWay
  <2> QED
    BY <2>1 DEF IInv, Turning, FairShare
<1> QED
  BY <1>1, DealerInvariant, PTL
=============================================================================
