----------------------------- MODULE CtxProofs -----------------------------
(***************************************************************************)
(* For any sockets, any number of slots and of interrupted calls: the      *)
(* reaper stops once and last, and a context that zmq_ctx_term has deleted *)
(* is used by nobody.  That zmq_ctx_term returns is left to TLC.           *)
(***************************************************************************)
EXTENDS Ctx, FiniteSetTheorems, TLAPS

(* Counting commands in a mailbox. *)
LEMMA CommandsDistinct ==
  /\ <<"stop">> \in Commands /\ <<"reaped">> \in Commands
  /\ \A s \in Socket : <<"reap", s>> \in Commands
  /\ <<"stop">> # <<"reaped">>
  /\ \A s \in Socket : <<"reap", s>> # <<"stop">> /\ <<"reap", s>> # <<"reaped">>
  /\ \A s, t \in Socket : <<"reap", s>> = <<"reap", t>> => s = t
  /\ \A c \in Commands : \/ c = <<"stop">> \/ c = <<"reaped">>
                         \/ \E s \in Socket : c = <<"reap", s>>
<1>1. <<"stop">>[1] = "stop" /\ <<"reaped">>[1] = "reaped"
  OBVIOUS
<1>2. \A s \in Socket : <<"reap", s>>[1] = "reap" /\ <<"reap", s>>[2] = s
  OBVIOUS
<1> QED
  BY <1>1, <1>2 DEF Commands

LEMMA CountType ==
  ASSUME NEW box \in Seq(Commands), NEW c
  PROVE  /\ IsFiniteSet({i \in DOMAIN box : box[i] = c})
         /\ Count(box, c) \in Nat
         /\ Count(box, c) = 0 => \A i \in DOMAIN box : box[i] # c
<1>1. DOMAIN box = 1 .. Len(box) /\ Len(box) \in Nat
  OBVIOUS
<1>2. IsFiniteSet({i \in DOMAIN box : box[i] = c})
  <2>1. IsFiniteSet(1 .. Len(box))
    BY <1>1, FS_Interval
  <2>2. {i \in DOMAIN box : box[i] = c} \in SUBSET (1 .. Len(box))
    BY <1>1
  <2> QED
    BY <2>1, <2>2, FS_Subset
<1> QED
  BY <1>2, FS_CardinalityType, FS_EmptySet DEF Count

LEMMA CountNone ==
  ASSUME NEW c
  PROVE  Count(<<>>, c) = 0
<1>1. {i \in DOMAIN <<>> : <<>>[i] = c} = {}
  OBVIOUS
<1> QED
  BY <1>1, FS_EmptySet DEF Count

(* A mailbox without any command is empty. *)
LEMMA CountAllNone ==
  ASSUME NEW box \in Seq(Commands), \A c \in Commands : Count(box, c) = 0
  PROVE  box = <<>>
<1>1. \A i \in DOMAIN box : box[i] \in Commands
  OBVIOUS
<1>2. \A i \in DOMAIN box : FALSE
  BY <1>1, CountType
<1> QED
  BY <1>2

LEMMA CountAppend ==
  ASSUME NEW box \in Seq(Commands), NEW d \in Commands, NEW c
  PROVE  /\ Append(box, d) \in Seq(Commands)
         /\ c = d => Count(Append(box, d), c) = Count(box, c) + 1
         /\ c # d => Count(Append(box, d), c) = Count(box, c)
<1> DEFINE at(b) == {i \in DOMAIN b : b[i] = c}
<1>1. /\ Append(box, d) \in Seq(Commands)
      /\ DOMAIN box = 1 .. Len(box) /\ Len(box) \in Nat
      /\ DOMAIN Append(box, d) = 1 .. Len(box) + 1
      /\ \A i \in 1 .. Len(box) : Append(box, d)[i] = box[i]
      /\ Append(box, d)[Len(box) + 1] = d
  OBVIOUS
<1>2. IsFiniteSet(at(box)) /\ Cardinality(at(box)) \in Nat
  BY CountType DEF Count
<1>3. CASE c = d
  <2>1. at(Append(box, d)) = at(box) \cup {Len(box) + 1}
    BY <1>1, <1>3
  <2>2. Len(box) + 1 \notin at(box)
    BY <1>1
  <2>3. Cardinality(at(box) \cup {Len(box) + 1}) = Cardinality(at(box)) + 1
    BY <1>2, <2>2, FS_AddElement
  <2>4. Count(Append(box, d), c) = Count(box, c) + 1
    BY <2>1, <2>3 DEF Count
  <2> QED
    BY <1>1, <1>3, <2>4
<1>4. CASE c # d
  <2>1. at(Append(box, d)) = at(box)
    BY <1>1, <1>4
  <2>2. Count(Append(box, d), c) = Count(box, c)
    BY <2>1 DEF Count
  <2> QED
    BY <1>1, <1>4, <2>2
<1> QED
  BY <1>3, <1>4

LEMMA CountTail ==
  ASSUME NEW box \in Seq(Commands), box # <<>>, NEW c
  PROVE  /\ Tail(box) \in Seq(Commands) /\ Head(box) \in Commands
         /\ c = Head(box) => Count(Tail(box), c) = Count(box, c) - 1
         /\ c # Head(box) => Count(Tail(box), c) = Count(box, c)
<1> DEFINE at(b) == {i \in DOMAIN b : b[i] = c}
<1>1. /\ Tail(box) \in Seq(Commands) /\ Head(box) \in Commands
      /\ Head(box) = box[1]
      /\ DOMAIN box = 1 .. Len(box) /\ Len(box) \in Nat /\ Len(box) > 0
      /\ DOMAIN Tail(box) = 1 .. Len(box) - 1
      /\ \A i \in 1 .. Len(box) - 1 : Tail(box)[i] = box[i + 1]
  OBVIOUS
<1>2. IsFiniteSet(at(box)) /\ IsFiniteSet(at(Tail(box)))
  BY <1>1, CountType
<1>3. Cardinality(at(Tail(box))) = Cardinality(at(box) \ {1})
  <2> DEFINE up == [i \in at(Tail(box)) |-> i + 1]
  <2>1. up \in [at(Tail(box)) -> at(box) \ {1}]
    BY <1>1
  <2>2. up \in Injection(at(Tail(box)), at(box) \ {1})
    BY <1>1, <2>1 DEF Injection, IsInjective
  <2>3. \A j \in at(box) \ {1} : \E i \in at(Tail(box)) : up[i] = j
    <3> TAKE j \in at(box) \ {1}
    <3>1. j - 1 \in at(Tail(box)) /\ up[j - 1] = j
      BY <1>1
    <3> QED
      BY <3>1
  <2>4. up \in Surjection(at(Tail(box)), at(box) \ {1})
    BY <2>1, <2>3 DEF Surjection
  <2>5. ExistsBijection(at(Tail(box)), at(box) \ {1})
    BY <2>2, <2>4 DEF ExistsBijection, Bijection
  <2> QED
    BY <2>5, <1>2, FS_Bijection
<1>4. 1 \in at(box) <=> c = Head(box)
  BY <1>1
<1>5. Cardinality(at(box)) \in Nat /\ (1 \in at(box) => Cardinality(at(box)) # 0)
  BY <1>2, FS_CardinalityType, FS_EmptySet
<1>6. Cardinality(at(box) \ {1}) = IF 1 \in at(box) THEN Cardinality(at(box)) - 1 ELSE Cardinality(at(box))
  BY <1>2, FS_RemoveElement
<1>7. Count(Tail(box), c) = Cardinality(at(box) \ {1}) /\ Count(box, c) = Cardinality(at(box))
  BY <1>3 DEF Count
<1> QED
  BY <1>1, <1>4, <1>5, <1>6, <1>7

(* A finite set in some order: every element once. *)
LEMMA InOrder ==
  ASSUME NEW S, IsFiniteSet(S)
  PROVE  /\ SetToSeq(S) \in [1 .. Cardinality(S) -> S] /\ Cardinality(S) \in Nat
         /\ \A i, j \in 1 .. Cardinality(S) : SetToSeq(S)[i] = SetToSeq(S)[j] => i = j
         /\ \A x \in S : \E i \in 1 .. Cardinality(S) : SetToSeq(S)[i] = x
<1>1. Cardinality(S) \in Nat /\ ExistsBijection(1 .. Cardinality(S), S)
  BY FS_CardinalityType
<1> DEFINE n == Cardinality(S)
           f == SetToSeq(S)
<1>2. \E g \in [1 .. n -> S] : IsInjective(g)
  BY <1>1 DEF ExistsBijection, Bijection, Injection
<1>3. f \in [1 .. n -> S] /\ IsInjective(f)
  BY <1>2 DEF SetToSeq
<1>4. f \in Injection(1 .. n, S)
  BY <1>3 DEF Injection
<1>5. IsFiniteSet(1 .. n) /\ Cardinality(1 .. n) = n
  BY <1>1, FS_Interval
<1>6. f \in Surjection(1 .. n, S)
  BY <1>4, <1>5, FS_Injection
<1> QED
  BY <1>1, <1>3, <1>6 DEF IsInjective, Surjection

(* What terminate sends for the sockets it has closed. *)
LEMMA CountReaps ==
  ASSUME NEW box \in Seq(Commands), NEW S \in SUBSET Socket, IsFiniteSet(S), NEW c
  PROVE  /\ box \o Reaps(SetToSeq(S)) \in Seq(Commands)
         /\ (\E s \in S : c = <<"reap", s>>) =>
              Count(box \o Reaps(SetToSeq(S)), c) = Count(box, c) + 1
         /\ (\A s \in S : c # <<"reap", s>>) =>
              Count(box \o Reaps(SetToSeq(S)), c) = Count(box, c)
<1> DEFINE n == Cardinality(S)
           f == SetToSeq(S)
           r == Reaps(f)
           at(b) == {i \in DOMAIN b : b[i] = c}
<1>1. /\ f \in [1 .. n -> S] /\ n \in Nat
      /\ \A i, j \in 1 .. n : f[i] = f[j] => i = j
      /\ \A x \in S : \E i \in 1 .. n : f[i] = x
  BY InOrder
<1> HIDE DEF f, n
<1>2. r = [i \in 1 .. n |-> <<"reap", f[i]>>]
  BY <1>1 DEF Reaps
<1>3. \A i \in 1 .. n : <<"reap", f[i]>> \in Commands
  BY <1>1, CommandsDistinct
<1>4. r \in Seq(Commands) /\ Len(r) = n
  BY <1>1, <1>2, <1>3
<1> HIDE DEF r
<1>5. /\ box \o r \in Seq(Commands)
      /\ DOMAIN (box \o r) = 1 .. Len(box) + n
      /\ DOMAIN box = 1 .. Len(box) /\ Len(box) \in Nat
      /\ \A i \in 1 .. Len(box) : (box \o r)[i] = box[i]
      /\ \A i \in 1 .. n : (box \o r)[Len(box) + i] = <<"reap", f[i]>>
  BY <1>1, <1>2, <1>4
<1>6. IsFiniteSet(at(box)) /\ Cardinality(at(box)) \in Nat
  BY CountType DEF Count
<1>7. CASE \E s \in S : c = <<"reap", s>>
  <2>1. PICK k \in 1 .. n : c = <<"reap", f[k]>>
    BY <1>1, <1>7
  <2>2. \A i \in 1 .. n : <<"reap", f[i]>> = c <=> i = k
    BY <1>1, <2>1, CommandsDistinct
  <2>3. at(box \o r) = at(box) \cup {Len(box) + k}
    <3>1. \A i \in 1 .. Len(box) + n : i \in 1 .. Len(box) \/ i - Len(box) \in 1 .. n
      BY <1>1, <1>5
    <3>2. \A i \in 1 .. Len(box) + n : (box \o r)[i] = c <=> i \in at(box) \/ i = Len(box) + k
      <4> TAKE i \in 1 .. Len(box) + n
      <4>1. CASE i \in 1 .. Len(box)
        BY <1>1, <1>5, <4>1, <2>1
      <4>2. CASE i - Len(box) \in 1 .. n
        <5>1. i = Len(box) + (i - Len(box)) /\ i \notin 1 .. Len(box)
          BY <1>1, <1>5, <4>2
        <5>2. (box \o r)[i] = <<"reap", f[i - Len(box)]>>
          BY <1>5, <4>2, <5>1
        <5> QED
          BY <1>1, <1>5, <2>2, <4>2, <5>1, <5>2
      <4> QED
        BY <3>1, <4>1, <4>2
    <3>3. Len(box) + k \in 1 .. Len(box) + n
      BY <1>1, <1>5, <2>1
    <3> QED
      BY <1>1, <1>5, <3>2, <3>3
  <2>4. Len(box) + k \notin at(box)
    BY <1>1, <1>5, <2>1
  <2>5. Cardinality(at(box) \cup {Len(box) + k}) = Cardinality(at(box)) + 1
    BY <1>6, <2>4, FS_AddElement
  <2>6. Count(box \o r, c) = Count(box, c) + 1
    BY <2>3, <2>5 DEF Count
  <2> QED
    BY <1>5, <1>7, <2>6 DEF r, f
<1>8. CASE \A s \in S : c # <<"reap", s>>
  <2>1. \A i \in 1 .. n : <<"reap", f[i]>> # c
    BY <1>1, <1>8
  <2>2. at(box \o r) = at(box)
    <3>1. \A i \in 1 .. Len(box) + n : i \notin 1 .. Len(box) => (box \o r)[i] # c
      <4> SUFFICES ASSUME NEW i \in 1 .. Len(box) + n, i \notin 1 .. Len(box)
                   PROVE  (box \o r)[i] # c
        OBVIOUS
      <4>1. i - Len(box) \in 1 .. n /\ i = Len(box) + (i - Len(box))
        BY <1>1, <1>5
      <4> QED
        BY <1>5, <2>1, <4>1
    <3> QED
      BY <1>1, <1>5, <3>1
  <2>3. Count(box \o r, c) = Count(box, c)
    BY <2>2 DEF Count
  <2> QED
    BY <1>5, <1>8, <2>3 DEF r, f
<1> QED
  BY <1>7, <1>8
-----------------------------------------------------------------------------
LEMMA Reaped ==
  ASSUME TypeOK, Slots
  PROVE  /\ IsFiniteSet(Reaping) /\ Cardinality(Reaping) \in Nat
         /\ IsFiniteSet(pending) /\ Cardinality(sockets) \in Nat
         /\ \A c : Count(rbox, c) \in Nat
<1>1. Reaping \subseteq sockets
  BY DEF Reaping, Inside, Slots
<1>2. IsFiniteSet(Reaping) /\ IsFiniteSet(pending) /\ IsFiniteSet(sockets)
  BY <1>1, FS_Subset DEF Slots
<1> QED
  BY <1>2, FS_CardinalityType, CountType DEF TypeOK

(* A reaper that has stopped was told so, and nobody is left. *)
LEMMA StopMeansEmpty ==
  ASSUME TypeOK, Slots, Mailed
  PROVE  /\ Count(rbox, <<"stop">>) # 0 => ~reaper.terminating /\ sockets = {} /\ terminating
         /\ reaper.terminating =>
              Count(rbox, <<"stop">>) = 0 /\ sockets = {} /\ terminating
<1>1. Count(rbox, <<"stop">>) \in Nat
  BY Reaped
<1>2. Count(rbox, <<"stop">>) + One(reaper.terminating) = One(terminating /\ sockets = {})
  BY DEF Mailed
<1>3. CASE terminating /\ sockets = {}
  BY <1>1, <1>2, <1>3 DEF One
<1>4. CASE ~(terminating /\ sockets = {})
  BY <1>1, <1>2, <1>4 DEF One
<1> QED
  BY <1>3, <1>4

LEMMA InitIInv == Init => IInv
<1> SUFFICES ASSUME Init PROVE IInv
  OBVIOUS
<1>1. TypeOK
  <2>1. <<>> \in Seq(Commands)
    OBVIOUS
  <2>2. MaxSockets \in 0 .. MaxSockets /\ 0 \in 0 .. MaxInterrupt
    BY CtxAssumption
  <2> QED
    BY <2>1, <2>2 DEF Init, TypeOK
<1>2. Slots
  <2>1. Inside = {}
    BY DEF Init, Inside
  <2>2. Cardinality(sockets) = 0 /\ IsFiniteSet(sockets)
    BY FS_EmptySet DEF Init
  <2> QED
    BY <2>1, <2>2, CtxAssumption DEF Init, Slots
<1>3. Mailed
  <2>1. \A c : Count(rbox, c) = 0
    BY CountNone DEF Init
  <2>2. Reaping = {}
    BY DEF Init, Reaping
  <2>3. Cardinality(Reaping) = 0
    BY <2>2, FS_EmptySet
  <2> QED
    BY <2>1, <2>3 DEF Init, Mailed, One
<1>4. Ended
  BY DEF Init, Ended, One
<1> QED
  BY <1>1, <1>2, <1>3, <1>4 DEF IInv

(* The application's calls. *)
LEMMA CreateIInv ==
  ASSUME IInv, NEW s \in App, create_socket(s)
  PROVE  IInv'
<1> USE DEF IInv
<1>0. s \in Socket /\ st[s] = "none" /\ s \notin sockets /\ ~terminating /\ empty_slots > 0
  BY DEF create_socket, Slots, Inside, Socket
<1>1. TypeOK'
  <2>1. empty_slots - 1 \in 0 .. MaxSockets
    BY <1>0, CtxAssumption DEF TypeOK
  <2> QED
    BY <1>0, <2>1 DEF TypeOK, create_socket
<1>2. Slots'
  <2>1. Inside' = Inside \cup {s}
    BY <1>0 DEF Inside, create_socket, TypeOK
  <2>2. IsFiniteSet(sockets') /\ Cardinality(sockets') = Cardinality(sockets) + 1
    BY <1>0, FS_AddElement DEF Slots, create_socket
  <2>3. sockets' = Inside' /\ pending' \subseteq sockets'
    BY <2>1 DEF Slots, create_socket
  <2> QED
    BY <2>2, <2>3, Reaped, CtxAssumption DEF Slots, create_socket, TypeOK
<1>3. Mailed'
  <2>1. Reaping' = Reaping
    BY <1>0 DEF Reaping, create_socket, TypeOK
  <2>2. \A t \in Socket : (st'[t] = "closed") = (st[t] = "closed")
    BY <1>0 DEF create_socket, TypeOK
  <2> QED
    BY <1>0, <2>1, <2>2 DEF Mailed, create_socket, One
<1>4. Ended'
  BY <1>0 DEF Ended, create_socket, Alive
<1> QED
  BY <1>1, <1>2, <1>3, <1>4

LEMMA BindIInv ==
  ASSUME IInv, NEW s \in App, Bind(s)
  PROVE  IInv'
<1> USE DEF IInv
<1>1. TypeOK'
  BY DEF TypeOK, Bind, Socket
<1>2. Slots'
  BY DEF Slots, Bind, Inside
<1>3. Mailed'
  BY DEF Mailed, Bind, Reaping
<1>4. Ended'
  BY DEF Ended, Bind
<1> QED
  BY <1>1, <1>2, <1>3, <1>4

(* connect and what pends it keep the socket open. *)
LEMMA ConnectIInv ==
  ASSUME IInv, NEW s \in App, ConnectFind(s) \/ pend_connection(s)
  PROVE  IInv'
<1> USE DEF IInv
<1>0. /\ s \in Socket /\ st[s] \in {"open", "connecting"} /\ s \in sockets
      /\ st' \in {[st EXCEPT ![s] = "open"], [st EXCEPT ![s] = "connecting"]}
      /\ pending' \subseteq pending \cup {s}
      /\ UNCHANGED <<starting, terminating, sockets, empty_slots, stopped, bound, rbox,
                     reaper, done, term, interrupts>>
  BY DEF ConnectFind, Usable, pend_connection, Slots, Inside, Socket
<1>1. TypeOK'
  BY <1>0 DEF TypeOK
<1>2. Slots'
  <2>1. Inside' = Inside
    BY <1>0 DEF Inside, TypeOK
  <2> QED
    BY <1>0, <2>1 DEF Slots
<1>3. Mailed'
  <2>1. Reaping' = Reaping
    BY <1>0 DEF Reaping, TypeOK
  <2>2. \A t \in Socket : (st'[t] = "closed") = (st[t] = "closed")
    BY <1>0 DEF TypeOK
  <2> QED
    BY <1>0, <2>1, <2>2 DEF Mailed, One
<1>4. Ended'
  BY <1>0 DEF Ended
<1> QED
  BY <1>1, <1>2, <1>3, <1>4

LEMMA CloseIInv ==
  ASSUME IInv, NEW s \in App, close(s)
  PROVE  IInv'
<1> USE DEF IInv
<1>0. /\ s \in Socket /\ st[s] = "open" /\ s \in sockets
      /\ st' = [st EXCEPT ![s] = "closed"] /\ rbox' = Append(rbox, <<"reap", s>>)
      /\ UNCHANGED <<starting, terminating, sockets, empty_slots, stopped, bound, pending,
                     reaper, done, term, interrupts>>
  BY DEF close, Slots, Inside, Socket
<1>a. rbox \in Seq(Commands) /\ <<"reap", s>> \in Commands
  BY <1>0, CommandsDistinct DEF TypeOK
<1>b. rbox' \in Seq(Commands)
  BY <1>0, <1>a, CountAppend
<1>c. /\ Count(rbox', <<"reap", s>>) = Count(rbox, <<"reap", s>>) + 1
      /\ \A c : c # <<"reap", s>> => Count(rbox', c) = Count(rbox, c)
  BY <1>0, <1>a, CountAppend
<1>1. TypeOK'
  BY <1>0, <1>b DEF TypeOK
<1>2. Slots'
  <2>1. Inside' = Inside
    BY <1>0 DEF Inside, TypeOK
  <2> QED
    BY <1>0, <2>1 DEF Slots
<1>3. Mailed'
  <2>1. Reaping' = Reaping
    BY <1>0 DEF Reaping, TypeOK
  <2>2. \A t \in Socket : Count(rbox', <<"reap", t>>) = One(st'[t] = "closed")
    <3> TAKE t \in Socket
    <3>1. CASE t = s
      <4>1. Count(rbox, <<"reap", s>>) = 0
        BY <1>0 DEF Mailed, One
      <4>2. st'[s] = "closed"
        BY <1>0 DEF TypeOK
      <4> QED
        BY <1>c, <3>1, <4>1, <4>2 DEF One
    <3>2. CASE t # s
      <4>1. <<"reap", t>> # <<"reap", s>>
        BY <1>0, <3>2, CommandsDistinct
      <4>2. Count(rbox', <<"reap", t>>) = Count(rbox, <<"reap", t>>) /\ st'[t] = st[t]
        BY <1>0, <1>c, <3>2, <4>1 DEF TypeOK
      <4> QED
        BY <4>2 DEF Mailed
    <3> QED
      BY <3>1, <3>2
  <2>3. /\ Count(rbox', <<"stop">>) = Count(rbox, <<"stop">>)
        /\ Count(rbox', <<"reaped">>) = Count(rbox, <<"reaped">>)
    BY <1>0, <1>c, CommandsDistinct
  <2> QED
    BY <1>0, <2>1, <2>2, <2>3 DEF Mailed
<1>4. Ended'
  <2>1. reaper.running
    <3> SUFFICES ASSUME ~reaper.running PROVE FALSE
      OBVIOUS
    <3>1. sockets = {}
      BY StopMeansEmpty DEF Ended
    <3> QED
      BY <1>0, <3>1
  <2> QED
    BY <1>0, <2>1 DEF Ended
<1> QED
  BY <1>1, <1>2, <1>3, <1>4

(* The steps of zmq_ctx_term after and besides its work, none of which     *)
(* touches a mailbox.                                                      *)
LEMMA TermIInv ==
  ASSUME IInv, TerminateAborts \/ TerminateUnused \/ TerminateReturns \/ TerminateInterrupted
  PROVE  IInv'
<1> USE DEF IInv
<1>0. /\ UNCHANGED <<starting, terminating, sockets, empty_slots, st, stopped, bound,
                     pending, rbox, reaper>>
      /\ \/ TerminateAborts \/ TerminateUnused \/ TerminateReturns \/ TerminateInterrupted
  BY DEF TerminateAborts, TerminateUnused, TerminateReturns, TerminateInterrupted
<1>1. TypeOK'
  <2>1. done' \in Nat /\ interrupts' \in 0 .. MaxInterrupt
        /\ term' \in {"idle", "waiting", "returned", "aborted"}
    BY CtxAssumption DEF TypeOK, TerminateAborts, TerminateUnused, TerminateReturns, TerminateInterrupted
  <2> QED
    BY <1>0, <2>1 DEF TypeOK
<1>2. Slots'
  BY <1>0 DEF Slots, Inside
<1>3. Mailed'
  BY <1>0 DEF Mailed, Reaping
<1>4. Ended'
  <2>1. CASE TerminateAborts \/ TerminateInterrupted
    BY <1>0, <2>1 DEF Ended, One, TerminateAborts, TerminateInterrupted
  <2>2. CASE TerminateUnused
    <3>1. reaper.running
      BY <2>2, StopMeansEmpty DEF Ended, TerminateUnused
    <3> QED
      BY <1>0, <2>2, <3>1 DEF Ended, One, TerminateUnused
  <2>3. CASE TerminateReturns
    <3>1. ~reaper.running /\ done = 1
      BY <2>3 DEF Ended, One, TerminateReturns
    <3> QED
      BY <1>0, <2>3, <3>1 DEF Ended, One, TerminateReturns
  <2> QED
    BY <1>0, <2>1, <2>2, <2>3
<1> QED
  BY <1>1, <1>2, <1>3, <1>4

LEMMA ShutdownIInv ==
  ASSUME IInv, shutdown
  PROVE  IInv'
<1> USE DEF IInv
<1>0. /\ Alive /\ ~starting /\ ~terminating /\ terminating' = TRUE
      /\ stopped' = stopped \cup sockets
      /\ rbox' = IF sockets = {} THEN Append(rbox, <<"stop">>) ELSE rbox
      /\ UNCHANGED <<starting, sockets, empty_slots, st, bound, pending, reaper, done,
                     term, interrupts>>
  BY DEF shutdown, StopAll
<1>a. /\ rbox' \in Seq(Commands)
      /\ \A c : c # <<"stop">> => Count(rbox', c) = Count(rbox, c)
      /\ sockets = {} => Count(rbox', <<"stop">>) = Count(rbox, <<"stop">>) + 1
  BY <1>0, CommandsDistinct, CountAppend DEF TypeOK
<1>b. ~reaper.terminating /\ Count(rbox, <<"stop">>) = 0 /\ reaper.running
  BY <1>0, StopMeansEmpty DEF Ended
<1>1. TypeOK'
  BY <1>0, <1>a DEF TypeOK
<1>2. Slots'
  BY <1>0 DEF Slots, Inside
<1>3. Mailed'
  <2>1. Reaping' = Reaping
    BY <1>0 DEF Reaping
  <2>2. Count(rbox', <<"reaped">>) = Count(rbox, <<"reaped">>)
        /\ \A t \in Socket : Count(rbox', <<"reap", t>>) = Count(rbox, <<"reap", t>>)
    BY <1>a, CommandsDistinct
  <2>3. Count(rbox', <<"stop">>) + One(reaper'.terminating) = One(terminating' /\ sockets' = {})
    BY <1>0, <1>a, <1>b DEF One
  <2> QED
    BY <1>0, <2>1, <2>2, <2>3 DEF Mailed
<1>4. Ended'
  BY <1>0, <1>b DEF Ended
<1> QED
  BY <1>1, <1>2, <1>3, <1>4

(* The work of terminate: the sockets it creates are new, and go to the    *)
(* reaper at once.                                                         *)
LEMMA TerminateIInv ==
  ASSUME IInv, terminate
  PROVE  IInv'
<1> USE DEF IInv
<1> DEFINE P == Pairs
           box == rbox \o Reaps(SetToSeq(P))
<1>1. P \in SUBSET Helper /\ ForPending(P)
  BY DEF terminate, Pairs
<1>2. /\ P \subseteq Socket /\ IsFiniteSet(P) /\ P \cap sockets = {}
      /\ \A h \in P : st[h] = "none"
  <2>1. IsFiniteSet(P)
    BY <1>1, CtxAssumption, FS_Subset
  <2> QED
    BY <1>1, <2>1 DEF ForPending, Slots, Inside, Socket
<1>3. Cardinality(P) = Cardinality(pending) /\ Cardinality(P) \in Nat
      /\ Cardinality(P) <= empty_slots
  BY <1>1, <1>2, FS_CardinalityType DEF ForPending, terminate
<1>4. /\ box \in Seq(Commands)
      /\ \A h \in P : Count(box, <<"reap", h>>) = Count(rbox, <<"reap", h>>) + 1
      /\ \A s \in Socket : s \notin P => Count(box, <<"reap", s>>) = Count(rbox, <<"reap", s>>)
      /\ Count(box, <<"stop">>) = Count(rbox, <<"stop">>)
      /\ Count(box, <<"reaped">>) = Count(rbox, <<"reaped">>)
  <2>1. rbox \in Seq(Commands)
    BY DEF TypeOK
  <2>2. \A c : /\ box \in Seq(Commands)
               /\ (\E h \in P : c = <<"reap", h>>) => Count(box, c) = Count(rbox, c) + 1
               /\ (\A h \in P : c # <<"reap", h>>) => Count(box, c) = Count(rbox, c)
    BY <1>2, <2>1, CountReaps
  <2>3. \A h \in P : <<"reap", h>> # <<"stop">> /\ <<"reap", h>> # <<"reaped">>
    BY <1>2, CommandsDistinct
  <2>4. \A s \in Socket : s \notin P => \A h \in P : <<"reap", s>> # <<"reap", h>>
    BY <1>2, CommandsDistinct
  <2> HIDE DEF box, P
  <2> QED
    BY <2>2, <2>3, <2>4
<1>5. /\ term = "idle" /\ ~starting /\ terminating' = TRUE /\ term' = "waiting"
      /\ sockets' = sockets \cup P /\ empty_slots' = empty_slots - Cardinality(P)
      /\ st' = [s \in Socket |-> IF s \in P THEN "closed" ELSE st[s]]
      /\ bound' = (IF SetToSeq(P) = <<>> THEN bound ELSE Head(SetToSeq(P)))
      /\ pending' = {}
      /\ stopped' = stopped \/ stopped' = stopped \cup sockets'
      /\ rbox' = IF ~terminating /\ sockets' = {} THEN Append(box, <<"stop">>) ELSE box
      /\ UNCHANGED <<starting, reaper, done, interrupts>>
  BY DEF terminate, StopAll
<1>6. bound' \in Socket \cup {NULL}
  <2>1. /\ SetToSeq(P) \in [1 .. Cardinality(P) -> P] /\ Cardinality(P) \in Nat
    BY <1>2, InOrder
  <2>2. SetToSeq(P) # <<>> => Head(SetToSeq(P)) \in P
    BY <2>1
  <2> QED
    BY <1>2, <1>5, <2>2 DEF TypeOK
<1> HIDE DEF P, box
<1>7. /\ rbox' \in Seq(Commands)
      /\ \A c : c # <<"stop">> => Count(rbox', c) = Count(box, c)
      /\ ~terminating /\ sockets' = {} => Count(rbox', <<"stop">>) = Count(box, <<"stop">>) + 1
      /\ ~(~terminating /\ sockets' = {}) => Count(rbox', <<"stop">>) = Count(box, <<"stop">>)
  BY <1>4, <1>5, CommandsDistinct, CountAppend
<1>8. TypeOK'
  <2>1. empty_slots' \in 0 .. MaxSockets
    BY <1>3, <1>5, CtxAssumption DEF TypeOK
  <2>2. sockets' \subseteq Socket /\ stopped' \subseteq Socket /\ pending' \subseteq Socket
    BY <1>2, <1>5 DEF TypeOK
  <2>3. st' \in [Socket -> {"none", "open", "connecting", "closed", "reaping", "gone"}]
    BY <1>5 DEF TypeOK
  <2> QED
    BY <1>5, <1>6, <1>7, <2>1, <2>2, <2>3 DEF TypeOK
<1>9. Slots'
  <2>1. Inside' = Inside \cup P
    BY <1>2, <1>5 DEF Inside
  <2>2. Cardinality(sockets \cap P) = 0 /\ IsFiniteSet(sockets)
    BY <1>2, FS_EmptySet DEF Slots
  <2>3. IsFiniteSet(sockets') /\ Cardinality(sockets') = Cardinality(sockets) + Cardinality(P)
    <3>1. IsFiniteSet(sockets \cup P) /\
          Cardinality(sockets \cup P) = Cardinality(sockets) + Cardinality(P) - Cardinality(sockets \cap P)
      BY <1>2, <2>2, FS_Union
    <3> QED
      BY <1>3, <1>5, <2>2, <3>1, Reaped
  <2> QED
    BY <1>3, <1>5, <2>1, <2>3, Reaped, CtxAssumption DEF Slots, TypeOK
<1>10. Mailed'
  <2>1. Reaping' = Reaping
    BY <1>2, <1>5 DEF Reaping
  <2>2. \A s \in Socket : Count(rbox', <<"reap", s>>) = One(st'[s] = "closed")
    <3> TAKE s \in Socket
    <3>1. Count(rbox', <<"reap", s>>) = Count(box, <<"reap", s>>)
      BY <1>7, CommandsDistinct
    <3>2. CASE s \in P
      <4>1. Count(rbox, <<"reap", s>>) = 0 /\ st'[s] = "closed"
        BY <1>2, <1>5, <3>2 DEF Mailed, One
      <4> QED
        BY <1>4, <3>1, <3>2, <4>1 DEF One
    <3>3. CASE s \notin P
      BY <1>4, <1>5, <3>1, <3>3 DEF Mailed
    <3> QED
      BY <3>2, <3>3
  <2>3. Count(rbox', <<"reaped">>) = Count(rbox, <<"reaped">>)
    BY <1>4, <1>7, CommandsDistinct
  <2>4. Count(rbox', <<"stop">>) + One(reaper'.terminating) = One(terminating' /\ sockets' = {})
    <3>1. CASE ~terminating
      <4>1. ~reaper.terminating /\ Count(rbox, <<"stop">>) = 0
        BY <3>1, StopMeansEmpty
      <4> QED
        BY <1>4, <1>5, <1>7, <3>1, <4>1 DEF One
    <3>2. CASE terminating
      <4>1. sockets' = {} <=> sockets = {}
        <5>1. sockets = {} => pending = {}
          BY DEF Slots
        <5>2. pending = {} => Cardinality(P) = 0
          BY <1>3, FS_EmptySet
        <5>3. Cardinality(P) = 0 => P = {}
          BY <1>2, FS_EmptySet
        <5> QED
          BY <1>5, <5>1, <5>2, <5>3
      <4>2. Count(rbox', <<"stop">>) = Count(rbox, <<"stop">>)
        BY <1>4, <1>7, <3>2
      <4>3. (terminating' /\ sockets' = {}) <=> (terminating /\ sockets = {})
        BY <1>5, <3>2, <4>1
      <4> QED
        BY <1>5, <4>2, <4>3 DEF Mailed, One
    <3> QED
      BY <3>1, <3>2 DEF TypeOK
  <2> QED
    BY <1>5, <2>1, <2>2, <2>3, <2>4 DEF Mailed
<1>11. Ended'
  <2>1. ~reaper.running => rbox' = <<>>
    <3> SUFFICES ASSUME ~reaper.running PROVE rbox' = <<>>
      OBVIOUS
    <3>1. rbox = <<>> /\ sockets = {} /\ terminating
      BY StopMeansEmpty DEF Ended
    <3>2. Cardinality(P) = 0
      BY <1>3, <3>1, FS_EmptySet DEF Slots
    <3>3. P = {}
      BY <1>2, <3>2, FS_EmptySet
    <3>4. \A c \in Commands : Count(rbox', c) = 0
      <4>1. \A c : Count(rbox, c) = 0
        BY <3>1, CountNone
      <4> QED
        BY <1>4, <1>7, <3>1, <3>3, <4>1, CommandsDistinct
    <3> QED
      BY <1>7, <3>4, CountAllNone
  <2> QED
    BY <1>5, <2>1 DEF Ended, One
<1> QED
  BY <1>8, <1>9, <1>10, <1>11
-----------------------------------------------------------------------------
(* The reaper's steps. *)
LEMMA ReapIInv ==
  ASSUME IInv, NEW s \in Socket, process_reap(s)
  PROVE  IInv'
<1> USE DEF IInv
<1>0. /\ reaper.running /\ rbox # <<>> /\ Head(rbox) = <<"reap", s>> /\ rbox' = Tail(rbox)
      /\ reaper' = [reaper EXCEPT !.sockets = @ + 1]
      /\ st' = [st EXCEPT ![s] = "reaping"]
      /\ bound' = (IF bound = s THEN NULL ELSE bound)
      /\ UNCHANGED <<starting, terminating, sockets, empty_slots, stopped, pending, done,
                     term, interrupts>>
  BY DEF process_reap, Reaper
<1>a. /\ rbox' \in Seq(Commands)
      /\ Count(rbox', <<"reap", s>>) = Count(rbox, <<"reap", s>>) - 1
      /\ \A c : c # <<"reap", s>> => Count(rbox', c) = Count(rbox, c)
  BY <1>0, CountTail DEF TypeOK
<1>b. st[s] = "closed" /\ Count(rbox, <<"reap", s>>) = 1
  <2>1. Count(rbox', <<"reap", s>>) \in Nat /\ Count(rbox, <<"reap", s>>) \in Nat
    BY <1>a, CountType, Reaped
  <2>2. Count(rbox, <<"reap", s>>) = One(st[s] = "closed")
    BY DEF Mailed
  <2> QED
    BY <1>a, <2>1, <2>2 DEF One
<1>c. /\ reaper'.sockets = reaper.sockets + 1 /\ reaper'.terminating = reaper.terminating
      /\ reaper'.running = reaper.running /\ reaper'.busy = reaper.busy
      /\ reaper' \in [sockets: Nat, terminating: BOOLEAN, running: BOOLEAN, busy: Socket \cup {NULL}]
  <2>1. reaper \in [sockets: Nat, terminating: BOOLEAN, running: BOOLEAN, busy: Socket \cup {NULL}]
    BY DEF TypeOK
  <2>2. reaper.sockets + 1 \in Nat
    BY <2>1
  <2> QED
    BY <1>0, <2>1, <2>2
<1>1. TypeOK'
  BY <1>0, <1>a, <1>c DEF TypeOK
<1>2. Slots'
  <2>1. Inside' = Inside
    BY <1>0, <1>b DEF Inside, TypeOK
  <2> QED
    BY <1>0, <2>1 DEF Slots
<1>3. Mailed'
  <2>1. Reaping' = Reaping \cup {s} /\ s \notin Reaping
    BY <1>0, <1>b DEF Reaping, TypeOK
  <2>2. Cardinality(Reaping') = Cardinality(Reaping) + 1
    BY <2>1, Reaped, FS_AddElement
  <2>3. \A t \in Socket : Count(rbox', <<"reap", t>>) = One(st'[t] = "closed")
    <3> TAKE t \in Socket
    <3>1. CASE t = s
      <4>1. st'[t] = "reaping"
        BY <1>0, <3>1 DEF TypeOK
      <4> QED
        BY <1>a, <1>b, <3>1, <4>1 DEF One
    <3>2. CASE t # s
      <4>1. <<"reap", t>> # <<"reap", s>>
        BY <3>2, CommandsDistinct
      <4>2. Count(rbox', <<"reap", t>>) = Count(rbox, <<"reap", t>>) /\ st'[t] = st[t]
        BY <1>0, <1>a, <3>2, <4>1 DEF TypeOK
      <4> QED
        BY <4>2 DEF Mailed
    <3> QED
      BY <3>1, <3>2
  <2>4. Count(rbox', <<"stop">>) = Count(rbox, <<"stop">>)
        /\ Count(rbox', <<"reaped">>) = Count(rbox, <<"reaped">>)
    BY <1>a, CommandsDistinct
  <2>5. reaper'.sockets = Cardinality(Reaping') + Count(rbox', <<"reaped">>) + One(reaper'.busy # NULL)
    BY <1>c, <2>2, <2>4, Reaped DEF Mailed, One
  <2> QED
    BY <1>0, <1>c, <2>3, <2>4, <2>5 DEF Mailed
<1>4. Ended'
  BY <1>0, <1>c DEF Ended
<1> QED
  BY <1>1, <1>2, <1>3, <1>4

LEMMA DestroyIInv ==
  ASSUME IInv, NEW s \in Socket, destroy_socket(s)
  PROVE  IInv'
<1> USE DEF IInv
<1>0. /\ reaper.running /\ reaper.busy = NULL /\ st[s] = "reaping" /\ s \notin pending
      /\ empty_slots' = empty_slots + 1 /\ sockets' = sockets \ {s}
      /\ st' = [st EXCEPT ![s] = "gone"]
      /\ reaper' = [reaper EXCEPT !.busy = s]
      /\ rbox' = IF terminating /\ sockets' = {} THEN Append(rbox, <<"stop">>) ELSE rbox
      /\ UNCHANGED <<starting, terminating, stopped, bound, pending, done, term, interrupts>>
  BY DEF destroy_socket
<1>a. /\ rbox' \in Seq(Commands)
      /\ \A c : c # <<"stop">> => Count(rbox', c) = Count(rbox, c)
      /\ terminating /\ sockets' = {} => Count(rbox', <<"stop">>) = Count(rbox, <<"stop">>) + 1
      /\ ~(terminating /\ sockets' = {}) => Count(rbox', <<"stop">>) = Count(rbox, <<"stop">>)
  BY <1>0, CommandsDistinct, CountAppend DEF TypeOK
<1>b. s \in sockets /\ Cardinality(sockets) # 0
  <2>1. s \in sockets
    BY <1>0 DEF Slots, Inside
  <2> QED
    BY <2>1, FS_EmptySet DEF Slots
<1>c. /\ reaper'.sockets = reaper.sockets /\ reaper'.terminating = reaper.terminating
      /\ reaper'.running = reaper.running /\ reaper'.busy = s /\ s # NULL
      /\ reaper' \in [sockets: Nat, terminating: BOOLEAN, running: BOOLEAN, busy: Socket \cup {NULL}]
  BY <1>0, CtxAssumption DEF TypeOK
<1>d. Cardinality(sockets') = Cardinality(sockets) - 1 /\ IsFiniteSet(sockets')
  BY <1>0, <1>b, FS_RemoveElement DEF Slots
<1>1. TypeOK'
  <2>1. empty_slots' \in 0 .. MaxSockets
    BY <1>0, <1>b, Reaped, CtxAssumption DEF TypeOK, Slots
  <2> QED
    BY <1>0, <1>a, <1>c, <2>1 DEF TypeOK
<1>2. Slots'
  <2>1. Inside' = Inside \ {s}
    BY <1>0 DEF Inside, TypeOK
  <2> QED
    BY <1>0, <1>d, <2>1, Reaped, CtxAssumption DEF Slots, TypeOK
<1>3. Mailed'
  <2>1. Reaping' = Reaping \ {s} /\ s \in Reaping
    BY <1>0 DEF Reaping, TypeOK
  <2>2. Cardinality(Reaping') = Cardinality(Reaping) - 1
    BY <2>1, Reaped, FS_RemoveElement
  <2>3. \A t \in Socket : (st'[t] = "closed") = (st[t] = "closed")
    BY <1>0 DEF TypeOK
  <2>4. Count(rbox', <<"reaped">>) = Count(rbox, <<"reaped">>)
        /\ \A t \in Socket : Count(rbox', <<"reap", t>>) = Count(rbox, <<"reap", t>>)
    BY <1>a, CommandsDistinct
  <2>5. reaper'.sockets = Cardinality(Reaping') + Count(rbox', <<"reaped">>) + One(reaper'.busy # NULL)
    <3>1. reaper.sockets = Cardinality(Reaping) + Count(rbox, <<"reaped">>)
      BY <1>0, Reaped DEF Mailed, One
    <3>2. One(reaper'.busy # NULL) = 1
      BY <1>c DEF One
    <3> QED
      BY <1>c, <2>2, <2>4, <3>1, <3>2, Reaped
  <2>6. ~reaper.terminating /\ Count(rbox, <<"stop">>) = 0
    BY <1>b, StopMeansEmpty
  <2>7. Count(rbox', <<"stop">>) + One(reaper'.terminating) = One(terminating' /\ sockets' = {})
    BY <1>0, <1>a, <1>c, <2>6 DEF One
  <2> QED
    BY <2>3, <2>4, <2>5, <2>7 DEF Mailed
<1>4. Ended'
  BY <1>0, <1>c DEF Ended
<1> QED
  BY <1>1, <1>2, <1>3, <1>4

LEMMA SendReapedIInv ==
  ASSUME IInv, SendReaped
  PROVE  IInv'
<1> USE DEF IInv
<1>0. /\ reaper.busy # NULL
      /\ reaper' = [reaper EXCEPT !.busy = NULL]
      /\ rbox' = Append(rbox, <<"reaped">>)
      /\ UNCHANGED <<starting, terminating, sockets, empty_slots, st, stopped, bound,
                     pending, done, term, interrupts>>
  BY DEF SendReaped
<1>a. /\ rbox' \in Seq(Commands)
      /\ \A c : c # <<"reaped">> => Count(rbox', c) = Count(rbox, c)
      /\ Count(rbox', <<"reaped">>) = Count(rbox, <<"reaped">>) + 1
  BY <1>0, CommandsDistinct, CountAppend DEF TypeOK
<1>c. /\ reaper'.sockets = reaper.sockets /\ reaper'.terminating = reaper.terminating
      /\ reaper'.running = reaper.running /\ reaper'.busy = NULL
      /\ reaper' \in [sockets: Nat, terminating: BOOLEAN, running: BOOLEAN, busy: Socket \cup {NULL}]
  BY <1>0 DEF TypeOK
<1>1. TypeOK'
  BY <1>0, <1>a, <1>c DEF TypeOK
<1>2. Slots'
  BY <1>0 DEF Slots, Inside
<1>3. Mailed'
  <2>1. Reaping' = Reaping
    BY <1>0 DEF Reaping
  <2>2. Count(rbox', <<"stop">>) = Count(rbox, <<"stop">>)
        /\ \A t \in Socket : Count(rbox', <<"reap", t>>) = Count(rbox, <<"reap", t>>)
    BY <1>a, CommandsDistinct
  <2>3. reaper'.sockets = Cardinality(Reaping') + Count(rbox', <<"reaped">>) + One(reaper'.busy # NULL)
    BY <1>0, <1>a, <1>c, <2>1, Reaped DEF Mailed, One
  <2> QED
    BY <1>0, <1>c, <2>2, <2>3 DEF Mailed
<1>4. Ended'
  <2>1. reaper.sockets # 0
    BY <1>0, Reaped DEF Mailed, One
  <2> QED
    BY <1>0, <1>c, <2>1 DEF Ended
<1> QED
  BY <1>1, <1>2, <1>3, <1>4

(* What the reaper has left when it was told to stop and counts nothing.   *)
LEMMA NothingLeft ==
  ASSUME NEW box \in Seq(Commands), Count(box, <<"stop">>) = 0, Count(box, <<"reaped">>) = 0,
         \A s \in Socket : Count(box, <<"reap", s>>) = 0
  PROVE  box = <<>>
BY CommandsDistinct, CountAllNone

LEMMA ReapedIInv ==
  ASSUME IInv, process_reaped
  PROVE  IInv'
<1> USE DEF IInv
<1> DEFINE r == [reaper EXCEPT !.sockets = @ - 1]
<1>0. /\ reaper.running /\ reaper.busy = NULL
      /\ rbox # <<>> /\ Head(rbox) = <<"reaped">> /\ rbox' = Tail(rbox)
      /\ Finish(r)
      /\ UNCHANGED <<starting, terminating, sockets, empty_slots, st, stopped, bound,
                     pending, term, interrupts>>
  BY DEF process_reaped, Reaper
<1>a. /\ rbox' \in Seq(Commands)
      /\ \A c : c # <<"reaped">> => Count(rbox', c) = Count(rbox, c)
      /\ Count(rbox', <<"reaped">>) = Count(rbox, <<"reaped">>) - 1
  <2>1. rbox \in Seq(Commands) /\ rbox # <<>> /\ Head(rbox) = <<"reaped">> /\ rbox' = Tail(rbox)
    BY <1>0 DEF TypeOK
  <2> HIDE DEF r
  <2> QED
    BY <2>1, CountTail
<1>b. Count(rbox', <<"reaped">>) \in Nat
  BY <1>a, CountType
<1>c. reaper.sockets = Cardinality(Reaping) + Count(rbox, <<"reaped">>) /\ reaper.sockets > 0
  BY <1>0, <1>a, <1>b, Reaped DEF Mailed, One
<1>d. /\ r.sockets = reaper.sockets - 1 /\ r.terminating = reaper.terminating
      /\ r.running = TRUE /\ r.busy = NULL
      /\ r \in [sockets: Nat, terminating: BOOLEAN, running: BOOLEAN, busy: Socket \cup {NULL}]
  <2>1. reaper \in [sockets: Nat, terminating: BOOLEAN, running: BOOLEAN, busy: Socket \cup {NULL}]
    BY DEF TypeOK
  <2>2. reaper.sockets - 1 \in Nat
    BY <1>c, <2>1
  <2> QED
    BY <1>0, <2>1, <2>2
<1>e. /\ reaper'.sockets = reaper.sockets - 1 /\ reaper'.terminating = reaper.terminating
      /\ reaper'.busy = NULL
      /\ reaper'.running = ~(reaper.terminating /\ reaper'.sockets = 0)
      /\ done' = (IF reaper'.running THEN done ELSE done + 1)
      /\ reaper' \in [sockets: Nat, terminating: BOOLEAN, running: BOOLEAN, busy: Socket \cup {NULL}]
  <2>1. CASE r.terminating /\ r.sockets = 0
    <3>1. reaper' = [r EXCEPT !.running = FALSE] /\ done' = done + 1
      BY <1>0, <2>1 DEF Finish
    <3> QED
      BY <1>d, <2>1, <3>1
  <2>2. CASE ~(r.terminating /\ r.sockets = 0)
    <3>1. reaper' = r /\ done' = done
      BY <1>0, <2>2 DEF Finish
    <3> QED
      BY <1>d, <2>2, <3>1
  <2> QED
    BY <2>1, <2>2
<1> HIDE DEF r
<1>1. TypeOK'
  <2>1. done' \in Nat
    BY <1>e DEF TypeOK
  <2> QED
    BY <1>0, <1>a, <1>e, <2>1 DEF TypeOK
<1>2. Slots'
  BY <1>0 DEF Slots, Inside
<1>3. Mailed'
  <2>1. Reaping' = Reaping
    BY <1>0 DEF Reaping
  <2>2. Count(rbox', <<"stop">>) = Count(rbox, <<"stop">>)
        /\ \A t \in Socket : Count(rbox', <<"reap", t>>) = Count(rbox, <<"reap", t>>)
    BY <1>a, CommandsDistinct
  <2>3. reaper'.sockets = Cardinality(Reaping') + Count(rbox', <<"reaped">>) + One(reaper'.busy # NULL)
    BY <1>a, <1>c, <1>e, <2>1, Reaped DEF One
  <2> QED
    BY <1>0, <1>e, <2>2, <2>3 DEF Mailed
<1>4. Ended'
  <2>1. CASE reaper'.running
    BY <1>0, <1>e, <2>1 DEF Ended, One
  <2>2. CASE ~reaper'.running
    <3>1. reaper.terminating /\ reaper'.sockets = 0
      BY <1>e, <2>2
    <3>2. sockets = {} /\ terminating /\ Count(rbox, <<"stop">>) = 0
      BY <3>1, StopMeansEmpty
    <3>3. \A s \in Socket : Count(rbox', <<"reap", s>>) = 0
      <4> TAKE s \in Socket
      <4>1. st[s] # "closed"
        BY <3>2 DEF Slots, Inside
      <4> QED
        BY <1>a, <4>1, CommandsDistinct DEF Mailed, One
    <3>4. Count(rbox', <<"reaped">>) = 0 /\ Count(rbox', <<"stop">>) = 0
      BY <1>a, <1>b, <1>c, <1>e, <3>1, <3>2, Reaped, CommandsDistinct
    <3>5. rbox' = <<>>
      BY <1>a, <3>3, <3>4, NothingLeft
    <3>6. ~starting /\ done = 0 /\ term # "returned"
      BY <1>0, <3>2 DEF Ended, One
    <3> QED
      BY <1>0, <1>e, <2>2, <3>1, <3>5, <3>6 DEF Ended, One
  <2> QED
    BY <2>1, <2>2
<1> QED
  BY <1>1, <1>2, <1>3, <1>4

LEMMA StopIInv ==
  ASSUME IInv, process_stop
  PROVE  IInv'
<1> USE DEF IInv
<1> DEFINE r == [reaper EXCEPT !.terminating = TRUE]
<1>0. /\ reaper.running /\ reaper.busy = NULL
      /\ rbox # <<>> /\ Head(rbox) = <<"stop">> /\ rbox' = Tail(rbox)
      /\ Finish(r)
      /\ UNCHANGED <<starting, terminating, sockets, empty_slots, st, stopped, bound,
                     pending, term, interrupts>>
  BY DEF process_stop, Reaper
<1>a. /\ rbox' \in Seq(Commands)
      /\ \A c : c # <<"stop">> => Count(rbox', c) = Count(rbox, c)
      /\ Count(rbox', <<"stop">>) = Count(rbox, <<"stop">>) - 1
  <2>1. rbox \in Seq(Commands) /\ rbox # <<>> /\ Head(rbox) = <<"stop">> /\ rbox' = Tail(rbox)
    BY <1>0 DEF TypeOK
  <2> HIDE DEF r
  <2> QED
    BY <2>1, CountTail
<1>b. Count(rbox', <<"stop">>) \in Nat
  BY <1>a, CountType
<1>c. sockets = {} /\ terminating /\ ~reaper.terminating /\ Count(rbox', <<"stop">>) = 0
  <2>1. Count(rbox, <<"stop">>) # 0 /\ Count(rbox, <<"stop">>) \in Nat
    BY <1>a, <1>b, Reaped
  <2>2. sockets = {} /\ terminating /\ ~reaper.terminating
    BY <2>1, StopMeansEmpty
  <2>3. Count(rbox, <<"stop">>) = 1
    BY <2>1, <2>2 DEF Mailed, One
  <2> QED
    BY <1>a, <2>2, <2>3
<1>d. /\ r.sockets = reaper.sockets /\ r.terminating = TRUE
      /\ r.running = TRUE /\ r.busy = NULL
      /\ r \in [sockets: Nat, terminating: BOOLEAN, running: BOOLEAN, busy: Socket \cup {NULL}]
  BY <1>0 DEF TypeOK
<1>e. /\ reaper'.sockets = reaper.sockets /\ reaper'.terminating = TRUE
      /\ reaper'.busy = NULL
      /\ reaper'.running = (reaper'.sockets # 0)
      /\ done' = (IF reaper'.running THEN done ELSE done + 1)
      /\ reaper' \in [sockets: Nat, terminating: BOOLEAN, running: BOOLEAN, busy: Socket \cup {NULL}]
  <2>1. CASE r.sockets = 0
    <3>1. reaper' = [r EXCEPT !.running = FALSE] /\ done' = done + 1
      BY <1>0, <1>d, <2>1 DEF Finish
    <3> QED
      BY <1>d, <2>1, <3>1
  <2>2. CASE r.sockets # 0
    <3>1. reaper' = r /\ done' = done
      BY <1>0, <2>2 DEF Finish
    <3> QED
      BY <1>d, <2>2, <3>1
  <2> QED
    BY <2>1, <2>2
<1> HIDE DEF r
<1>1. TypeOK'
  <2>1. done' \in Nat
    BY <1>e DEF TypeOK
  <2> QED
    BY <1>0, <1>a, <1>e, <2>1 DEF TypeOK
<1>2. Slots'
  BY <1>0 DEF Slots, Inside
<1>3. Mailed'
  <2>1. Reaping' = Reaping
    BY <1>0 DEF Reaping
  <2>2. Count(rbox', <<"reaped">>) = Count(rbox, <<"reaped">>)
        /\ \A t \in Socket : Count(rbox', <<"reap", t>>) = Count(rbox, <<"reap", t>>)
    BY <1>a, CommandsDistinct
  <2>3. Count(rbox', <<"stop">>) + One(reaper'.terminating) = One(terminating' /\ sockets' = {})
    BY <1>0, <1>c, <1>e DEF One
  <2> QED
    BY <1>0, <1>e, <2>1, <2>2, <2>3 DEF Mailed
<1>4. Ended'
  <2>1. CASE reaper'.running
    BY <1>0, <1>e, <2>1 DEF Ended, One
  <2>2. CASE ~reaper'.running
    <3>1. reaper.sockets = 0
      BY <1>e, <2>2
    <3>2. \A s \in Socket : Count(rbox', <<"reap", s>>) = 0
      <4> TAKE s \in Socket
      <4>1. st[s] # "closed"
        BY <1>c DEF Slots, Inside
      <4> QED
        BY <1>a, <4>1, CommandsDistinct DEF Mailed, One
    <3>3. Count(rbox', <<"reaped">>) = 0
      <4>1. Count(rbox, <<"reaped">>) = 0
        BY <1>0, <3>1, Reaped DEF Mailed, One
      <4> QED
        BY <1>a, <4>1, CommandsDistinct
    <3>4. rbox' = <<>>
      BY <1>a, <1>c, <3>2, <3>3, NothingLeft
    <3>5. ~starting /\ done = 0 /\ term # "returned"
      BY <1>0, <1>c DEF Ended, One
    <3> QED
      BY <1>0, <1>e, <2>2, <3>1, <3>4, <3>5 DEF Ended, One
  <2> QED
    BY <2>1, <2>2
<1> QED
  BY <1>1, <1>2, <1>3, <1>4
-----------------------------------------------------------------------------
LEMMA StutterIInv == IInv /\ UNCHANGED vars => IInv'
<1> SUFFICES ASSUME IInv, UNCHANGED vars PROVE IInv'
  OBVIOUS
<1> USE DEF IInv, vars
<1>1. TypeOK'
  BY DEF TypeOK
<1>2. Slots'
  BY DEF Slots, Inside
<1>3. Mailed'
  BY DEF Mailed, Reaping
<1>4. Ended'
  BY DEF Ended
<1> QED
  BY <1>1, <1>2, <1>3, <1>4

(* The inductive invariant of a context: its slots are its sockets, the    *)
(* reaper's mailbox and its counter agree with the sockets' lives, and     *)
(* stop is sent once (ctx_t and reaper_t).                                 *)
THEOREM CtxInvariant == Spec => []IInv
<1>1. IInv /\ [Next]_vars => IInv'
  <2> SUFFICES ASSUME IInv, [Next]_vars PROVE IInv'
    OBVIOUS
  <2>1. ASSUME NEW s \in App, create_socket(s) PROVE IInv'
    BY <2>1, CreateIInv
  <2>2. ASSUME NEW s \in App, Bind(s) PROVE IInv'
    BY <2>2, BindIInv
  <2>3. ASSUME NEW s \in App, ConnectFind(s) \/ pend_connection(s) PROVE IInv'
    BY <2>3, ConnectIInv
  <2>4. ASSUME NEW s \in App, close(s) PROVE IInv'
    BY <2>4, CloseIInv
  <2>5. CASE terminate
    BY <2>5, TerminateIInv
  <2>6. CASE TerminateAborts \/ TerminateUnused \/ TerminateReturns \/ TerminateInterrupted
    BY <2>6, TermIInv
  <2>7. CASE shutdown
    BY <2>7, ShutdownIInv
  <2>8. CASE ReaperStep
    BY <2>8, ReapIInv, DestroyIInv, SendReapedIInv, ReapedIInv, StopIInv DEF ReaperStep
  <2>9. CASE UNCHANGED vars
    BY <2>9, StutterIInv
  <2> QED
    BY <2>1, <2>2, <2>3, <2>4, <2>5, <2>6, <2>7, <2>8, <2>9 DEF Next
<1> QED
  BY InitIInv, <1>1, PTL DEF Spec

(* When the reaper's thread ends, no command, no socket and no pending     *)
(* connection is left (reaper_t::process_stop, process_reaped).            *)
THEOREM CtxReaperStopsLast == Spec => []ReaperStopsLast
<1>1. IInv => ReaperStopsLast
  <2> SUFFICES ASSUME IInv, ~reaper.running
               PROVE  /\ rbox = <<>> /\ sockets = {} /\ pending = {}
                      /\ reaper.sockets = 0 /\ reaper.busy = NULL /\ terminating
    BY DEF IInv, ReaperStopsLast
  <2>1. rbox = <<>> /\ reaper.terminating /\ reaper.sockets = 0
    BY DEF IInv, Ended
  <2>2. sockets = {} /\ terminating /\ pending = {}
    BY <2>1, StopMeansEmpty DEF IInv, Slots
  <2>3. reaper.busy = NULL
    BY <2>1, Reaped DEF IInv, Mailed, One
  <2> QED
    BY <2>1, <2>2, <2>3
<1> QED
  BY CtxInvariant, <1>1, PTL

(* A context that zmq_ctx_term has deleted is used by nobody.              *)
THEOREM CtxDeletedUnused == Spec => []DeletedUnused
<1>1. IInv => DeletedUnused
  <2> SUFFICES ASSUME IInv, term = "returned", ~starting
               PROVE  /\ ~reaper.running /\ done = 0
                      /\ \A s \in Socket : st[s] \in {"none", "gone"}
    BY DEF DeletedUnused
  <2>1. ~reaper.running /\ done = 0
    BY DEF IInv, Ended, One, TypeOK
  <2>2. sockets = {}
    BY <2>1, StopMeansEmpty DEF IInv, Ended
  <2> QED
    BY <2>1, <2>2 DEF IInv, Slots, Inside, TypeOK
<1> QED
  BY CtxInvariant, <1>1, PTL
=============================================================================
