--------------------------- MODULE MailboxProofs ---------------------------
(***************************************************************************)
(* Proofs about Mailbox for every set of senders and every number of       *)
(* commands: the inductive invariant IInv, step by step.                   *)
(***************************************************************************)
EXTENDS Mailbox, SequenceTheorems, TLAPS

LEMMA InitInvariant == Init => IInv
<1> SUFFICES ASSUME Init PROVE IInv
  OBVIOUS
<1>1. cpipe \in Seq(Command) /\ Len(cpipe) = 0
  BY EmptySeq DEF Init
<1>2. TypeOK
  <2>1. sent \in [Sender -> 0 .. MaxSend] /\ received \in [Sender -> 0 .. MaxSend]
    BY MailboxAssumption DEF Init
  <2>2. ok \in [Sender -> BOOLEAN] /\ asleep \in BOOLEAN /\ active \in BOOLEAN
    BY Zenon DEF Init
  <2> QED
    BY <1>1, <2>1, <2>2 DEF Init, TypeOK
<1>3. Mutex
  BY MailboxAssumption DEF Init, Mutex, Free
<1>5. OneSignal /\ Passive
  <2>1. \A s \in Sender : ~Owes(s)
    BY DEF Init, Owes
  <2> QED
    BY <2>1 DEF Init, OneSignal, Passive
<1>4. InTransit /\ Finishing
  BY <1>1 DEF Init, InTransit, Finishing
<1> QED
  BY <1>2, <1>3, <1>4, <1>5 DEF IInv

LEMMA LockInvariant == ASSUME IInv, NEW s \in Sender, Lock(s) PROVE IInv'
<1>1. TypeOK'
  BY DEF IInv, TypeOK, Lock
<1>2. Mutex'
  BY MailboxAssumption DEF IInv, TypeOK, Mutex, Lock, Free
<1>3. OneSignal' /\ Passive'
  BY DEF IInv, TypeOK, OneSignal, Passive, Owes, Lock
<1>4. InTransit'
  BY DEF IInv, InTransit, Lock
<1>5. Finishing'
  BY MailboxAssumption DEF IInv, TypeOK, Finishing, InTransit, InSend, Lock
<1> QED
  BY <1>1, <1>2, <1>3, <1>4, <1>5 DEF IInv

LEMMA WriteAndFlushInvariant ==
  ASSUME IInv, NEW s \in Sender, WriteAndFlush(s)
  PROVE  IInv'
<1> DEFINE n == sent[s] + 1
<1>1. pc[s] = "locked" /\ sync = s /\ n \in 1 .. MaxSend /\ sent'[s] = n
  BY MailboxAssumption DEF IInv, TypeOK, Mutex, Finishing, WriteAndFlush
<1>2. /\ cpipe' \in Seq(Command)
      /\ Len(cpipe') = Len(cpipe) + 1
      /\ \A i \in 1 .. Len(cpipe) : cpipe'[i] = cpipe[i]
      /\ cpipe'[Len(cpipe) + 1] = <<s, n>>
      /\ Len(cpipe) \in Nat
  <2>1. cpipe' = Append(cpipe, <<s, n>>) /\ <<s, n>> \in Command /\ cpipe \in Seq(Command)
    BY <1>1 DEF IInv, TypeOK, WriteAndFlush, Command
  <2> QED
    BY <2>1, AppendProperties
<1>3. TypeOK'
  <2>1. ok' \in [Sender -> BOOLEAN]
    BY Zenon DEF IInv, TypeOK, WriteAndFlush
  <2>2. asleep' \in BOOLEAN
    BY Zenon DEF WriteAndFlush
  <2>3. sent' \in [Sender -> 0 .. MaxSend]
    BY <1>1, MailboxAssumption DEF IInv, TypeOK, WriteAndFlush
  <2> QED
    BY <1>2, <2>1, <2>2, <2>3 DEF IInv, TypeOK, WriteAndFlush
<1>4. Mutex'
  BY DEF IInv, TypeOK, Mutex, WriteAndFlush
<1>5. cpipe' # <<>>
  BY <1>2
<1>6. OneSignal' /\ Passive'
  <2>1. /\ Owes(s)' <=> asleep
        /\ \A t \in Sender : t # s => (Owes(t)' <=> Owes(t))
        /\ ~Owes(s)
    <3>1. ok'[s] = ~asleep /\ \A t \in Sender : t # s => ok'[t] = ok[t]
      BY Zenon DEF IInv, TypeOK, WriteAndFlush
    <3> QED
      BY <1>1, <3>1 DEF IInv, TypeOK, Owes, WriteAndFlush
  <2>2. ~asleep' /\ UNCHANGED <<signals, active, rpc>> /\ rpc \in {"out", "wait", "signal", "get", "destroy", "dead"}
    BY DEF IInv, TypeOK, WriteAndFlush
  <2>3. OneSignal'
    BY <2>1, <2>2 DEF IInv, OneSignal, Passive
  <2>4. Passive'
    BY <1>5, <2>1, <2>2 DEF IInv, OneSignal, Passive
  <2> QED
    BY <2>3, <2>4
<1>7. InTransit'
  <2>1. /\ sent'[s] = n /\ sent[s] = n - 1 /\ received' = received
        /\ \A t \in Sender : t # s => sent'[t] = sent[t]
        /\ \A t \in Sender : sent[t] \in Nat /\ received[t] \in Nat
    BY <1>1, MailboxAssumption DEF IInv, TypeOK, WriteAndFlush
  <2>2. \A i \in 1 .. Len(cpipe) : cpipe[i][1] \in Sender /\ cpipe[i][2] \in Nat
    <3>1. \A i \in 1 .. Len(cpipe) : cpipe[i] \in Command
      BY ElementOfSeq DEF IInv, TypeOK
    <3> QED
      BY <3>1 DEF Command
  <2>3. ASSUME NEW i \in 1 .. Len(cpipe')
        PROVE  /\ received'[cpipe'[i][1]] < cpipe'[i][2]
               /\ cpipe'[i][2] <= sent'[cpipe'[i][1]]
    <3>1. CASE i = Len(cpipe) + 1
      BY <1>2, <2>1, <3>1 DEF IInv, InTransit
    <3>2. CASE i \in 1 .. Len(cpipe)
      BY SMTT(30), <1>2, <2>1, <2>2, <3>2 DEF IInv, InTransit
    <3> QED
      BY <1>2, <3>1, <3>2
  <2>4. ASSUME NEW i \in 1 .. Len(cpipe'), NEW j \in 1 .. Len(cpipe'),
               i < j, cpipe'[i][1] = cpipe'[j][1]
        PROVE  cpipe'[i][2] < cpipe'[j][2]
    <3>1. i \in 1 .. Len(cpipe) /\ cpipe'[i] = cpipe[i]
      BY <1>2, <2>4
    <3>2. CASE j = Len(cpipe) + 1
      BY <1>2, <2>1, <2>2, <2>4, <3>1, <3>2 DEF IInv, InTransit
    <3>3. CASE j \in 1 .. Len(cpipe)
      BY <1>2, <2>4, <3>1, <3>3 DEF IInv, InTransit
    <3> QED
      BY <1>2, <3>2, <3>3
  <2>5. ASSUME NEW t \in Sender, NEW k \in received'[t] + 1 .. sent'[t]
        PROVE  \E i \in 1 .. Len(cpipe') : cpipe'[i] = <<t, k>>
    <3>1. CASE t = s /\ k = n
      BY <1>2, <3>1
    <3>2. CASE ~(t = s /\ k = n)
      <4>1. k \in received[t] + 1 .. sent[t]
        BY <2>1, <3>2
      <4>2. PICK i \in 1 .. Len(cpipe) : cpipe[i] = <<t, k>>
        BY <4>1 DEF IInv, InTransit
      <4>3. i \in 1 .. Len(cpipe') /\ cpipe'[i] = <<t, k>>
        BY <1>2, <4>2
      <4> QED
        BY <4>3
    <3> QED
      BY <3>1, <3>2
  <2>6. \A t \in Sender : received'[t] <= sent'[t]
    BY <2>1 DEF IInv, InTransit
  <2> QED
    BY <2>3, <2>4, <2>5, <2>6 DEF InTransit
<1>8. Finishing'
  BY <1>1 DEF IInv, TypeOK, Finishing, InSend, WriteAndFlush
<1> QED
  BY <1>3, <1>4, <1>6, <1>7, <1>8 DEF IInv

LEMMA UnlockInvariant == ASSUME IInv, NEW s \in Sender, Unlock(s) PROVE IInv'
<1>1. TypeOK'
  BY DEF IInv, TypeOK, Unlock
<1>2. Mutex'
  BY MailboxAssumption DEF IInv, TypeOK, Mutex, Unlock, Free
<1>3. OneSignal' /\ Passive'
  BY DEF IInv, TypeOK, OneSignal, Passive, Owes, Unlock
<1>4. InTransit'
  BY DEF IInv, InTransit, Unlock
<1>5. Finishing'
  BY DEF IInv, TypeOK, Finishing, InSend, Unlock
<1> QED
  BY <1>1, <1>2, <1>3, <1>4, <1>5 DEF IInv

LEMMA SignalInvariant == ASSUME IInv, NEW s \in Sender, Signal(s) PROVE IInv'
<1>1. TypeOK'
  BY DEF IInv, TypeOK, Signal
<1>2. Mutex'
  BY DEF IInv, TypeOK, Mutex, Signal
<1>3. OneSignal' /\ Passive'
  BY DEF IInv, TypeOK, OneSignal, Passive, Owes, Signal
<1>4. InTransit'
  BY DEF IInv, InTransit, Signal
<1>5. Finishing'
  BY DEF IInv, TypeOK, Finishing, InSend, Signal
<1> QED
  BY <1>1, <1>2, <1>3, <1>4, <1>5 DEF IInv

(* The command at the head of the pipe is the next one of its sender.      *)
LEMMA HeadIsNext ==
  ASSUME IInv, cpipe # <<>>
  PROVE  /\ Head(cpipe) = cpipe[1]
         /\ cpipe[1][1] \in Sender
         /\ cpipe[1][2] \in 1 .. MaxSend
         /\ cpipe[1][2] = received[cpipe[1][1]] + 1
<1> DEFINE s == cpipe[1][1]
           n == cpipe[1][2]
<1>1. cpipe \in Seq(Command) /\ Len(cpipe) \in Nat /\ Len(cpipe) >= 1 /\ Head(cpipe) = cpipe[1]
  BY EmptySeq DEF IInv, TypeOK
<1>2. cpipe[1] \in Command
  BY <1>1, ElementOfSeq
<1>3. s \in Sender /\ n \in 1 .. MaxSend
  BY <1>2 DEF Command
<1>4. received[s] < n /\ n <= sent[s] /\ received[s] \in Nat /\ sent[s] \in Nat
  BY <1>1, <1>3, MailboxAssumption DEF IInv, TypeOK, InTransit
<1>5. ASSUME n # received[s] + 1 PROVE FALSE
  <2>1. PICK j \in 1 .. Len(cpipe) : cpipe[j] = <<s, received[s] + 1>>
    <3>1. received[s] + 1 \in received[s] + 1 .. sent[s]
      BY <1>3, <1>4
    <3> QED
      BY <1>3, <3>1 DEF IInv, InTransit
  <2>2. j # 1
    BY <1>5, <2>1
  <2>3. 1 \in 1 .. Len(cpipe) /\ 1 < j /\ cpipe[j][1] = s /\ cpipe[j][2] = received[s] + 1
    BY <1>1, <2>1, <2>2
  <2>4. n < received[s] + 1
    BY <2>3 DEF IInv, InTransit
  <2> QED
    BY <1>3, <1>4, <2>4
<1> QED
  BY <1>1, <1>3, <1>5

(* Receiving the head leaves the rest in order. *)
LEMMA ReceiveInTransit ==
  ASSUME IInv, Receive, UNCHANGED <<sent, pc>>
  PROVE  /\ cpipe' \in Seq(Command)
         /\ received' \in [Sender -> 0 .. MaxSend]
         /\ InTransit'
<1> DEFINE s == cpipe[1][1]
           n == cpipe[1][2]
<1>1. /\ s \in Sender /\ n \in 1 .. MaxSend /\ n = received[s] + 1
      /\ received' = [received EXCEPT ![s] = n]
  BY HeadIsNext DEF Receive
<1>2. /\ cpipe' \in Seq(Command) /\ Len(cpipe') \in Nat
      /\ Len(cpipe) = Len(cpipe') + 1
      /\ \A i \in 1 .. Len(cpipe') : cpipe'[i] = cpipe[i + 1]
  <2>1. cpipe \in Seq(Command) /\ cpipe # <<>> /\ cpipe' = Tail(cpipe)
    BY DEF IInv, TypeOK, Receive
  <2> QED
    BY <2>1, HeadTailProperties, EmptySeq
<1>3. received' \in [Sender -> 0 .. MaxSend]
  BY <1>1, MailboxAssumption DEF IInv, TypeOK
<1>4. /\ received'[s] = n
      /\ \A t \in Sender : t # s => received'[t] = received[t]
      /\ sent' = sent
  BY <1>1 DEF IInv, TypeOK
<1>5. ASSUME NEW i \in 1 .. Len(cpipe')
      PROVE  /\ received'[cpipe'[i][1]] < cpipe'[i][2]
             /\ cpipe'[i][2] <= sent'[cpipe'[i][1]]
  <2>1. i + 1 \in 1 .. Len(cpipe) /\ 1 \in 1 .. Len(cpipe) /\ 1 < i + 1 /\ cpipe'[i] = cpipe[i + 1]
    BY <1>2
  <2>2. cpipe[i + 1] \in Command
    BY <2>1, ElementOfSeq DEF IInv, TypeOK
  <2>3. CASE cpipe[i + 1][1] = s
    <3>1. n < cpipe[i + 1][2]
      BY <2>1, <2>3 DEF IInv, InTransit
    <3> QED
      BY <1>4, <2>1, <2>3, <3>1 DEF IInv, InTransit
  <2>4. CASE cpipe[i + 1][1] # s
    BY <1>4, <2>1, <2>2, <2>4 DEF IInv, InTransit, Command
  <2> QED
    BY <2>3, <2>4
<1>6. ASSUME NEW i \in 1 .. Len(cpipe'), NEW j \in 1 .. Len(cpipe'),
             i < j, cpipe'[i][1] = cpipe'[j][1]
      PROVE  cpipe'[i][2] < cpipe'[j][2]
  <2>1. i + 1 \in 1 .. Len(cpipe) /\ j + 1 \in 1 .. Len(cpipe) /\ i + 1 < j + 1
    BY <1>2, <1>6
  <2>2. cpipe'[i] = cpipe[i + 1] /\ cpipe'[j] = cpipe[j + 1]
    BY <1>2
  <2> QED
    BY <1>6, <2>1, <2>2 DEF IInv, InTransit
<1>7. ASSUME NEW t \in Sender, NEW k \in received'[t] + 1 .. sent'[t]
      PROVE  \E i \in 1 .. Len(cpipe') : cpipe'[i] = <<t, k>>
  <2>1. k \in received[t] + 1 .. sent[t] /\ (t = s => k # n)
    BY <1>1, <1>3, <1>4 DEF IInv, TypeOK
  <2>2. PICK i \in 1 .. Len(cpipe) : cpipe[i] = <<t, k>>
    BY <2>1 DEF IInv, InTransit
  <2>3. i # 1
    BY <2>1, <2>2
  <2>4. i - 1 \in 1 .. Len(cpipe') /\ (i - 1) + 1 = i
    BY <1>2, <2>3
  <2>5. cpipe'[i - 1] = cpipe[i]
    BY <1>2, <2>4
  <2> QED
    BY <2>2, <2>4, <2>5
<1>8. ASSUME NEW t \in Sender PROVE received'[t] <= sent'[t]
  <2>1. n <= sent[s]
    BY <1>2, HeadIsNext DEF IInv, InTransit, Receive
  <2> QED
    BY <1>4, <2>1 DEF IInv, InTransit
<1>9. InTransit'
  BY <1>5, <1>6, <1>7, <1>8 DEF InTransit
<1> QED
  BY <1>2, <1>3, <1>9

LEMMA ReceiveInvariant ==
  ASSUME IInv, RecvActive \/ RecvFirst
  PROVE  IInv'
<1>1. Receive /\ UNCHANGED <<sync, pc, ok, sent, asleep, signals, active>>
  BY DEF RecvActive, RecvFirst
<1>2. active /\ rpc \in {"out", "get"}
  BY DEF IInv, Passive, RecvActive, RecvFirst
<1>3. cpipe' \in Seq(Command) /\ received' \in [Sender -> 0 .. MaxSend] /\ InTransit'
  BY <1>1, ReceiveInTransit
<1>4. TypeOK'
  BY <1>1, <1>3 DEF IInv, TypeOK, Receive
<1>5. Mutex'
  BY <1>1, <1>2 DEF IInv, TypeOK, Mutex, Receive
<1>6. OneSignal'
  BY <1>1 DEF IInv, OneSignal, Owes
<1>7. Passive'
  BY <1>1, <1>2 DEF IInv, Passive, Owes, Receive
<1>8. Finishing'
  BY <1>1 DEF IInv, Finishing, Receive
<1> QED
  BY <1>3, <1>4, <1>5, <1>6, <1>7, <1>8 DEF IInv

LEMMA WaitInvariant ==
  ASSUME IInv, RecvEmpty \/ RecvPassive \/ WaitReady \/ WaitFails
  PROVE  IInv'
<1>1. UNCHANGED <<sync, pc, ok, sent, cpipe, signals, received>>
  BY DEF RecvEmpty, RecvPassive, WaitReady, WaitFails
<1>2. rpc \in {"out", "wait"} /\ rpc' \in {"out", "wait", "signal"}
  BY DEF RecvEmpty, RecvPassive, WaitReady, WaitFails
<1>3. TypeOK'
  <2>1. asleep' \in BOOLEAN /\ active' \in BOOLEAN
    BY Zenon DEF IInv, TypeOK, RecvEmpty, RecvPassive, WaitReady, WaitFails
  <2> QED
    BY <1>1, <1>2, <2>1 DEF IInv, TypeOK
<1>4. Mutex'
  BY <1>1, <1>2 DEF IInv, TypeOK, Mutex
<1>5. OneSignal'
  BY <1>1 DEF IInv, OneSignal, Owes
<1>6. Passive'
  BY <1>1 DEF IInv, TypeOK, OneSignal, Passive, Owes, RecvEmpty, RecvPassive, WaitReady, WaitFails
<1>7. InTransit' /\ Finishing'
  BY <1>1, <1>2 DEF IInv, InTransit, Finishing, InSend
<1> QED
  BY <1>3, <1>4, <1>5, <1>6, <1>7 DEF IInv

LEMMA RecvSignalInvariant == ASSUME IInv, RecvSignal PROVE IInv'
<1>1. TypeOK'
  <2>1. active' \in BOOLEAN
    BY Zenon DEF RecvSignal
  <2> QED
    BY <2>1 DEF IInv, TypeOK, RecvSignal
<1>2. Mutex'
  BY DEF IInv, TypeOK, Mutex, RecvSignal
<1>3. OneSignal'
  BY DEF IInv, TypeOK, OneSignal, Owes, RecvSignal
<1>4. Passive'
  BY DEF IInv, TypeOK, OneSignal, Passive, Owes, RecvSignal
<1>5. InTransit' /\ Finishing'
  BY DEF IInv, InTransit, Finishing, InSend, RecvSignal
<1> QED
  BY <1>1, <1>2, <1>3, <1>4, <1>5 DEF IInv

LEMMA DestroyInvariant ==
  ASSUME IInv, DestroyLock \/ DestroyUnlock
  PROVE  IInv'
<1>1. UNCHANGED <<pc, ok, sent, cpipe, asleep, signals, active, received>>
  BY DEF DestroyLock, DestroyUnlock
<1>2. TypeOK'
  BY <1>1 DEF IInv, TypeOK, DestroyLock, DestroyUnlock
<1>3. Mutex'
  BY MailboxAssumption DEF IInv, TypeOK, Mutex, DestroyLock, DestroyUnlock, Free
<1>4. OneSignal' /\ Passive'
  BY <1>1 DEF IInv, OneSignal, Passive, Owes, DestroyLock, DestroyUnlock
<1>5. InTransit'
  BY <1>1 DEF IInv, InTransit
<1>6. Finishing'
  <2>1. CASE DestroyUnlock
    BY <2>1 DEF IInv, Finishing, InSend, DestroyUnlock
  <2>2. CASE DestroyLock
    <3>1. \A s \in Sender : received[s] = MaxSend
      BY <2>2 DEF DestroyLock
    <3>2. cpipe = <<>>
      <4> SUFFICES ASSUME cpipe # <<>> PROVE FALSE
        OBVIOUS
      <4>1. cpipe[1][1] \in Sender /\ cpipe[1][2] \in 1 .. MaxSend
            /\ cpipe[1][2] = received[cpipe[1][1]] + 1
        BY HeadIsNext
      <4> QED
        BY <3>1, <4>1, MailboxAssumption
    <3>3. \A s \in Sender : ~Owes(s)
      BY <3>2 DEF IInv, Passive
    <3>4. \A s \in Sender : pc[s] \notin {"locked", "unlock"}
      BY <2>2, MailboxAssumption DEF IInv, Mutex, DestroyLock, Free
    <3>5. \A s \in Sender : ~InSend(s)
      BY <3>3, <3>4 DEF IInv, TypeOK, InSend, Owes
    <3> QED
      BY <1>1, <3>1, <3>5 DEF IInv, Finishing, InSend
  <2> QED
    BY <2>1, <2>2
<1> QED
  BY <1>2, <1>3, <1>4, <1>5, <1>6 DEF IInv

LEMMA StepInvariant == IInv /\ [Next]_vars => IInv'
<1> SUFFICES ASSUME IInv, [Next]_vars PROVE IInv'
  OBVIOUS
<1>1. ASSUME NEW s \in Sender, Send(s) PROVE IInv'
  BY <1>1, LockInvariant, WriteAndFlushInvariant, UnlockInvariant, SignalInvariant DEF Send
<1>2. CASE Recv
  BY <1>2, ReceiveInvariant, WaitInvariant, RecvSignalInvariant DEF Recv
<1>3. CASE DestroyLock \/ DestroyUnlock
  BY <1>3, DestroyInvariant
<1>4. CASE UNCHANGED vars
  <2>1. TypeOK' /\ Mutex' /\ OneSignal'
    BY <1>4 DEF IInv, TypeOK, Mutex, OneSignal, Owes, vars
  <2>2. Passive'
    BY <1>4 DEF IInv, Passive, Owes, vars
  <2>3. InTransit'
    BY <1>4 DEF IInv, InTransit, vars
  <2>4. Finishing'
    BY <1>4 DEF IInv, Finishing, InSend, vars
  <2> QED
    BY <2>1, <2>2, <2>3, <2>4 DEF IInv
<1> QED
  BY <1>1, <1>2, <1>3, <1>4 DEF Next

(* The invariant run mailbox_safety checks holds of every instance.        *)
THEOREM MailboxInvariant == Spec => []IInv
  BY InitInvariant, StepInvariant, PTL DEF Spec

(* The assertion in recv after a signal never fails.                       *)
THEOREM MailboxAssertHolds == Spec => []SignalMeansCommand
<1>1. IInv => SignalMeansCommand
  BY DEF IInv, Passive, SignalMeansCommand
<1> QED
  BY <1>1, MailboxInvariant, PTL

(* A passive owner with commands is always about to be signalled.          *)
THEOREM MailboxNoLostSignal == Spec => []NoLostSignal
<1>1. IInv => NoLostSignal
  BY DEF IInv, Passive, NoLostSignal
<1> QED
  BY <1>1, MailboxInvariant, PTL

(* No sender is inside send once the destructor has run.                   *)
THEOREM MailboxSafeDestruction == Spec => []SafeDestruction
<1>1. IInv => SafeDestruction
  BY DEF IInv, Finishing, SafeDestruction
<1> QED
  BY <1>1, MailboxInvariant, PTL

(* Commands of one sender arrive one by one in the order they were sent.   *)
THEOREM MailboxSenderOrder == Spec => SenderOrder
<1>1. IInv /\ [Next]_vars => [\A s \in Sender : received'[s] \in {received[s], received[s] + 1}]_vars
  <2> SUFFICES ASSUME IInv, Next, NEW s \in Sender
               PROVE  received'[s] \in {received[s], received[s] + 1}
    BY DEF vars
  <2>1. CASE UNCHANGED received
    BY <2>1
  <2>2. CASE Receive
    BY <2>2, HeadIsNext DEF Receive, IInv, TypeOK
  <2> QED
    BY <2>1, <2>2 DEF Next, Send, Recv, Lock, WriteAndFlush, Unlock, Signal, RecvActive, RecvEmpty,
       RecvPassive, WaitReady, WaitFails, RecvSignal, RecvFirst, DestroyLock, DestroyUnlock
<1> QED
  BY <1>1, MailboxInvariant, PTL DEF Spec, SenderOrder
=============================================================================
