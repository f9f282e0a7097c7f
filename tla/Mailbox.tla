------------------------------ MODULE Mailbox ------------------------------
(***************************************************************************)
(* mailbox_t (libzmq/src/mailbox.cpp): the command queue of one thread.    *)
(* Any thread may send; only the owner receives.  Senders exclude each     *)
(* other with the mutex sync, signal the owner's file descriptor after     *)
(* they have released it, and the owner destroys the mailbox when it knows *)
(* that no more commands will be sent.                                     *)
(*                                                                         *)
(* The command pipe is a ypipe_t of complete items, used through what      *)
(* FlushStream promises: cpipe is what was flushed and not read, asleep    *)
(* says that the next flush returns false.  signals is the signaler's      *)
(* counter (an eventfd).                                                   *)
(***************************************************************************)
EXTENDS Naturals, Sequences

CONSTANTS
  Sender,    \* threads that send to this mailbox
  MaxSend,   \* bound: commands per sender
  Owner      \* the receiving thread, as a holder of the mutex

Free == "free"    \* nobody holds sync

ASSUME MailboxAssumption == /\ MaxSend \in Nat
                            /\ Owner \notin Sender
                            /\ Free \notin Sender \cup {Owner}

VARIABLES
  sync,      \* holder of the mutex
  pc,        \* where each sender is in send
  ok,        \* what flush told it
  sent,      \* commands each sender has written
  cpipe,     \* commands <<sender, n>> in the pipe
  asleep,    \* the owner found cpipe empty
  signals,   \* signaler
  active,    \* mailbox_t::active
  rpc,       \* where the owner is in recv, or in the destructor
  received   \* commands of each sender the owner has received

vars == <<sync, pc, ok, sent, cpipe, asleep, signals, active, rpc, received>>

Command == Sender \X (1 .. MaxSend)

TypeOK == /\ sync \in Sender \cup {Owner, Free}
          /\ pc \in [Sender -> {"out", "locked", "unlock", "signal"}]
          /\ ok \in [Sender -> BOOLEAN]
          /\ sent \in [Sender -> 0 .. MaxSend]
          /\ cpipe \in Seq(Command)
          /\ asleep \in BOOLEAN
          /\ signals \in Nat
          /\ active \in BOOLEAN
          /\ rpc \in {"out", "wait", "signal", "get", "destroy", "dead"}
          /\ received \in [Sender -> 0 .. MaxSend]

(* The constructor reads once, to put the pipe into passive state. *)
Init == /\ sync = Free
        /\ pc = [s \in Sender |-> "out"]
        /\ ok = [s \in Sender |-> TRUE]
        /\ sent = [s \in Sender |-> 0]
        /\ cpipe = <<>>
        /\ asleep = TRUE
        /\ signals = 0
        /\ active = FALSE
        /\ rpc = "out"
        /\ received = [s \in Sender |-> 0]
-----------------------------------------------------------------------------
(* Faulty variants of the operations below. *)

Unlock_NoSignal(s) ==
  /\ pc[s] = "unlock"
  /\ sync' = Free
  /\ pc' = [pc EXCEPT ![s] = "out"]
  /\ UNCHANGED <<ok, sent, cpipe, asleep, signals, active, rpc, received>>

RecvSignal_StaysPassive ==
  /\ rpc = "signal"
  /\ signals > 0
  /\ signals' = signals - 1
  /\ rpc' = "get"
  /\ UNCHANGED <<sync, pc, ok, sent, cpipe, asleep, active, received>>

Receive_Newest == /\ cpipe # <<>>
                  /\ received' = [received EXCEPT ![cpipe[Len(cpipe)][1]] = cpipe[Len(cpipe)][2]]
                  /\ cpipe' = SubSeq(cpipe, 1, Len(cpipe) - 1)
                  /\ rpc' = "out"

DestroyLock_NoWait ==
  /\ rpc = "out"
  /\ received = [s \in Sender |-> MaxSend]
  /\ sync' = Owner
  /\ rpc' = "destroy"
  /\ UNCHANGED <<pc, ok, sent, cpipe, asleep, signals, active, received>>
-----------------------------------------------------------------------------
(* send *)

Lock(s) ==
  /\ pc[s] = "out"
  /\ sent[s] < MaxSend
  /\ sync = Free
  /\ sync' = s
  /\ pc' = [pc EXCEPT ![s] = "locked"]
  /\ UNCHANGED <<ok, sent, cpipe, asleep, signals, active, rpc, received>>

(* cpipe.write and cpipe.flush, whose effect is the one step of its swap   *)
(* or of its store.                                                        *)
WriteAndFlush(s) ==
  /\ pc[s] = "locked"
  /\ sent' = [sent EXCEPT ![s] = @ + 1]
  /\ cpipe' = Append(cpipe, <<s, sent'[s]>>)
  /\ ok' = [ok EXCEPT ![s] = ~asleep]
  /\ asleep' = FALSE
  /\ pc' = [pc EXCEPT ![s] = "unlock"]
  /\ UNCHANGED <<sync, signals, active, rpc, received>>

Unlock(s) ==
  /\ pc[s] = "unlock"
  /\ sync' = Free
  /\ pc' = [pc EXCEPT ![s] = IF ok[s] THEN "out" ELSE "signal"]
  /\ UNCHANGED <<ok, sent, cpipe, asleep, signals, active, rpc, received>>

(* signaler.send, outside the critical section *)
Signal(s) ==
  /\ pc[s] = "signal"
  /\ signals' = signals + 1
  /\ pc' = [pc EXCEPT ![s] = "out"]
  /\ UNCHANGED <<sync, ok, sent, cpipe, asleep, active, rpc, received>>
-----------------------------------------------------------------------------
(* recv *)

(* cpipe.read returned a command, and so does recv. *)
Receive == /\ cpipe # <<>>
           /\ received' = [received EXCEPT ![Head(cpipe)[1]] = Head(cpipe)[2]]
           /\ cpipe' = Tail(cpipe)
           /\ rpc' = "out"

RecvActive ==
  /\ rpc = "out" /\ active
  /\ Receive
  /\ UNCHANGED <<sync, pc, ok, sent, asleep, signals, active>>

RecvEmpty ==
  /\ rpc = "out" /\ active /\ cpipe = <<>>
  /\ asleep' = TRUE
  /\ active' = FALSE
  /\ rpc' = "wait"
  /\ UNCHANGED <<sync, pc, ok, sent, cpipe, signals, received>>

RecvPassive ==
  /\ rpc = "out" /\ ~active
  /\ rpc' = "wait"
  /\ UNCHANGED <<sync, pc, ok, sent, cpipe, asleep, signals, active, received>>

(* signaler.wait saw the descriptor readable ... *)
WaitReady ==
  /\ rpc = "wait" /\ signals > 0
  /\ rpc' = "signal"
  /\ UNCHANGED <<sync, pc, ok, sent, cpipe, asleep, signals, active, received>>

(* ... or timed out, or was interrupted: recv returns -1. *)
WaitFails ==
  /\ rpc = "wait"
  /\ rpc' = "out"
  /\ UNCHANGED <<sync, pc, ok, sent, cpipe, asleep, signals, active, received>>

(* recv_failable takes one signal and leaves the rest in the counter. *)
RecvSignal ==
  /\ rpc = "signal"
  /\ signals > 0
  /\ signals' = signals - 1
  /\ active' = TRUE
  /\ rpc' = "get"
  /\ UNCHANGED <<sync, pc, ok, sent, cpipe, asleep, received>>

(* The read that is asserted to succeed. *)
RecvFirst ==
  /\ rpc = "get"
  /\ Receive
  /\ UNCHANGED <<sync, pc, ok, sent, asleep, signals, active>>
-----------------------------------------------------------------------------
(* The destructor waits for the mutex before it disappears.  The owner     *)
(* runs it when every command that will ever be sent has been received.    *)

DestroyLock ==
  /\ rpc = "out"
  /\ received = [s \in Sender |-> MaxSend]
  /\ sync = Free
  /\ sync' = Owner
  /\ rpc' = "destroy"
  /\ UNCHANGED <<pc, ok, sent, cpipe, asleep, signals, active, received>>

DestroyUnlock ==
  /\ rpc = "destroy"
  /\ sync' = Free
  /\ rpc' = "dead"
  /\ UNCHANGED <<pc, ok, sent, cpipe, asleep, signals, active, received>>

Send(s) == Lock(s) \/ WriteAndFlush(s) \/ Unlock(s) \/ Signal(s)

Recv == \/ RecvActive \/ RecvEmpty \/ RecvPassive
        \/ WaitReady \/ WaitFails \/ RecvSignal \/ RecvFirst

Next == \/ \E s \in Sender : Send(s)
        \/ Recv
        \/ DestroyLock \/ DestroyUnlock

Spec == Init /\ [][Next]_vars

(* Threads run; the owner calls recv again and again (its poller or its    *)
(* application loops); interrupts do not win every race with a signal.     *)
Fairness == /\ \A s \in Sender : WF_vars(Send(s))
            /\ WF_vars(RecvActive \/ RecvEmpty \/ RecvPassive \/ RecvSignal \/ RecvFirst)
            /\ SF_vars(WaitReady)

FairSpec == Spec /\ Fairness
-----------------------------------------------------------------------------
(* s was told "reader asleep" and has not signalled yet. *)
Owes(s) == pc[s] = "signal" \/ (pc[s] = "unlock" /\ ~ok[s])

InSend(s) == pc[s] # "out"

(* recv's assertion: the read that follows a signal finds a command.       *)
SignalMeansCommand == rpc = "get" => cpipe # <<>>

(* At most one signal is owed or pending, whatever the number of senders:  *)
(* the eventfd counter never exceeds one.                                  *)
OneSignal == /\ signals <= 1
             /\ \A s, t \in Sender : Owes(s) /\ Owes(t) => s = t
             /\ signals = 1 => \A s \in Sender : ~Owes(s)

(* A passive owner with commands in its pipe is going to be signalled.     *)
NoLostSignal == ~active /\ cpipe # <<>> => signals > 0 \/ \E s \in Sender : Owes(s)

(* Nobody is inside send when the mailbox disappears: the lock taken by    *)
(* the destructor covers the senders that hold it, and a sender that still *)
(* has to signal cannot exist, as its command is one the owner cannot have *)
(* received.                                                               *)
SafeDestruction == rpc = "dead" => \A s \in Sender : ~InSend(s)

(* The strengthening that steps preserve. *)
Mutex == /\ \A s \in Sender : pc[s] \in {"locked", "unlock"} <=> sync = s
         /\ rpc = "destroy" <=> sync = Owner

(* A signal is under way exactly when the owner is passive and was told    *)
(* nothing of the commands in its pipe; it never sleeps beside them.       *)
Passive == /\ asleep => cpipe = <<>> /\ ~active
           /\ asleep \/ active => signals = 0 /\ \A s \in Sender : ~Owes(s)
           /\ ~asleep /\ ~active => /\ cpipe # <<>>
                                    /\ signals = 1 \/ \E s \in Sender : Owes(s)
           /\ rpc = "get" => active /\ cpipe # <<>>
           /\ rpc \in {"wait", "signal"} => ~active
           /\ rpc = "signal" => signals = 1

(* What was sent and not received is in the pipe, in each sender's order.  *)
InTransit ==
  /\ \A i \in 1 .. Len(cpipe) : /\ received[cpipe[i][1]] < cpipe[i][2]
                                /\ cpipe[i][2] <= sent[cpipe[i][1]]
  /\ \A i, j \in 1 .. Len(cpipe) :
       i < j /\ cpipe[i][1] = cpipe[j][1] => cpipe[i][2] < cpipe[j][2]
  /\ \A s \in Sender : \A n \in received[s] + 1 .. sent[s] :
       \E i \in 1 .. Len(cpipe) : cpipe[i] = <<s, n>>
  /\ \A s \in Sender : received[s] <= sent[s]

Finishing == /\ \A s \in Sender : pc[s] = "locked" => sent[s] < MaxSend
             /\ rpc \in {"destroy", "dead"} =>
                  \A s \in Sender : received[s] = MaxSend /\ ~InSend(s)

IInv == TypeOK /\ Mutex /\ OneSignal /\ Passive /\ InTransit /\ Finishing

(* Every command is received though nothing else is ever sent. *)
EveryCommandReceived ==
  \A s \in Sender : \A n \in 1 .. MaxSend : sent[s] >= n ~> received[s] >= n

(* What the owner receives of one sender is what it sent, in that order.   *)
SenderOrder ==
  [][\A s \in Sender : received'[s] \in {received[s], received[s] + 1}]_vars
=============================================================================
