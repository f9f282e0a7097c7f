------------------------------ MODULE Conflate ------------------------------
(***************************************************************************)
(* ypipe_conflate_t over dbuffer_t (libzmq/src/ypipe_conflate.hpp,         *)
(* dbuffer.hpp): the pipe of a socket with ZMQ_CONFLATE, which keeps the   *)
(* last message only.  The writer fills the back buffer and swaps it with  *)
(* the front one if it gets the lock at once; the reader takes from the    *)
(* front under the lock.  What pipe_t does with the results (flush and     *)
(* activate_read, in_active) is part of the model.                         *)
(*                                                                         *)
(* Messages are numbered as they are written; 0 is an initialised, empty   *)
(* msg_t.                                                                  *)
(***************************************************************************)
EXTENDS Naturals

CONSTANT MaxWrite    \* bound: messages written

ASSUME ConflateAssumption == MaxWrite \in Nat

VARIABLES
  back, front, has_msg,
  locked,          \* the reader holds dbuffer_t::sync
  written, wpc,    \* writer: messages so far, where it is in pipe_t::write and flush
  rpc, in_active,  \* reader: where it is in read, pipe_t::in_active
  wakes,           \* activate_read commands on their way
  got              \* the last message the reader was given

vars == <<back, front, has_msg, locked, written, wpc, rpc, in_active, wakes, got>>

TypeOK == /\ back \in 0 .. MaxWrite /\ front \in 0 .. MaxWrite
          /\ written \in 0 .. MaxWrite /\ got \in 0 .. MaxWrite
          /\ has_msg \in BOOLEAN /\ locked \in BOOLEAN /\ in_active \in BOOLEAN
          /\ wpc \in {"idle", "swap", "flush"}
          /\ rpc \in {"idle", "check", "checked", "take"}
          /\ wakes \in 0 .. MaxWrite

Init == /\ back = 0 /\ front = 0 /\ has_msg = FALSE
        /\ locked = FALSE
        /\ written = 0 /\ wpc = "idle"
        /\ rpc = "idle" /\ in_active = TRUE
        /\ wakes = 0 /\ got = 0
-----------------------------------------------------------------------------
(* Faulty variants. *)

write_Appends ==   \* the back buffer is not overwritten
  /\ wpc = "idle" /\ written < MaxWrite
  /\ written' = written + 1
  /\ back' = IF back = 0 THEN written' ELSE back
  /\ wpc' = "swap"
  /\ UNCHANGED <<front, has_msg, locked, rpc, in_active, wakes, got>>

Swap_KeepsFlag ==  \* has_msg is not set
  /\ wpc = "swap" /\ ~locked
  /\ back' = front /\ front' = back
  /\ wpc' = "flush"
  /\ UNCHANGED <<has_msg, locked, written, rpc, in_active, wakes, got>>

flush_Inverted ==  \* the wake-up goes to a reader that is awake
  /\ wpc = "flush"
  /\ wakes' = IF in_active THEN wakes + 1 ELSE wakes
  /\ wpc' = "idle"
  /\ UNCHANGED <<back, front, has_msg, locked, written, rpc, in_active, got>>

-----------------------------------------------------------------------------
(* The writer. *)

write ==
  /\ wpc = "idle" /\ written < MaxWrite
  /\ written' = written + 1
  /\ back' = written'
  /\ wpc' = "swap"
  /\ UNCHANGED <<front, has_msg, locked, rpc, in_active, wakes, got>>

(* try_lock succeeds: the exchange is one step for the reader. *)
Swap ==
  /\ wpc = "swap" /\ ~locked
  /\ back' = front /\ front' = back
  /\ has_msg' = TRUE
  /\ wpc' = "flush"
  /\ UNCHANGED <<locked, written, rpc, in_active, wakes, got>>

(* try_lock fails: the message stays in the back buffer. *)
GiveUp ==
  /\ wpc = "swap" /\ locked
  /\ wpc' = "flush"
  /\ UNCHANGED <<back, front, has_msg, locked, written, rpc, in_active, wakes, got>>

(* reader_awake is never set, so that flush always asks for a wake-up. *)
flush ==
  /\ wpc = "flush"
  /\ wakes' = wakes + 1
  /\ wpc' = "idle"
  /\ UNCHANGED <<back, front, has_msg, locked, written, rpc, in_active, got>>
-----------------------------------------------------------------------------
(* The reader: check_read and dbuffer.read, each under the lock. *)

CheckLock ==
  /\ rpc = "idle" /\ in_active
  /\ locked' = TRUE
  /\ rpc' = "check"
  /\ UNCHANGED <<back, front, has_msg, written, wpc, in_active, wakes, got>>

CheckDone ==
  /\ rpc = "check"
  /\ locked' = FALSE
  /\ rpc' = IF has_msg THEN "checked" ELSE "idle"
  /\ in_active' = has_msg
  /\ UNCHANGED <<back, front, has_msg, written, wpc, wakes, got>>

ReadLock ==
  /\ rpc = "checked"
  /\ locked' = TRUE
  /\ rpc' = "take"
  /\ UNCHANGED <<back, front, has_msg, written, wpc, in_active, wakes, got>>

ReadDone ==
  /\ rpc = "take"
  /\ locked' = FALSE
  /\ rpc' = "idle"
  /\ IF has_msg
     THEN /\ got' = front
          /\ front' = 0
          /\ has_msg' = FALSE
          /\ UNCHANGED in_active
     ELSE /\ in_active' = FALSE
          /\ UNCHANGED <<got, front, has_msg>>
  /\ UNCHANGED <<back, written, wpc, wakes>>

(* process_activate_read *)
Wake ==
  /\ rpc = "idle" /\ wakes > 0
  /\ wakes' = wakes - 1
  /\ in_active' = TRUE
  /\ UNCHANGED <<back, front, has_msg, locked, written, wpc, rpc, got>>

Writer == write \/ Swap \/ GiveUp \/ flush
Reader == CheckLock \/ CheckDone \/ ReadLock \/ ReadDone \/ Wake

Next == Writer \/ Reader

Spec == Init /\ [][Next]_vars

(* Both threads run; nobody has to write. *)
Fairness == /\ WF_vars(Swap \/ GiveUp \/ flush)
            /\ WF_vars(CheckLock \/ CheckDone \/ ReadLock \/ ReadDone)
            /\ WF_vars(Wake)

FairSpec == Spec /\ Fairness
-----------------------------------------------------------------------------
(* The reader is given newer messages only, and none twice: a buffer that  *)
(* comes back from the other side is never shown again.                    *)
NewerOnly == [][got' # got => got' > got]_vars

(* A message in front is newer than what was given and the only one there; *)
(* an empty buffer is never marked as a message.                           *)
FrontIsMessage == has_msg <=> front # 0

(* What check_read saw is still there when read takes it.                  *)
CheckHolds == rpc \in {"checked", "take"} => has_msg

(* A passive reader with a message is going to be woken, though the flag   *)
(* that flush returns is shared without any synchronisation.               *)
NoLostWakeup == ~in_active /\ has_msg => wakes > 0 \/ wpc = "flush"

(* What steps preserve besides: who holds the lock, and that a message     *)
(* about to be swapped is newer than everything the reader has or had.     *)
Lock == locked <=> rpc \in {"check", "take"}

Newer == /\ front # 0 => front > got
         /\ wpc = "swap" => back = written /\ written > front /\ written > got
         /\ front <= written /\ got <= written

(* One wake-up at most for each message. *)
WakesBounded == wakes + (IF wpc = "idle" THEN 0 ELSE 1) <= written

IInv == /\ TypeOK
        /\ FrontIsMessage /\ CheckHolds /\ NoLostWakeup
        /\ Lock /\ Newer /\ WakesBounded

(* Whatever reached the front is delivered, or something newer is.         *)
FrontDelivered == \A n \in 1 .. MaxWrite : front = n ~> got >= n

(* The documented promise of ZMQ_CONFLATE: the last message is kept.       *)
LastDelivered == written = MaxWrite ~> got = MaxWrite
=============================================================================
