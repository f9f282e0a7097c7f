------------------------------- MODULE YPipe -------------------------------
(***************************************************************************)
(* ypipe_t (libzmq/src/ypipe.hpp): the lock-free queue between one writer  *)
(* thread and one reader thread.  A pointer into the queue is the position *)
(* of the cell it points to: cell i (counted from 0) holds queue[i + 1],   *)
(* and the terminator, &queue.back(), is position Len(queue).  That two    *)
(* live cells never share an address is the business of module YQueue.     *)
(*                                                                         *)
(* Every access to the shared pointer c is a step of its own: flush is a   *)
(* compare-and-swap and, when the reader is asleep, a later plain store.   *)
(***************************************************************************)
EXTENDS Integers, Sequences

CONSTANTS
  Value,       \* payloads
  MaxItems,    \* bound: cells ever written
  Polling      \* may the reader ask again before it is woken?  mailbox_safe_t
               \* does; mailbox_t (active) and pipe_t (in_active) do not

ASSUME YPipeAssumption == /\ MaxItems \in Nat
                          /\ Polling \in BOOLEAN

NULL == -1     \* no cell has this position

VARIABLES
  queue,       \* every frame <<value, incomplete>> written and not unwritten
  front,       \* &queue.front(): cells popped so far
  w, r, f, c,  \* the four pointers of ypipe_t
  wpc,         \* writer: "idle", or "store" between the failed cas and c.set
  waiting,     \* reader was told "empty" and has not been woken since
  wakes,       \* flushes that returned false and whose wake-up is on its way
  got          \* frames the reader has read

vars == <<queue, front, w, r, f, c, wpc, waiting, wakes, got>>

Frame == Value \X BOOLEAN

back == Len(queue)

Incomplete(i) == queue[i][2]

TypeOK == /\ queue \in Seq(Frame)
          /\ front \in Nat
          /\ w \in Nat
          /\ r \in Nat \cup {NULL}
          /\ f \in Nat
          /\ c \in Nat \cup {NULL}
          /\ wpc \in {"idle", "store"}
          /\ waiting \in BOOLEAN
          /\ wakes \in Nat
          /\ got \in Seq(Frame)

Init == /\ queue = <<>>
        /\ front = 0
        /\ w = 0 /\ r = 0 /\ f = 0 /\ c = 0
        /\ wpc = "idle"
        /\ waiting = FALSE
        /\ wakes = 0
        /\ got = <<>>
-----------------------------------------------------------------------------
(* Faulty variants of the operations below; the runs show that each breaks *)
(* a property.                                                             *)

FlushStore_NoWake ==
  /\ wpc = "store"
  /\ c' = f
  /\ w' = f
  /\ wpc' = "idle"
  /\ UNCHANGED <<queue, front, r, f, waiting, wakes, got>>

check_read_NeverSleeps ==
  /\ waiting => Polling
  /\ ~(front # r /\ r # NULL)
  /\ r' = c
  /\ waiting' = (r' = front \/ r' = NULL)
  /\ UNCHANGED <<queue, front, w, f, c, wpc, wakes, got>>

check_read_Exchange ==
  /\ waiting => Polling
  /\ ~(front # r /\ r # NULL)
  /\ r' = c
  /\ c' = NULL
  /\ waiting' = (r' = front \/ r' = NULL)
  /\ UNCHANGED <<queue, front, w, f, wpc, wakes, got>>
-----------------------------------------------------------------------------
(* The writer thread. *)

write(value, incomplete) ==
  /\ wpc = "idle"
  /\ back < MaxItems
  /\ queue' = Append(queue, <<value, incomplete>>)
  /\ f' = IF incomplete THEN f ELSE Len(queue')
  /\ UNCHANGED <<front, w, r, c, wpc, waiting, wakes, got>>

unwrite ==
  /\ wpc = "idle"
  /\ f # back
  /\ queue' = SubSeq(queue, 1, back - 1)
  /\ UNCHANGED <<front, w, r, f, c, wpc, waiting, wakes, got>>

(* flush, reader awake: c.cas (w, f) found w. *)
FlushSwap ==
  /\ wpc = "idle"
  /\ w # f
  /\ c = w
  /\ c' = f
  /\ w' = f
  /\ UNCHANGED <<queue, front, r, f, wpc, waiting, wakes, got>>

(* flush, reader asleep: the swap did not find w ... *)
FlushFail ==
  /\ wpc = "idle"
  /\ w # f
  /\ c # w
  /\ wpc' = "store"
  /\ UNCHANGED <<queue, front, w, r, f, c, waiting, wakes, got>>

(* ... so c is overwritten, and the caller, told false, owes a wake-up. *)
FlushStore ==
  /\ wpc = "store"
  /\ c' = f
  /\ w' = f
  /\ wpc' = "idle"
  /\ wakes' = wakes + 1
  /\ UNCHANGED <<queue, front, r, f, waiting, got>>
-----------------------------------------------------------------------------
(* The reader thread. *)

Prefetched == front # r /\ r # NULL

(* check_read when nothing is prefetched: r = c.cas (&front, NULL). *)
check_read ==
  /\ waiting => Polling
  /\ ~Prefetched
  /\ r' = c
  /\ c' = IF c = front THEN NULL ELSE c
  /\ waiting' = (r' = front \/ r' = NULL)
  /\ UNCHANGED <<queue, front, w, f, wpc, wakes, got>>

(* read once something is prefetched: copy the front cell and pop it. *)
read ==
  /\ Prefetched
  /\ got' = Append(got, queue[front + 1])
  /\ front' = front + 1
  /\ UNCHANGED <<queue, w, r, f, c, wpc, waiting, wakes>>

(* The wake-up the writer's caller sent reaches the reader. *)
Wake ==
  /\ wakes > 0
  /\ wakes' = wakes - 1
  /\ waiting' = FALSE
  /\ UNCHANGED <<queue, front, w, r, f, c, wpc, got>>

Writer == \/ \E v \in Value, more \in BOOLEAN : write(v, more)
          \/ unwrite
          \/ FlushSwap
          \/ FlushFail
          \/ FlushStore

Reader == check_read \/ read \/ Wake

Next == Writer \/ Reader

Spec == Init /\ [][Next]_vars

(* The writer finishes a flush it has begun; a wake-up sent arrives; a     *)
(* reader that is not waiting keeps reading (mailbox_t::recv and           *)
(* pipe_t::read loop until they are told "empty").                         *)
Fairness == /\ WF_vars(FlushStore)
            /\ WF_vars(Wake)
            /\ WF_vars(~waiting /\ check_read)
            /\ WF_vars(read)

FairSpec == Spec /\ Fairness
-----------------------------------------------------------------------------
Boundary(i) == i = 0 \/ ~Incomplete(i)

(* A message is never seen in part: a reader in the middle of one always   *)
(* has its remaining frames prefetched, so check_read cannot answer        *)
(* "empty" between two frames.                                             *)
WholeMessages == ~Boundary(front) => Prefetched

(* No wake-up is lost: a reader that waits while flushed frames are there  *)
(* has a wake-up on its way (the contract of flush's return value).        *)
NoLostWakeup == waiting /\ w > front => wakes > 0

(* The cells the reader may touch and those the writer may still change    *)
(* are disjoint: what is prefetched was flushed, what was flushed is       *)
(* complete, and unwrite and write work beyond f.                          *)
DisjointCells == /\ r # NULL => front <= r /\ r <= w
                 /\ front <= w /\ w <= f /\ f <= back
                 /\ c # NULL => c = w

(* A reader that honours the contract is woken once per time it slept.     *)
OneWakePerSleep == ~Polling => wakes = 0 \/ (wakes = 1 /\ waiting)

(* The strengthening of the invariants above that steps preserve.          *)
Sleep == /\ c = NULL => front = w
         /\ c = NULL /\ ~Polling => waiting /\ wakes = 0
         /\ wpc = "store" => c = NULL /\ w # f
         /\ waiting /\ c # NULL => wakes > 0

Boundaries == /\ Boundary(w) /\ Boundary(f)
              /\ r # NULL => Boundary(r)
              /\ r = NULL => Boundary(front)
              /\ \A i \in f + 1 .. back : Incomplete(i)

Received == got = SubSeq(queue, 1, front)

IInv == /\ TypeOK
        /\ DisjointCells
        /\ Sleep
        /\ Boundaries
        /\ Received
        /\ OneWakePerSleep

(* Once flushed, a frame is read, though the writer may never write again. *)
Delivered == \A n \in 1 .. MaxItems : w >= n ~> front >= n

(* The pointers implement the abstract stream: what lies between w and the  *)
(* terminator is held back, what lies between front and w is available.    *)
heldFrames  == SubSeq(queue, w + 1, back)
availFrames == SubSeq(queue, front + 1, w)

Stream == INSTANCE FlushStream
            WITH held   <- heldFrames,
                 avail  <- availFrames,
                 out    <- got,
                 asleep <- (c = NULL)

StreamSpec == Stream!Spec
=============================================================================
