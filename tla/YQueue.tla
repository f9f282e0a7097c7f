------------------------------- MODULE YQueue -------------------------------
(***************************************************************************)
(* yqueue_t (libzmq/src/yqueue.hpp): the storage below ypipe_t.  Cells live *)
(* in chunks of N; the reader thread pops at the front, the writer thread  *)
(* pushes and unpushes at the back, and the chunk the reader used last     *)
(* becomes the spare the writer takes with an atomic exchange.             *)
(*                                                                         *)
(* A cell address is <<chunk, position in it>>.  addr is a history         *)
(* variable: addr[p + 1] is the address push gave to queue position p.     *)
(* Every exchange on spare_chunk, and what a thread does before and after  *)
(* it, are steps of their own.                                             *)
(***************************************************************************)
EXTENDS Naturals, Sequences, FiniteSets

CONSTANTS
  Chunk,     \* addresses malloc can return
  NULL,
  N,         \* cells of a chunk
  MaxCells   \* bound: cells in use at a time, and cells ever popped

ASSUME YQueueAssumption == /\ N \in Nat \ {0}
                           /\ MaxCells \in Nat
                           /\ NULL \notin Chunk

VARIABLES
  allocated,   \* chunks malloc'ed and not freed
  next, prev,  \* the links of a chunk
  spare_chunk,
  begin, back, end,   \* <<chunk, pos>>, back's chunk is NULL at first
  wpc, sc,     \* writer: inside push?  the spare it took
  rpc, o,      \* reader: inside pop?  the chunk it gave up
  addr, front, \* history: addresses by position, positions popped
  flushed      \* positions below it belong to the reader (ypipe_t's w and f)

vars == <<allocated, next, prev, spare_chunk, begin, back, end, wpc, sc, rpc, o,
          addr, front, flushed>>

Cell == (Chunk \cup {NULL}) \X (0 .. N)

TypeOK == /\ allocated \subseteq Chunk
          /\ next \in [Chunk -> Chunk \cup {NULL}]
          /\ prev \in [Chunk -> Chunk \cup {NULL}]
          /\ {spare_chunk, sc, o} \subseteq Chunk \cup {NULL}
          /\ {begin, back, end} \subseteq Cell
          /\ wpc \in {"idle", "grow", "link", "destroy", "dead"}
          /\ rpc \in {"idle", "advance", "recycle", "dead"}
          /\ addr \in Seq(Cell)
          /\ front \in Nat /\ flushed \in Nat

Init == \E k \in Chunk :
          /\ allocated = {k}
          /\ next = [x \in Chunk |-> NULL]
          /\ prev = [x \in Chunk |-> NULL]
          /\ spare_chunk = NULL
          /\ begin = <<k, 0>> /\ back = <<NULL, 0>> /\ end = <<k, 0>>
          /\ wpc = "idle" /\ sc = NULL
          /\ rpc = "idle" /\ o = NULL
          /\ addr = <<>> /\ front = 0 /\ flushed = 0
-----------------------------------------------------------------------------
(* Faulty variants of the operations below. *)

unpush_KeepsBackChunk ==
  /\ wpc = "idle"
  /\ Len(addr) > flushed + 1
  /\ back' = IF back[2] > 0 THEN <<back[1], back[2] - 1>> ELSE <<back[1], N - 1>>
  /\ addr' = SubSeq(addr, 1, Len(addr) - 1)
  /\ IF end[2] > 0
       THEN /\ end' = <<end[1], end[2] - 1>>
            /\ UNCHANGED <<allocated, next>>
       ELSE /\ end' = <<prev[end[1]], N - 1>>
            /\ allocated' = allocated \ {next[prev[end[1]]]}
            /\ next' = [next EXCEPT ![prev[end[1]]] = NULL]
  /\ UNCHANGED <<prev, spare_chunk, begin, wpc, sc, rpc, o, front, flushed>>

PushTakeSpare_Load ==
  /\ wpc = "grow"
  /\ sc' = spare_chunk
  /\ wpc' = "link"
  /\ UNCHANGED <<allocated, next, prev, spare_chunk, begin, back, end, rpc, o,
                 addr, front, flushed>>

PopRecycle_NoFree ==
  /\ rpc = "recycle"
  /\ spare_chunk' = o
  /\ o' = NULL
  /\ rpc' = "idle"
  /\ UNCHANGED <<allocated, next, prev, begin, back, end, wpc, sc, addr, front, flushed>>
-----------------------------------------------------------------------------
(* The writer thread. *)

(* push up to its early return. *)
PushCell ==
  /\ wpc = "idle"
  /\ Len(addr) < front + MaxCells
  /\ back' = end
  /\ addr' = Append(addr, end)
  /\ end' = <<end[1], end[2] + 1>>
  /\ wpc' = IF end[2] + 1 # N THEN "idle" ELSE "grow"
  /\ UNCHANGED <<allocated, next, prev, spare_chunk, begin, sc, rpc, o, front, flushed>>

(* sc = spare_chunk.xchg (NULL) *)
PushTakeSpare ==
  /\ wpc = "grow"
  /\ sc' = spare_chunk
  /\ spare_chunk' = NULL
  /\ wpc' = "link"
  /\ UNCHANGED <<allocated, next, prev, begin, back, end, rpc, o, addr, front, flushed>>

(* Link the spare, or a fresh chunk, behind end_chunk. *)
PushLink ==
  /\ wpc = "link"
  /\ \E k \in IF sc # NULL THEN {sc} ELSE Chunk \ allocated :
       /\ allocated' = allocated \cup {k}
       /\ next' = [next EXCEPT ![end[1]] = k]
       /\ prev' = [prev EXCEPT ![k] = end[1]]
       /\ end' = <<k, 0>>
  /\ sc' = NULL
  /\ wpc' = "idle"
  /\ UNCHANGED <<spare_chunk, begin, back, rpc, o, addr, front, flushed>>

(* unpush takes back a cell ypipe_t has not flushed. *)
unpush ==
  /\ wpc = "idle"
  /\ Len(addr) > flushed + 1
  /\ back' = IF back[2] > 0 THEN <<back[1], back[2] - 1>> ELSE <<prev[back[1]], N - 1>>
  /\ addr' = SubSeq(addr, 1, Len(addr) - 1)
  /\ IF end[2] > 0
       THEN /\ end' = <<end[1], end[2] - 1>>
            /\ UNCHANGED <<allocated, next>>
       ELSE /\ end' = <<prev[end[1]], N - 1>>
            /\ allocated' = allocated \ {next[prev[end[1]]]}
            /\ next' = [next EXCEPT ![prev[end[1]]] = NULL]
  /\ UNCHANGED <<prev, spare_chunk, begin, wpc, sc, rpc, o, front, flushed>>

(* ypipe_t hands everything before the terminator to the reader. *)
Flush ==
  /\ wpc = "idle"
  /\ addr # <<>>
  /\ flushed' = Len(addr) - 1
  /\ UNCHANGED <<allocated, next, prev, spare_chunk, begin, back, end, wpc, sc,
                 rpc, o, addr, front>>
-----------------------------------------------------------------------------
(* The reader thread. *)

PopCell ==
  /\ rpc = "idle"
  /\ front < flushed
  /\ front < MaxCells
  /\ front' = front + 1
  /\ begin' = <<begin[1], begin[2] + 1>>
  /\ rpc' = IF begin[2] + 1 = N THEN "advance" ELSE "idle"
  /\ UNCHANGED <<allocated, next, prev, spare_chunk, back, end, wpc, sc, o, addr, flushed>>

PopAdvance ==
  /\ rpc = "advance"
  /\ o' = begin[1]
  /\ begin' = <<next[begin[1]], 0>>
  /\ prev' = [prev EXCEPT ![next[begin[1]]] = NULL]
  /\ rpc' = "recycle"
  /\ UNCHANGED <<allocated, next, spare_chunk, back, end, wpc, sc, addr, front, flushed>>

(* cs = spare_chunk.xchg (o); free (cs) *)
PopRecycle ==
  /\ rpc = "recycle"
  /\ allocated' = allocated \ {spare_chunk}
  /\ spare_chunk' = o
  /\ o' = NULL
  /\ rpc' = "idle"
  /\ UNCHANGED <<next, prev, begin, back, end, wpc, sc, addr, front, flushed>>
-----------------------------------------------------------------------------
(* The destructor, run by whoever owns the pipe once both threads left it: *)
(* one round of its loop, and its end.                                     *)

DestroyChunk ==
  /\ \/ wpc = "idle" /\ rpc = "idle"
     \/ wpc = "destroy"
  /\ begin[1] # end[1]
  /\ allocated' = allocated \ {begin[1]}
  /\ begin' = <<next[begin[1]], 0>>
  /\ wpc' = "destroy" /\ rpc' = "dead"
  /\ UNCHANGED <<next, prev, spare_chunk, back, end, sc, o, addr, front, flushed>>

DestroyLast ==
  /\ \/ wpc = "idle" /\ rpc = "idle"
     \/ wpc = "destroy"
  /\ begin[1] = end[1]
  /\ allocated' = allocated \ {begin[1], spare_chunk}
  /\ spare_chunk' = NULL
  /\ wpc' = "dead" /\ rpc' = "dead"
  /\ UNCHANGED <<next, prev, begin, back, end, sc, o, addr, front, flushed>>

Next == \/ PushCell \/ PushTakeSpare \/ PushLink \/ unpush \/ Flush
        \/ PopCell \/ PopAdvance \/ PopRecycle
        \/ DestroyChunk \/ DestroyLast

Spec == Init /\ [][Next]_vars
-----------------------------------------------------------------------------
Alive == wpc \notin {"destroy", "dead"}

(* Positions from the front cell to the terminator. *)
Live == front .. Len(addr) - 1

LiveChunks == {addr[p + 1][1] : p \in Live} \cup {begin[1], end[1]}

(* ypipe_t compares addresses where YPipe compares positions: two cells in *)
(* use never have the same address, and the two threads find at front and  *)
(* back the cells push gave out, though chunks are recycled between them.  *)
CellIdentity ==
  Alive => /\ \A p, q \in Live : addr[p + 1] = addr[q + 1] => p = q
           /\ rpc # "advance" /\ Live # {} => begin = addr[front + 1]
           /\ addr # <<>> => back = addr[Len(addr)]

(* No thread is about to follow a link of, or into, a chunk that was freed *)
(* or is up for reuse, and no chunk is freed twice.                        *)
NoDangling ==
  Alive => /\ LiveChunks \cup ({spare_chunk, sc, o} \ {NULL}) \subseteq allocated
           /\ {spare_chunk, sc, o} \cap LiveChunks = {}
           /\ spare_chunk # NULL => spare_chunk \notin {sc, o}
           /\ o = sc => o = NULL
           /\ rpc = "advance" => next[begin[1]] \in LiveChunks
           /\ Len(addr) > flushed + 1 /\ wpc = "idle" =>
                /\ back[2] = 0 => prev[back[1]] \in LiveChunks
                /\ end[2] = 0 => prev[end[1]] \in LiveChunks

(* Nothing leaks: a chunk is in the list, is the spare, or is in the hands *)
(* of one thread; the destructor frees them all.                           *)
NoLeak == /\ Alive => allocated = LiveChunks \cup ({spare_chunk, sc, o} \ {NULL})
          /\ wpc = "dead" => allocated = {}

(* The two threads share chunks without following one that is freed and    *)
(* without losing one, every pointer stays in its chunk, and an address    *)
(* means one cell.                                                         *)
MemorySafe == TypeOK /\ CellIdentity /\ NoDangling /\ NoLeak

(* The strengthening from which MemorySafe is proved.  Used: the places in *)
(* addr of the live cells.  Each cell is followed by the next of its chunk *)
(* or the first of the next chunk, end follows the last one, and the cells *)
(* of a chunk are next to each other in their order.                       *)
Used == front + 1 .. Len(addr)

After(c, d) == IF c[2] = N - 1 THEN d = <<next[c[1]], 0>> /\ prev[d[1]] = c[1]
                               ELSE d = <<c[1], c[2] + 1>>

Chain ==
  /\ \A i \in Used : addr[i][1] \in Chunk /\ addr[i][2] \in 0 .. N - 1
  /\ \A i, j \in Used : j = i + 1 => After(addr[i], addr[j])
  /\ \A i, j \in Used : i < j /\ addr[i][1] = addr[j][1] =>
       /\ addr[i][2] < addr[j][2]
       /\ \A k \in Used : i < k /\ k < j => addr[k][1] = addr[j][1]

AtBack ==
  /\ end[1] \in Chunk
  /\ addr = <<>> => front = 0 /\ flushed = 0 /\ end[2] = 0 /\ wpc \notin {"grow", "link"}
  /\ addr # <<>> =>
       /\ front <= flushed /\ flushed < Len(addr)
       /\ back = addr[Len(addr)]
       /\ IF wpc \in {"grow", "link"} THEN back[2] = N - 1 /\ end = <<back[1], N>>
                                      ELSE After(back, end)
  /\ \A i \in Used : addr[i][1] = end[1] => addr[i][2] < end[2]

(* Between the two halves of pop begin stands behind the cells of a chunk  *)
(* that has none left.                                                     *)
AtFront ==
  /\ addr = <<>> => begin = end /\ rpc \notin {"advance", "recycle"}
  /\ addr # <<>> /\ rpc # "advance" => begin = addr[front + 1]
  /\ addr # <<>> /\ rpc = "advance" =>
       /\ begin[1] \in Chunk /\ begin[1] # end[1] /\ begin[2] = N
       /\ addr[front + 1] = <<next[begin[1]], 0>>
       /\ \A i \in Used : addr[i][1] # begin[1]

UsedChunks == {addr[i][1] : i \in Used} \cup {begin[1], end[1]}

Held ==
  /\ allocated = UsedChunks \cup ({spare_chunk, sc, o} \ {NULL})
  /\ {spare_chunk, sc, o} \cap UsedChunks = {}
  /\ spare_chunk # NULL => spare_chunk \notin {sc, o}
  /\ o = sc => o = NULL

Hands ==
  /\ wpc # "link" => sc = NULL
  /\ rpc # "recycle" => o = NULL
  /\ wpc \in {"destroy", "dead"} <=> rpc = "dead"

(* The destructor has come to the chunk of the cell in place d, or to the  *)
(* last one.                                                               *)
Destroying ==
  \E d \in front + 1 .. Len(addr) + 1 :
    LET rest == {addr[i][1] : i \in d .. Len(addr)} \cup {end[1]}
    IN  /\ begin[1] = IF d = Len(addr) + 1 THEN end[1] ELSE addr[d][1]
        /\ allocated = rest \cup ({spare_chunk} \ {NULL})
        /\ spare_chunk \notin rest

IInv ==
  /\ TypeOK /\ Chain /\ AtBack /\ Hands
  /\ Alive => AtFront /\ Held
  /\ wpc = "destroy" => Destroying
  /\ wpc = "dead" => allocated = {}
=============================================================================
