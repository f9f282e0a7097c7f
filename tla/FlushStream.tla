---------------------------- MODULE FlushStream ----------------------------
(***************************************************************************)
(* What a libzmq pipe promises to the two threads that share it, whatever  *)
(* pointers implement it: the writer holds frames back until it flushes,   *)
(* the reader receives whole messages in the order they were written, and  *)
(* a flush that finds the reader asleep owes it a wake-up.                 *)
(*                                                                         *)
(* A frame is <<value, more>>; a message is a maximal run of frames whose  *)
(* last one has more = FALSE.                                              *)
(***************************************************************************)
EXTENDS Naturals, Sequences

CONSTANT Value

VARIABLES
  held,     \* frames written and not flushed, oldest first
  avail,    \* flushed frames the reader has not taken
  out,      \* every frame the reader has taken
  asleep,   \* the reader was told "empty" and nothing was flushed since
  wakes     \* wake-ups owed to the reader

vars == <<held, avail, out, asleep, wakes>>

Frame == Value \X BOOLEAN

IsLast(frame) == ~frame[2]

Init == /\ held = <<>>
        /\ avail = <<>>
        /\ out = <<>>
        /\ asleep = FALSE
        /\ wakes = 0

Write(frame) == /\ held' = Append(held, frame)
                /\ UNCHANGED <<avail, out, asleep, wakes>>

(* Only frames of an unfinished message can be taken back. *)
Unwrite == /\ held # <<>>
           /\ ~IsLast(held[Len(held)])
           /\ held' = SubSeq(held, 1, Len(held) - 1)
           /\ UNCHANGED <<avail, out, asleep, wakes>>

(* A flush hands over the first n frames: whole messages only, and every   *)
(* finished one.                                                           *)
Flush == \E n \in 1 .. Len(held) :
           /\ IsLast(held[n])
           /\ \A k \in n + 1 .. Len(held) : ~IsLast(held[k])
           /\ avail' = avail \o SubSeq(held, 1, n)
           /\ held' = SubSeq(held, n + 1, Len(held))
           /\ asleep' = FALSE
           /\ wakes' = IF asleep THEN wakes + 1 ELSE wakes
           /\ UNCHANGED out

Take == /\ avail # <<>>
        /\ out' = Append(out, Head(avail))
        /\ avail' = Tail(avail)
        /\ UNCHANGED <<held, asleep, wakes>>

FindEmpty == /\ avail = <<>>
             /\ asleep' = TRUE
             /\ UNCHANGED <<held, avail, out, wakes>>

Wake == /\ wakes > 0
        /\ wakes' = wakes - 1
        /\ UNCHANGED <<held, avail, out, asleep>>

Next == \/ \E frame \in Frame : Write(frame)
        \/ Unwrite
        \/ Flush
        \/ Take
        \/ FindEmpty
        \/ Wake

Spec == Init /\ [][Next]_vars
=============================================================================
