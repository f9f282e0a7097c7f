-------------------------------- MODULE Dist --------------------------------
(***************************************************************************)
(* dist_t (libzmq/src/dist.cpp): the pipes of a publisher in one array     *)
(* with three nested parts.  The first "matching" places are the pipes     *)
(* that get the current message, the first "active" those it may go to,    *)
(* the first "eligible" those the next one may go to; the rest is full.    *)
(***************************************************************************)
EXTENDS PipeArray

NoPipes == [pipes |-> <<>>, matching |-> 0, active |-> 0, eligible |-> 0, more |-> FALSE]

Matching(d) == First(d.pipes, d.matching)
Active(d) == First(d.pipes, d.active)
Eligible(d) == First(d.pipes, d.eligible)
Attached(d) == First(d.pipes, Len(d.pipes))

Swapped(d, i, j) == [d EXCEPT !.pipes = Swap(@, i, j)]
At(d, p) == Place(d.pipes, p)

Attach(d, p) ==
  LET n == [d EXCEPT !.pipes = Append(@, p), !.eligible = @ + 1]
  IN  IF d.more THEN Swapped(n, d.eligible, Len(d.pipes))
                ELSE [Swapped(n, d.active, Len(d.pipes)) EXCEPT !.active = @ + 1]

Match(d, p) ==
  IF At(d, p) < d.matching \/ At(d, p) >= d.eligible
  THEN d
  ELSE [Swapped(d, At(d, p), d.matching) EXCEPT !.matching = @ + 1]

Unmatch(d) == [d EXCEPT !.matching = 0]

reverse_match(d) ==
  LET swapped[k \in 0 .. d.eligible - d.matching] ==
        IF k = 0 THEN Unmatch(d)
        ELSE [Swapped(swapped[k - 1], d.matching + k - 1, k - 1) EXCEPT !.matching = k]
  IN  swapped[d.eligible - d.matching]

(* A faulty variant: the pipes matched are not counted down. *)
LeftMatching_Not(d, p) == d

(* p leaves a part of the array: it changes places with the last of it. *)
LeftMatching(d, p) ==
  IF At(d, p) < d.matching
  THEN [Swapped(d, At(d, p), d.matching - 1) EXCEPT !.matching = @ - 1] ELSE d

LeftActive(d, p) ==
  IF At(d, p) < d.active
  THEN [Swapped(d, At(d, p), d.active - 1) EXCEPT !.active = @ - 1] ELSE d

LeftEligible(d, p) ==
  IF At(d, p) < d.eligible
  THEN [Swapped(d, At(d, p), d.eligible - 1) EXCEPT !.eligible = @ - 1] ELSE d

Terminated(d, p) ==
  LET left == LeftEligible(LeftActive(LeftMatching(d, p), p), p)
  IN  [left EXCEPT !.pipes = Erase(@, At(left, p))]

(* A faulty variant: a pipe that comes back in the middle of a message is *)
(* forgotten.                                                              *)
Activated_OnlyBetween(d, p) ==
  IF d.more THEN d
  ELSE LET e == [Swapped(d, At(d, p), d.eligible) EXCEPT !.eligible = @ + 1]
       IN  [Swapped(e, e.eligible - 1, e.active) EXCEPT !.active = @ + 1]

Activated(d, p) ==
  LET e == IF d.eligible < Len(d.pipes)
           THEN [Swapped(d, At(d, p), d.eligible) EXCEPT !.eligible = @ + 1]
           ELSE d
  IN  IF ~d.more /\ d.active < Len(d.pipes)
      THEN [Swapped(e, e.eligible - 1, e.active) EXCEPT !.active = @ + 1]
      ELSE e

(* write, when the pipe does not take the message. *)
Failed(d, p) ==
  LET m == [Swapped(d, At(d, p), d.matching - 1) EXCEPT !.matching = @ - 1]
      a == [Swapped(m, At(m, p), m.active - 1) EXCEPT !.active = @ - 1]
  IN  [Swapped(a, a.active, a.eligible - 1) EXCEPT !.eligible = @ - 1]

(* distribute: the pipes of ok take the message; the one that moves to the *)
(* place of a pipe that does not is tried next.                            *)
Distributed(d, ok) ==
  LET step[k \in 0 .. d.matching] ==
        IF k = 0 THEN [i |-> 0, d |-> d]
        ELSE LET s == step[k - 1]
                 p == s.d.pipes[s.i + 1]
             IN  IF s.i >= s.d.matching THEN s
                 ELSE IF p \in ok THEN [s EXCEPT !.i = @ + 1]
                                  ELSE [s EXCEPT !.d = Failed(s.d, p)]
  IN  step[d.matching].d

(* send_to_matching, after distribute *)
Ended(d, more) == [d EXCEPT !.more = more, !.active = IF more THEN @ ELSE d.eligible]

(* The parts are nested, and a pipe is in the array once. *)
Nested(d) ==
  /\ 0 <= d.matching /\ d.matching <= d.active
  /\ d.active <= d.eligible /\ d.eligible <= Len(d.pipes)
  /\ \A i, j \in DOMAIN d.pipes : d.pipes[i] = d.pipes[j] => i = j
  /\ ~d.more => d.active = d.eligible
=============================================================================
