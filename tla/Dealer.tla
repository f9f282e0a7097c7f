------------------------------- MODULE Dealer -------------------------------
(***************************************************************************)
(* dealer_t (libzmq/src/dealer.cpp): the fair queue fq_t and the load      *)
(* balancer lb_t of one socket, over pipes that are attached, block, come  *)
(* back and end at any time, the middle of a message included.             *)
(*                                                                         *)
(* Both keep their pipes in an array whose first "active" places are the   *)
(* pipes worth asking, and turn round those.  A pipe is here what its      *)
(* socket's end shows them (PipePair has the rest); a command on its way   *)
(* to that end is the freedom to process it later.                         *)
(*                                                                         *)
(* The code tears messages in three ways, see "what befalls a message".    *)
(* No guard keeps them out: torn, astray, half and misplaced record them,  *)
(* for the properties to say what else holds.                              *)
(***************************************************************************)
EXTENDS PipeArray, FiniteSets

CONSTANTS
  N,          \* pipes the socket ever has
  Traffic,    \* sets of directions in use: the two share nothing but the
              \* pipes' coming and going, and may be explored one at a time
  Hwm,        \* high water mark of the outbound pipes
  MaxPart     \* bound: parts of a message

ASSUME DealerAssumption ==
  /\ N \in Nat \ {0}
  /\ Traffic \subseteq SUBSET {"in", "out"}
  /\ Hwm \in Nat \ {0} /\ MaxPart \in Nat \ {0}

Pipes == 1 .. N    \* in the order they are attached
None == 0          \* no pipe

VARIABLES
  traffic,    \* directions in use
  st,         \* state of the socket's end of each pipe
  inq,        \* parts the peer has flushed to us: "more", "last" or "delimiter"
  in_active,
  out,        \* parts flushed to the peer
  open,       \* parts written to the peer and not flushed
  used,       \* msgs_written - peers_msgs_read
  out_active,
  fq, lb,
  next,       \* number of the part the application sends next
  from,       \* pipe of the message the application has read a part of
  fate,       \* whether the process runs
  \* what only the properties read
  waits,      \* messages others delivered while this pipe had one to deliver
  half,       \* pipes of whose last message the application has a part only
  astray,     \* those that lost it on the way
  torn,       \* pipes whose next message to the peer will not be a whole one
  misplaced   \* a full pipe has been left in the active part of lb

pipeVars == <<st, inq, in_active, out, open, used, out_active>>
inVars == <<fq, from, half, astray>>
outVars == <<lb, next, torn, misplaced>>
vars == <<traffic, pipeVars, inVars, outVars, waits, fate>>

(* "closed": delimiter_received, term_req_sent1 and 2, term_ack_sent.      *)
State == {"new", "active", "waiting_for_delimiter", "closed", "gone"}
Readable == {p \in Pipes : st[p] \in {"active", "waiting_for_delimiter"}}

(* The parts of a message by their numbers. *)
Parts == Seq(1 .. MaxPart)
Message == [parts : Parts, torn : BOOLEAN]
-----------------------------------------------------------------------------
(* The active part of an array of pipes. *)

At(q) == q.pipes[q.current + 1]
Attached(q) == First(q.pipes, Len(q.pipes))
ActivePart(q) == First(q.pipes, q.active)

Activated(q, p) == [q EXCEPT !.pipes = Swap(@, Place(q.pipes, p), q.active), !.active = @ + 1]

Attach(q, p) == Activated([q EXCEPT !.pipes = Append(@, p)], p)

(* A faulty variant: it is passed over and stays where it was. *)
Deactivated_NoSwap(q) ==
  LET a == q.active - 1
  IN  [q EXCEPT !.active = a, !.current = IF @ = a THEN 0 ELSE @]

(* The current pipe has nothing for us: the last active one takes its place. *)
Deactivated(q) ==
  LET a == q.active - 1
  IN  [q EXCEPT !.pipes = Swap(@, q.current, a), !.active = a,
                !.current = IF @ = a THEN 0 ELSE @]

(* A faulty variant: the same pipe again. *)
Turned_Not(q, more) == q.current

(* After the last part it is the next pipe's turn. *)
Turned(q, more) == IF more THEN q.current ELSE (q.current + 1) % q.active

(* The loop of recvpipe, sendpipe, has_in and has_out: go on until the     *)
(* current pipe is one of ok.                                              *)
Settle(q, ok) ==
  LET after[k \in 0 .. q.active] ==
        IF k = 0 THEN q
        ELSE IF after[k - 1].active = 0 \/ At(after[k - 1]) \in ok
             THEN after[k - 1]
             ELSE Deactivated(after[k - 1])
  IN  after[q.active]

(* A faulty variant: the pipes behind it move up, current stays. *)
Terminated_Shifts(q, p) ==
  LET i == Place(q.pipes, p)
  IN  [q EXCEPT !.pipes = SubSeq(@, 1, i) \o SubSeq(@, i + 2, Len(@)),
                !.active = IF i < @ THEN @ - 1 ELSE @,
                !.current = IF i < q.active /\ @ = q.active - 1 THEN 0 ELSE @]

Terminated(q, p) ==
  LET i == Place(q.pipes, p)
      a == q.active - 1
      s == Swap(q.pipes, i, a)
  IN  IF i < q.active
      THEN [q EXCEPT !.pipes = Erase(s, a), !.active = a,
                     !.current = IF @ = a THEN 0 ELSE @]
      ELSE [q EXCEPT !.pipes = Erase(@, i)]

(* What befalls a message.  It is in progress on the last active pipe and  *)
(* an earlier one, not the first, ends: the pipe moves to the free place,  *)
(* current to 0, and the message goes on with the first pipe.              *)
Jumps(q, p) == q.more /\ q.current = q.active - 1 /\ Place(q.pipes, p) \in 1 .. q.current - 1
-----------------------------------------------------------------------------
TypeOK ==
  /\ traffic \in Traffic
  /\ st \in [Pipes -> State]
  /\ inq \in [Pipes -> Seq({"more", "last", "delimiter"})]
  /\ out \in [Pipes -> Seq(Message)] /\ open \in [Pipes -> Parts]
  /\ used \in [Pipes -> 0 .. Hwm]
  /\ in_active \in [Pipes -> BOOLEAN] /\ out_active \in [Pipes -> BOOLEAN]
  /\ \A q \in {fq, lb} : /\ q.active \in 0 .. Len(q.pipes)
                         /\ q.current \in 0 .. q.active
                         /\ q.more \in BOOLEAN
  /\ lb.dropping \in BOOLEAN
  /\ next \in 1 .. MaxPart
  /\ from \in Pipes \cup {None}
  /\ fate \in {"running", "aborted", "undefined"}
  /\ waits \in [Pipes -> Nat]
  /\ {half, astray, torn} \subseteq SUBSET Pipes
  /\ misplaced \in BOOLEAN

Init ==
  /\ traffic \in Traffic
  /\ st = [p \in Pipes |-> "new"]
  /\ inq = [p \in Pipes |-> <<>>] /\ in_active = [p \in Pipes |-> TRUE]
  /\ out = [p \in Pipes |-> <<>>] /\ open = [p \in Pipes |-> <<>>]
  /\ used = [p \in Pipes |-> 0] /\ out_active = [p \in Pipes |-> TRUE]
  /\ fq = [pipes |-> <<>>, active |-> 0, current |-> 0, more |-> FALSE]
  /\ lb = [pipes |-> <<>>, active |-> 0, current |-> 0, more |-> FALSE, dropping |-> FALSE]
  /\ next = 1
  /\ from = None
  /\ fate = "running"
  /\ waits = [p \in Pipes |-> 0]
  /\ half = {} /\ astray = {} /\ torn = {}
  /\ misplaced = FALSE
-----------------------------------------------------------------------------
Runs == fate = "running"

(* The peers. *)

Closed(p) == \E i \in DOMAIN inq[p] : inq[p][i] = "delimiter"
Linked == {p \in Readable : ~Closed(p)}

(* bound: one message at a time *)
PeerWrite(p) ==
  /\ Runs
  /\ "in" \in traffic
  /\ p \in Linked /\ inq[p] = <<>>
  /\ \E n \in 1 .. MaxPart :
       inq' = [inq EXCEPT ![p] = [i \in 1 .. n |-> IF i = n THEN "last" ELSE "more"]]
  /\ UNCHANGED <<traffic, st, in_active, out, open, used, out_active, inVars, outVars, waits, fate>>

(* The peer reads one message. *)
PeerRead(p) ==
  /\ Runs
  /\ p \in Linked /\ out[p] # <<>>
  /\ out' = [out EXCEPT ![p] = Tail(@)]
  /\ UNCHANGED <<traffic, st, inq, in_active, open, used, out_active, inVars, outVars, waits, fate>>

(* It terminates its end: a delimiter behind what it has written. *)
PeerTerminate(p) ==
  /\ Runs
  /\ p \in Linked
  /\ inq' = [inq EXCEPT ![p] = Append(@, "delimiter")]
  /\ UNCHANGED <<traffic, st, in_active, out, open, used, out_active, inVars, outVars, waits, fate>>
-----------------------------------------------------------------------------
(* Commands the socket processes for a pipe, between two calls.            *)

xattach_pipe(p) ==
  /\ Runs
  /\ st[p] = "new" /\ \A q \in 1 .. p - 1 : st[q] # "new"
  /\ st' = [st EXCEPT ![p] = "active"]
  /\ fq' = Attach(fq, p)
  /\ lb' = Attach(lb, p)
  /\ UNCHANGED <<traffic, inq, in_active, out, open, used, out_active, next, from, waits,
                 half, astray, torn, misplaced, fate>>

xread_activated(p) ==
  /\ Runs
  /\ p \in Readable /\ ~in_active[p] /\ inq[p] # <<>>
  /\ in_active' = [in_active EXCEPT ![p] = TRUE]
  /\ fq' = Activated(fq, p)
  /\ UNCHANGED <<traffic, st, inq, out, open, used, out_active, outVars, from, waits, half,
                 astray, fate>>

(* process_activate_write, with xwrite_activated when the pipe was full.   *)
(* One that is in the active part already is activated again; when all     *)
(* are, that reads past the end of the array.                              *)
xwrite_activated(p) ==
  /\ Runs
  /\ st[p] \in {"active", "waiting_for_delimiter"}
  /\ \E n \in Len(out[p]) .. used[p] - 1 : used' = [used EXCEPT ![p] = n]
  /\ IF st[p] = "active" /\ ~out_active[p]
     THEN /\ out_active' = [out_active EXCEPT ![p] = TRUE]
          /\ IF lb.active < Len(lb.pipes)
             THEN lb' = Activated(lb, p) /\ UNCHANGED fate
             ELSE fate' = "undefined" /\ UNCHANGED lb
     ELSE UNCHANGED <<out_active, lb, fate>>
  /\ UNCHANGED <<traffic, st, inq, in_active, out, open, inVars, next, torn, misplaced, waits>>

process_pipe_term(p) ==
  /\ Runs
  /\ st[p] = "active" /\ Closed(p)
  /\ st' = [st EXCEPT ![p] = "waiting_for_delimiter"]
  /\ UNCHANGED <<traffic, inq, in_active, out, open, used, out_active, inVars, outVars, waits, fate>>

(* terminate (false): zmq_disconnect, or a connection with ZMQ_IMMEDIATE   *)
(* that is lost.  The rest of a message that is being read goes with it.   *)
terminate(p) ==
  /\ Runs
  /\ p \in Readable
  /\ st' = [st EXCEPT ![p] = "closed"]
  /\ out_active' = [out_active EXCEPT ![p] = FALSE]
  /\ open' = [open EXCEPT ![p] = <<>>]
  /\ inq' = [inq EXCEPT ![p] = <<>>]       \* never looked at again
  /\ astray' = astray \cup ({p} \cap {from})
  /\ UNCHANGED <<traffic, in_active, out, used, fq, from, half, outVars, waits, fate>>

(* A faulty variant: the rest of the message is not dropped. *)
CutShort_Never(p) == FALSE

(* The pipe ends in the middle of the message that is sent to it. *)
CutShort(p) == lb.more /\ Place(lb.pipes, p) = lb.current

xpipe_terminated(p) ==
  /\ Runs
  /\ st[p] = "closed"
  /\ st' = [st EXCEPT ![p] = "gone"]
  /\ fq' = Terminated(fq, p)
  /\ lb' = [Terminated(lb, p) EXCEPT !.dropping = @ \/ CutShort(p)]
  /\ inq' = [inq EXCEPT ![p] = <<>>]
  /\ out' = [out EXCEPT ![p] = <<>>]
  /\ open' = [open EXCEPT ![p] = <<>>]
  /\ used' = [used EXCEPT ![p] = 0]
  /\ in_active' = [in_active EXCEPT ![p] = FALSE]
  /\ out_active' = [out_active EXCEPT ![p] = FALSE]
  /\ waits' = [waits EXCEPT ![p] = 0]
  /\ astray' = IF Jumps(fq, p) THEN astray \cup {from} ELSE astray
  /\ torn' = (IF Jumps(lb, p) /\ ~lb.dropping THEN torn \cup {At(lb), lb.pipes[1]} ELSE torn) \ {p}
  /\ UNCHANGED <<traffic, next, from, half, misplaced, fate>>
-----------------------------------------------------------------------------
(* recvpipe and has_in. *)

HasMessage == {p \in Readable : in_active[p] /\ inq[p] # <<>> /\ Head(inq[p]) # "delimiter"}

(* What pipe_t::read leaves in the pipes that had no message. *)
ReadFailed(asked) ==
  LET live == {p \in asked : p \in Readable /\ in_active[p]}
      delimited == {p \in live : inq[p] # <<>>}
  IN  /\ in_active' = [p \in Pipes |-> in_active[p] /\ p \notin live \ delimited]
      /\ st' = [p \in Pipes |-> IF p \in delimited THEN "closed" ELSE st[p]]

(* A message of p's is complete while the others of ready wait. *)
Counted(p, ready) == [q \in Pipes |-> IF q \in ready \ {p} THEN waits[q] + 1 ELSE 0]

(* The assertion on a message that was begun. *)
RecvAborts ==
  /\ fq.more /\ fq.active > 0 /\ At(fq) \notin HasMessage
  /\ fate' = "aborted"
  /\ UNCHANGED <<traffic, pipeVars, inVars, outVars, waits>>

RecvTakes ==
  /\ fq.more /\ fq.active > 0 => At(fq) \in HasMessage
  /\ LET q == Settle(fq, HasMessage)
         p == At(q)
         more == Head(inq[p]) = "more"
     IN  /\ ReadFailed(ActivePart(fq) \ ActivePart(q))
         /\ IF q.active = 0
            THEN /\ fq' = q
                 /\ UNCHANGED <<inq, from, waits, half, astray>>
            ELSE /\ inq' = [inq EXCEPT ![p] = Tail(@)]
                 /\ fq' = [q EXCEPT !.more = more,
                                    !.current = Turned(q, more)]
                 /\ from' = IF more THEN p ELSE None
                 /\ waits' = IF more THEN waits ELSE Counted(p, HasMessage)
                 /\ half' = IF more THEN half \cup {p} ELSE half \ {p}
                 /\ astray' = IF more THEN astray ELSE astray \ {p}
  /\ UNCHANGED <<traffic, out, open, used, out_active, outVars, fate>>

recvpipe ==
  /\ Runs
  /\ "in" \in traffic
  /\ RecvAborts \/ RecvTakes

xhas_in ==
  /\ Runs
  /\ "in" \in traffic
  /\ ~fq.more
  /\ fq' = Settle(fq, HasMessage)
  /\ ReadFailed(ActivePart(fq) \ ActivePart(fq'))
  /\ UNCHANGED <<traffic, inq, out, open, used, out_active, from, half, astray, outVars,
                 waits, fate>>
-----------------------------------------------------------------------------
(* sendpipe and has_out. *)

Full(p) == used[p] >= Hwm
HasRoom == {p \in Pipes : out_active[p] /\ st[p] = "active" /\ ~Full(p)}

(* What check_write leaves in the pipes that were asked in vain. *)
WriteFailed(asked) ==
  out_active' = [p \in Pipes |->
    out_active[p] /\ ~(p \in asked /\ st[p] = "active" /\ Full(p))]

(* What the application sends after a part that was taken. *)
Following(more) == IF more THEN next + 1 ELSE 1

SendDropped(more) ==
  /\ lb.dropping
  /\ lb' = [lb EXCEPT !.more = more, !.dropping = more]
  /\ next' = Following(more)
  /\ UNCHANGED <<traffic, pipeVars, inVars, torn, misplaced, waits, fate>>

(* A later part that does not fit: EAGAIN.  The application begins the     *)
(* message again, or, as a blocking zmq_send does, tries the part again.   *)
SendRolledBack ==
  /\ ~lb.dropping
  /\ lb.more /\ lb.active > 0 /\ At(lb) \notin HasRoom
  /\ WriteFailed({At(lb)})
  /\ open' = [open EXCEPT ![At(lb)] = <<>>]
  /\ lb' = [lb EXCEPT !.more = FALSE]
  /\ next' \in {1, next}
  /\ torn' = torn \ {At(lb)}
  /\ misplaced' = (misplaced \/ st[At(lb)] = "active")
  /\ UNCHANGED <<traffic, st, inq, in_active, out, used, inVars, waits, fate>>

(* A message that begins with a later part is one that was rolled back.    *)
SendWritten(more) ==
  /\ ~lb.dropping
  /\ lb.more /\ lb.active > 0 => At(lb) \in HasRoom
  /\ LET q == Settle(lb, HasRoom)
         p == At(q)
         written == Append(open[p], next)
         amiss == IF ~lb.more /\ next > 1 THEN torn \cup {p} ELSE torn
     IN  /\ WriteFailed(ActivePart(lb) \ ActivePart(q))
         /\ IF q.active = 0
            THEN /\ lb' = q
                 /\ UNCHANGED <<out, open, used, next, torn, waits>>
            ELSE /\ open' = [open EXCEPT ![p] = IF more THEN written ELSE <<>>]
                 /\ out' = [out EXCEPT ![p] = IF more THEN @
                              ELSE Append(@, [parts |-> written, torn |-> p \in amiss])]
                 /\ used' = [used EXCEPT ![p] = IF more THEN @ ELSE @ + 1]
                 /\ lb' = [q EXCEPT !.more = more,
                                    !.current = Turned(q, more)]
                 /\ next' = Following(more)
                 /\ torn' = IF more THEN amiss ELSE amiss \ {p}
                 /\ waits' = IF more THEN waits ELSE Counted(p, HasRoom)
  /\ UNCHANGED <<traffic, st, inq, in_active, inVars, misplaced, fate>>

sendpipe ==
  /\ Runs
  /\ "out" \in traffic
  /\ \/ SendRolledBack
     \/ \E more \in {m \in BOOLEAN : m => next < MaxPart} :
          SendDropped(more) \/ SendWritten(more)

xhas_out ==
  /\ Runs
  /\ "out" \in traffic
  /\ ~lb.more
  /\ lb' = Settle(lb, HasRoom)
  /\ WriteFailed(ActivePart(lb) \ ActivePart(lb'))
  /\ UNCHANGED <<traffic, st, inq, in_active, out, open, used, inVars, next, torn, misplaced,
                 waits, fate>>
-----------------------------------------------------------------------------
Next ==
  \/ \E p \in Pipes :
       \/ PeerWrite(p) \/ PeerRead(p) \/ PeerTerminate(p)
       \/ xattach_pipe(p) \/ xread_activated(p) \/ xwrite_activated(p)
       \/ process_pipe_term(p) \/ terminate(p) \/ xpipe_terminated(p)
  \/ recvpipe \/ xhas_in
  \/ sendpipe \/ xhas_out

Spec == Init /\ [][Next]_vars
-----------------------------------------------------------------------------
(* fq.cpp: "If we've already received the first part of the message we     *)
(* should get the remaining parts without blocking": the rest is in the    *)
(* current pipe, whatever has happened to the others.                      *)
RestIsThere == fq.more => /\ fq.active > 0
                          /\ At(fq) = from
                          /\ from \in HasMessage

(* What was written of a message so far, each part once and in order. *)
Whole(parts) == \A i \in DOMAIN parts : parts[i] = i

(* doc/zmq_send.txt: a peer receives all parts of a message or none.       *)
(* Whatever blocks, comes back or ends between two parts, each message a   *)
(* peer can read is whole, the application gets the rest of what it has    *)
(* begun to read, and the assertion on it holds, but for these:            *)
(* - the message in progress that jumps: the next message to the pipe it   *)
(*   leaves, and to the pipe that is given the rest;                       *)
(* - the message that begins with the part its application has tried       *)
(*   again after the parts before it were rolled back;                     *)
(* - the message whose pipe the user terminates while it reads it.         *)
WholeMessages ==
  /\ \A p \in Pipes :
       /\ \A i \in DOMAIN out[p] : out[p][i].torn \/ Whole(out[p][i].parts)
       /\ p \in torn \/ Whole(open[p])
  /\ from \in astray \/ RestIsThere
  /\ half \subseteq astray \cup {from}
  /\ fate = "aborted" => from \in astray

(* The two arrays hold the pipes of the socket, each once.  The active     *)
(* part of fq is the pipes it may read from, and that of lb those it may   *)
(* write to: one outside would never be asked.  A full one inside, that    *)
(* a message has jumped to, would be activated once too often.             *)
Partitions ==
  /\ TypeOK
  /\ \A q \in {fq, lb} :
       /\ Attached(q) = {p \in Pipes : st[p] \notin {"new", "gone"}}
       /\ Len(q.pipes) = Cardinality(Attached(q))
       /\ q.active > 0 => q.current < q.active
  /\ \A p \in Readable : in_active[p] <=> p \in ActivePart(fq)
  /\ \A p \in Pipes : st[p] = "active" =>
       /\ out_active[p] => p \in ActivePart(lb)
       /\ p \in ActivePart(lb) => out_active[p] \/ misplaced
  /\ fate = "undefined" => misplaced

(* Fair queueing and load balancing: while a pipe has a message, or room   *)
(* for one, the others are served N - 1 times at most before its turn      *)
(* comes, though they come, block and the array is reordered each time.    *)
(* Only a pipe that ends can take the turn of the last active one, which   *)
(* moves to its place: each costs that pipe a round more.                  *)
Ended == {p \in Pipes : st[p] = "gone"}
Turns == (N - 1) * (1 + Cardinality(Ended))

FairShare == \A p \in Pipes : waits[p] <= Turns
-----------------------------------------------------------------------------
(* What the code does not promise, see the README. *)

(* doc/zmq_send.txt, without exceptions. *)
NeverTorn == \A p \in Pipes : \A i \in DOMAIN out[p] : Whole(out[p][i].parts)

(* The parts of a message go where its first one went. *)
RestFollows ==
  lb.more /\ ~lb.dropping /\ lb.active > 0 /\ At(lb) \in HasRoom => open[At(lb)] # <<>>

(* lb.hpp: "All the active pipes are located at the beginning of the pipes *)
(* array": no pipe is activated twice, to read past its end.               *)
NeverPastTheEnd == fate # "undefined"
-----------------------------------------------------------------------------
(* What the properties above rest on: the inductive invariant. *)

Array == [pipes: Seq(Pipes), active: Nat, current: Nat, more: BOOLEAN]
Balancer == [pipes: Seq(Pipes), active: Nat, current: Nat, more: BOOLEAN, dropping: BOOLEAN]

Typed == TypeOK /\ fq \in Array /\ lb \in Balancer

(* No pipe twice, and the current one is active. *)
Arranged(q) ==
  /\ \A i, j \in DOMAIN q.pipes : q.pipes[i] = q.pipes[j] => i = j
  /\ q.active <= Len(q.pipes)
  /\ IF q.active = 0 THEN q.current = 0 ELSE q.current < q.active

Arrays ==
  \A q \in {fq, lb} :
    Arranged(q) /\ Attached(q) = {p \in Pipes : st[p] \notin {"new", "gone"}}

(* A pipe that blocks leaves the active part, and no other.                *)
Flags ==
  /\ \A p \in Readable : in_active[p] <=> p \in ActivePart(fq)
  /\ \A p \in Pipes : st[p] = "active" =>
       /\ out_active[p] => p \in ActivePart(lb)
       /\ p \in ActivePart(lb) => out_active[p] \/ misplaced
  /\ fate = "undefined" => misplaced
  /\ \A p \in Pipes : st[p] = "new" => in_active[p] /\ out_active[p]

(* The parts of a message are flushed together, and none of the others'    *)
(* coming and going takes the current pipe from under a message, but for   *)
(* those that are recorded.                                                *)
Reading ==
  /\ \A p \in Pipes : \A i \in DOMAIN inq[p] :
       inq[p][i] = "more" => i < Len(inq[p]) /\ inq[p][i + 1] # "delimiter"
  /\ fq.more <=> from # None
  /\ from # None => from \in half

Sending == lb.more /\ ~lb.dropping
Writable(p) == st[p] = "active" /\ out_active[p]

(* What is written and not flushed is the beginning of the message that    *)
(* is being sent, and its pipe has room for the rest, unless it ends.      *)
Writing ==
  /\ lb.dropping => lb.more
  /\ \A p \in Pipes \ torn : open[p] # <<>> =>
       /\ Sending /\ p = At(lb)
       /\ st[p] = "active" => out_active[p]
  /\ Sending => /\ lb.active > 0
                /\ \/ At(lb) \in torn
                   \/ ~Writable(At(lb))
                   \/ fate = "undefined"
                   \/ Len(open[At(lb)]) = next - 1 /\ ~Full(At(lb))

(* How many others are served before the pipe at place k at most. *)
Rank(q, k) == IF q.current <= k THEN k - q.current ELSE N - q.current + k

(* One direction: a pipe that has waited is ready, or will never be again, *)
(* and the turns to come are counted with those that went by.              *)
Waiting(q, ready, ends) ==
  /\ \A p \in Pipes : waits[p] > 0 => p \in ready \/ st[p] \in ends
  /\ \A i \in 1 .. q.active :
       q.pipes[i] \in ready => waits[q.pipes[i]] + Rank(q, i - 1) <= Turns

OneWay == traffic # {"in", "out"}

Turning ==
  /\ \A p \in Pipes : waits[p] <= Turns
  /\ "in" \in traffic => Waiting(fq, HasMessage, {"closed"})
  /\ "out" \in traffic => Waiting(lb, HasRoom, {"closed", "waiting_for_delimiter"})
  /\ traffic = {} => \A p \in Pipes : waits[p] = 0

IInv == Typed /\ Arrays /\ Flags /\ Reading /\ Writing /\ WholeMessages /\ (OneWay => Turning)
=============================================================================
