------------------------------ MODULE PipePair ------------------------------
(***************************************************************************)
(* The two pipe_t objects that pipepair makes (libzmq/src/pipe.cpp), one   *)
(* for the session's thread and one for the socket's.  They share two      *)
(* ypipes, one for each direction, and send each other commands through    *)
(* the mailboxes of their threads.  The module has the flow control        *)
(* between the marks, the hiccup that replaces a ypipe under its writer,   *)
(* and the termination handshake, for every call the user of an end makes. *)
(*                                                                         *)
(* A ypipe does what FlushStream promises and a command arrives in the     *)
(* order Mailbox promises.                                                 *)
(***************************************************************************)
EXTENDS Integers, Sequences, SequencesExt, FiniteSetsExt, FiniteSets

CONSTANTS
  NULL,
  Settings   \* what a behaviour may be given: see the fields of setting

End == {"session", "socket"}

peer(e) == IF e = "session" THEN "socket" ELSE "session"

ASSUME PipePairAssumption ==
  \A s \in Settings :
    /\ {s.Hwm, s.InBoost, s.OutBoost} \subseteq [End -> Int]
    /\ s.Kind \in [End -> SUBSET {"identity", "credential"}]
    /\ UNION {s.MayNodelay, s.MayHiccup, s.MaySetHwm, s.MayTerminate} \subseteq End
    /\ s.NewHwm \subseteq Int
    /\ s.MaxMsg \in [End -> Nat]
    /\ {s.MaxPart, s.MaxHiccup, s.MaxSetHwm, s.MaxTerminate} \subseteq Nat
    /\ NULL \notin 1 .. 2 + s.MaxHiccup
    \* only the session of a connection hiccups, and its socket writes it no identity
    /\ \A e \in s.MayHiccup : "identity" \notin s.Kind[peer(e)]

VARIABLES
  ypipe,     \* the upipe_t objects
  end,       \* the pipe_t objects
  cmds,      \* commands on their way to each end
  finishing, \* the end is in terminate, past send_pipe_term
  user,      \* what the user of each end has done and seen
  used       \* hiccups and changes of marks so far, and the setting

vars == <<ypipe, end, cmds, finishing, user, used>>

setting == used.setting
Hwm == setting.Hwm                    \* high water mark of the ypipe each end writes to
InBoost == setting.InBoost            \* inhwmboost of each end, -1 where nobody sets it
OutBoost == setting.OutBoost
Kind == setting.Kind                  \* what each end writes besides its data
MayNodelay == setting.MayNodelay      \* ends whose user may have called set_nodelay
MayHiccup == setting.MayHiccup        \* ends whose user calls hiccup
MaySetHwm == setting.MaySetHwm        \* ends whose user changes the marks ...
NewHwm == setting.NewHwm              \* ... and the marks it chooses
MayTerminate == setting.MayTerminate  \* ends whose user calls terminate
MaxMsg == setting.MaxMsg              \* bound: messages written by each end
MaxPart == setting.MaxPart            \* bound: parts of a message
MaxHiccup == setting.MaxHiccup        \* bound: hiccups
MaxSetHwm == setting.MaxSetHwm        \* bound: changes of the marks
MaxTerminate == setting.MaxTerminate  \* bound: calls of terminate by each user

Ypipe == 1 .. 2 + MaxHiccup    \* every upipe_t that is ever allocated

State == {"active", "delimiter_received", "waiting_for_delimiter",
          "term_ack_sent", "term_req_sent1", "term_req_sent2", "deleted"}

(* Half of the high water mark, rounded up; C gives 0 for -1. *)
compute_lwm(hwm) == IF hwm < 0 THEN 0 ELSE (hwm + 1) \div 2

NewYpipe == [held |-> <<>>, avail |-> <<>>, asleep |-> FALSE, status |-> "live"]

Init ==
  /\ used \in [hiccups : {0}, hwms : {0}, setting : Settings]
  /\ ypipe = [y \in Ypipe |-> IF y <= 2 THEN NewYpipe
                                        ELSE [NewYpipe EXCEPT !.status = "unused"]]
  /\ \E delay \in {d \in [End -> BOOLEAN] : \A e \in End \ MayNodelay : d[e]} :
       end = [e \in End |->
         [state |-> "active", delay |-> delay[e],
          inpipe |-> IF e = "session" THEN 2 ELSE 1,
          outpipe |-> IF e = "session" THEN 1 ELSE 2,
          in_active |-> TRUE, out_active |-> TRUE,
          hwm |-> Hwm[e], lwm |-> compute_lwm(Hwm[peer(e)]),
          msgs_read |-> 0, msgs_written |-> 0, peers_msgs_read |-> 0]]
  /\ cmds = [e \in End |-> <<>>]
  /\ finishing = [e \in End |-> FALSE]
  /\ user = [e \in End |->
       [written |-> 0, parts |-> 0,            \* whole messages, parts of the next
        last |-> [msg |-> 0, part |-> 1, more |-> FALSE],   \* last frame it was given
        terms |-> 0]]
-----------------------------------------------------------------------------
(* The effect of ypipe_t's operations on one ypipe q. *)

Complete(frame) == ~frame.more

(* The place of the last part of the last whole message, or 0. *)
LastWhole(frames) == SelectLastInSeq(frames, Complete)

(* Faulty variants: rollback of messages that are whole, flush of parts.   *)
RolledBack_Everything(q) == [q EXCEPT !.held = <<>>]

Flushed_Parts(q) == IF q.held = <<>> THEN q
                    ELSE [q EXCEPT !.avail = @ \o q.held, !.held = <<>>, !.asleep = FALSE]

RolledBack(q) == [q EXCEPT !.held = SubSeq(@, 1, LastWhole(@))]

Flushed(q) ==
  LET n == LastWhole(q.held)
  IN  IF n = 0 THEN q
      ELSE [q EXCEPT !.avail = @ \o SubSeq(q.held, 1, n),
                     !.held = SubSeq(@, n + 1, Len(@)),
                     !.asleep = FALSE]

(* flush returns false *)
FindsAsleep(q) == q.asleep /\ LastWhole(q.held) # 0

Drained(q, n) == [q EXCEPT !.avail = SubSeq(@, n + 1, Len(@))]

(* How many messages have their last part among the frames. *)
Messages(frames) == Cardinality({i \in DOMAIN frames : Complete(frames[i])})

FoundEmpty(q) == [q EXCEPT !.avail = <<>>, !.asleep = TRUE]

Delimiter(e) == [msg |-> user[e].written + 1, part |-> 1, more |-> FALSE,
                 kind |-> "delimiter"]

IsCredential(frame) == frame.kind = "credential"
IsDelimiter(frame) == frame.kind = "delimiter"

(* The place of the first frame that is not a credential, or 0. *)
NextItem(frames) == SelectInSeq(frames, LAMBDA f : ~IsCredential(f))
-----------------------------------------------------------------------------
In(e) == ypipe[end[e].inpipe]
Out(e) == ypipe[end[e].outpipe]

(* e's thread can run a handler, or its user can call e. *)
Runs(e) == end[e].state # "deleted" /\ ~finishing[e]

Readable(e) == /\ Runs(e)
               /\ end[e].in_active
               /\ end[e].state \in {"active", "waiting_for_delimiter"}

Send(e, commands) == cmds' = [cmds EXCEPT ![e] = @ \o commands]

(* What a flush of q by e sends. *)
ActivateRead(q) == IF FindsAsleep(q) THEN <<<<"activate_read">>>> ELSE <<>>

(* Unsigned: a peer that has read more than was written makes it full.     *)
check_hwm(e) ==
  LET p == end[e]
  IN  ~ (p.hwm > 0 /\ \/ p.msgs_written < p.peers_msgs_read
                      \/ p.msgs_written - p.peers_msgs_read >= p.hwm)

set_hwms(e, p, inhwm, outhwm) ==
  LET in == IF inhwm <= 0 \/ InBoost[e] = 0 THEN 0
            ELSE inhwm + (IF InBoost[e] > 0 THEN InBoost[e] ELSE 0)
      out == IF outhwm <= 0 \/ OutBoost[e] = 0 THEN 0
             ELSE outhwm + (IF OutBoost[e] > 0 THEN OutBoost[e] ELSE 0)
  IN  [p EXCEPT !.lwm = compute_lwm(in), !.hwm = out]
-----------------------------------------------------------------------------
(* Calls of the user of end e. *)

CanWrite(e) == Runs(e) /\ end[e].out_active /\ end[e].state = "active"

(* write: one part of a message, or an identity or a credential, which     *)
(* come before the data.  Identities do not count towards the mark.        *)
Write(e, kind, more) ==
  /\ CanWrite(e)
  /\ check_hwm(e)
  /\ user[e].written < MaxMsg[e]
  /\ CASE kind = "data" -> more => user[e].parts + 1 < MaxPart
       [] kind = "identity" -> user[e].written = 0 /\ user[e].parts = 0 /\ ~more
       [] kind = "credential" -> user[e].parts = 0 /\ ~more
  /\ LET frame == [msg |-> user[e].written + 1, part |-> user[e].parts + 1,
                   more |-> more, kind |-> kind]
     IN  ypipe' = [ypipe EXCEPT ![end[e].outpipe].held = Append(@, frame)]
  /\ user' = [user EXCEPT ![e].written = IF more THEN @ ELSE @ + 1,
                          ![e].parts = IF more THEN @ + 1 ELSE 0]
  /\ end' = IF more \/ kind = "identity" THEN end
            ELSE [end EXCEPT ![e].msgs_written = @ + 1]
  /\ UNCHANGED <<cmds, finishing, used>>

(* write and check_write at the mark. *)
WriteFails(e) ==
  /\ CanWrite(e)
  /\ ~check_hwm(e)
  /\ end' = [end EXCEPT ![e].out_active = FALSE]
  /\ UNCHANGED <<ypipe, cmds, finishing, user, used>>

rollback(e) ==
  /\ Runs(e)
  /\ user[e].parts > 0
  /\ ypipe' = IF end[e].outpipe = NULL THEN ypipe
              ELSE [ypipe EXCEPT ![end[e].outpipe] = RolledBack(@)]
  /\ user' = [user EXCEPT ![e].parts = 0]
  /\ UNCHANGED <<end, cmds, finishing, used>>

flush(e) ==
  /\ Runs(e)
  /\ end[e].state # "term_ack_sent"
  /\ end[e].outpipe # NULL
  /\ Flushed(Out(e)) # Out(e)
  /\ ypipe' = [ypipe EXCEPT ![end[e].outpipe] = Flushed(@)]
  /\ Send(peer(e), ActivateRead(Out(e)))
  /\ UNCHANGED <<end, finishing, user, used>>

(* read of an item that is the user's: credentials before it are kept by   *)
(* the pipe.  The peer learns how much was read at every multiple of lwm.  *)
ReadMessage(e) ==
  /\ Readable(e)
  /\ LET n == NextItem(In(e).avail)
         frame == In(e).avail[n]
         p == IF frame.more \/ frame.kind = "identity" THEN end[e]
              ELSE [end[e] EXCEPT !.msgs_read = @ + 1]
     IN  /\ n # 0
         /\ ~IsDelimiter(frame)
         /\ ypipe' = [ypipe EXCEPT ![end[e].inpipe] = Drained(@, n)]
         /\ end' = [end EXCEPT ![e] = p]
         /\ Send(peer(e), IF p.lwm > 0 /\ p.msgs_read % p.lwm = 0
                          THEN <<<<"activate_write", p.msgs_read>>>> ELSE <<>>)
         /\ user' = [user EXCEPT ![e].last =
                       [msg |-> frame.msg, part |-> frame.part, more |-> frame.more]]
  /\ UNCHANGED <<finishing, used>>

(* read and check_read of a delimiter, and process_delimiter. *)
ReadDelimiter(e) ==
  /\ Readable(e)
  /\ LET n == NextItem(In(e).avail)
     IN  /\ n # 0
         /\ IsDelimiter(In(e).avail[n])
         /\ ypipe' = [ypipe EXCEPT ![end[e].inpipe] = Drained(@, n)]
  /\ IF end[e].state = "active"
     THEN /\ end' = [end EXCEPT ![e].state = "delimiter_received"]
          /\ UNCHANGED cmds
     ELSE /\ end' = [end EXCEPT ![e].state = "term_ack_sent", ![e].outpipe = NULL]
          /\ Send(peer(e), <<<<"pipe_term_ack">>>>)
  /\ UNCHANGED <<finishing, user, used>>

(* A faulty variant: waiting ends when the ypipe is empty. *)
ReadEmpty_AsDelimiter(e) ==
  /\ Readable(e)
  /\ \A i \in DOMAIN In(e).avail : IsCredential(In(e).avail[i])
  /\ ypipe' = [ypipe EXCEPT ![end[e].inpipe] = FoundEmpty(@)]
  /\ IF end[e].state = "waiting_for_delimiter"
     THEN /\ end' = [end EXCEPT ![e].state = "term_ack_sent", ![e].outpipe = NULL]
          /\ Send(peer(e), <<<<"pipe_term_ack">>>>)
     ELSE /\ end' = [end EXCEPT ![e].in_active = FALSE]
          /\ UNCHANGED cmds
  /\ UNCHANGED <<finishing, user, used>>

(* read and check_read with nothing (but credentials) in the ypipe. *)
ReadEmpty(e) ==
  /\ Readable(e)
  /\ \A i \in DOMAIN In(e).avail : IsCredential(In(e).avail[i])
  /\ ypipe' = [ypipe EXCEPT ![end[e].inpipe] = FoundEmpty(@)]
  /\ end' = [end EXCEPT ![e].in_active = FALSE]
  /\ UNCHANGED <<cmds, finishing, user, used>>

(* A faulty variant: the new ypipe counts as empty already. *)
hiccup_StaysPassive(e) ==
  /\ Runs(e) /\ e \in MayHiccup
  /\ end[e].state = "active"
  /\ ~user[e].last.more
  /\ used.hiccups < MaxHiccup
  /\ LET new == 3 + used.hiccups
     IN  /\ ypipe' = [ypipe EXCEPT ![new] = NewYpipe]
         /\ end' = [end EXCEPT ![e].inpipe = new]
         /\ Send(peer(e), <<<<"hiccup", new>>>>)
  /\ used' = [used EXCEPT !.hiccups = @ + 1]
  /\ UNCHANGED <<finishing, user>>

(* hiccup, on a reconnection: the session has read any message to its end. *)
hiccup(e) ==
  /\ Runs(e) /\ e \in MayHiccup
  /\ end[e].state = "active"
  /\ ~user[e].last.more
  /\ used.hiccups < MaxHiccup
  /\ LET new == 3 + used.hiccups
     IN  /\ ypipe' = [ypipe EXCEPT ![new] = NewYpipe]
         /\ end' = [end EXCEPT ![e].inpipe = new, ![e].in_active = TRUE]
         /\ Send(peer(e), <<<<"hiccup", new>>>>)
  /\ used' = [used EXCEPT !.hiccups = @ + 1]
  /\ UNCHANGED <<finishing, user>>

(* A faulty variant: the peer is told the marks as this end sees them.     *)
ChangeHwms_NotSwapped(e, rcvhwm, sndhwm) ==
  /\ Runs(e) /\ e \in MaySetHwm
  /\ used.hwms < MaxSetHwm
  /\ end' = [end EXCEPT ![e] = set_hwms(e, @, rcvhwm, sndhwm)]
  /\ Send(peer(e), <<<<"pipe_hwm", rcvhwm, sndhwm>>>>)
  /\ used' = [used EXCEPT !.hwms = @ + 1]
  /\ UNCHANGED <<ypipe, finishing, user>>

(* update_pipe_options: set_hwms here, send_hwms_to_peer for the peer.     *)
ChangeHwms(e, rcvhwm, sndhwm) ==
  /\ Runs(e) /\ e \in MaySetHwm
  /\ used.hwms < MaxSetHwm
  /\ end' = [end EXCEPT ![e] = set_hwms(e, @, rcvhwm, sndhwm)]
  /\ Send(peer(e), <<<<"pipe_hwm", sndhwm, rcvhwm>>>>)
  /\ used' = [used EXCEPT !.hwms = @ + 1]
  /\ UNCHANGED <<ypipe, finishing, user>>
-----------------------------------------------------------------------------
(* terminate *)

Terminates(e) == /\ Runs(e) /\ e \in MayTerminate
                 /\ user[e].terms < MaxTerminate
                 /\ user' = [user EXCEPT ![e].terms = @ + 1]
                 /\ UNCHANGED used

(* Faulty variants: a second request; a delimiter that is not flushed.     *)
TerminateRequest_Again(e, delay) ==
  /\ Terminates(e)
  /\ end[e].state \in {"active", "delimiter_received", "term_req_sent1"}
  /\ end' = [end EXCEPT ![e].delay = delay, ![e].state = "term_req_sent1"]
  /\ Send(peer(e), <<<<"pipe_term">>>>)
  /\ finishing' = [finishing EXCEPT ![e] = TRUE]
  /\ UNCHANGED ypipe

TerminateFinish_NoFlush(e) ==
  /\ finishing[e]
  /\ finishing' = [finishing EXCEPT ![e] = FALSE]
  /\ end' = [end EXCEPT ![e].out_active = FALSE]
  /\ ypipe' = [ypipe EXCEPT ![end[e].outpipe] =
                  [RolledBack(@) EXCEPT !.held = Append(@, Delimiter(e))]]
  /\ user' = [user EXCEPT ![e].parts = 0]
  /\ UNCHANGED <<cmds, used>>

(* In every other state: only delay is overloaded. *)
TerminateIgnored(e, delay) ==
  /\ Terminates(e)
  /\ end[e].state \in {"term_req_sent1", "term_req_sent2", "term_ack_sent"}
  /\ end' = [end EXCEPT ![e].delay = delay]
  /\ UNCHANGED <<ypipe, cmds, finishing>>

(* send_pipe_term; the peer may act on it before the delimiter is written. *)
TerminateRequest(e, delay) ==
  /\ Terminates(e)
  /\ end[e].state \in {"active", "delimiter_received"}
  /\ end' = [end EXCEPT ![e].delay = delay, ![e].state = "term_req_sent1"]
  /\ Send(peer(e), <<<<"pipe_term">>>>)
  /\ finishing' = [finishing EXCEPT ![e] = TRUE]
  /\ UNCHANGED ypipe

(* The peer has asked already, and this end waits for its delimiter. *)
TerminateWaiting(e, delay) ==
  /\ Terminates(e)
  /\ end[e].state = "waiting_for_delimiter"
  /\ IF delay
     THEN /\ end' = [end EXCEPT ![e].delay = TRUE]
          /\ finishing' = [finishing EXCEPT ![e] = TRUE]
          /\ UNCHANGED cmds
     ELSE /\ end' = [end EXCEPT ![e].delay = FALSE, ![e].state = "term_ack_sent",
                                ![e].outpipe = NULL, ![e].out_active = FALSE]
          /\ Send(peer(e), <<<<"pipe_term_ack">>>>)
          /\ UNCHANGED finishing
  /\ UNCHANGED ypipe

(* Stop the outbound flow: roll back, write a delimiter and flush. *)
TerminateFinish(e) ==
  /\ finishing[e]
  /\ finishing' = [finishing EXCEPT ![e] = FALSE]
  /\ end' = [end EXCEPT ![e].out_active = FALSE]
  /\ LET q == [RolledBack(Out(e)) EXCEPT !.held = Append(@, Delimiter(e))]
     IN  /\ ypipe' = [ypipe EXCEPT ![end[e].outpipe] = Flushed(q)]
         /\ Send(peer(e), ActivateRead(q))
  /\ user' = [user EXCEPT ![e].parts = 0]
  /\ UNCHANGED used
-----------------------------------------------------------------------------
(* Commands that end e processes. *)

Receives(e, type) == /\ Runs(e)
                     /\ cmds[e] # <<>>
                     /\ Head(cmds[e])[1] = type
                     /\ UNCHANGED <<finishing, used>>

(* The command is consumed and the peer is sent others. *)
Answer(e, commands) ==
  cmds' = [cmds EXCEPT ![e] = Tail(@), ![peer(e)] = @ \o commands]

(* Faulty variants: the peer's count is not kept; the old ypipe is not     *)
(* deleted, is deleted but still used, or all counting starts again; an    *)
(* ack for every ack.                                                      *)
process_activate_write_KeepsCount(e) ==
  /\ Receives(e, "activate_write")
  /\ end' = [end EXCEPT ![e].out_active = @ \/ end[e].state = "active"]
  /\ Answer(e, <<>>)
  /\ UNCHANGED <<ypipe, user>>

process_hiccup_NoDelete(e) ==
  /\ Receives(e, "hiccup")
  /\ LET drained == Messages(Flushed(Out(e)).avail)
     IN  end' = [end EXCEPT ![e].outpipe = Head(cmds[e])[2], ![e].out_active = TRUE,
                            ![e].msgs_written = @ - drained]
  /\ Answer(e, <<>>)
  /\ UNCHANGED <<ypipe, user>>

process_hiccup_KeepsOld(e) ==
  /\ Receives(e, "hiccup")
  /\ LET drained == Messages(Flushed(Out(e)).avail)
     IN  /\ ypipe' = [ypipe EXCEPT ![end[e].outpipe].status = "freed"]
         /\ end' = [end EXCEPT ![e].out_active = TRUE, ![e].msgs_written = @ - drained]
  /\ Answer(e, <<>>)
  /\ UNCHANGED user

process_hiccup_ResetsCount(e) ==
  /\ Receives(e, "hiccup")
  /\ ypipe' = [ypipe EXCEPT ![end[e].outpipe].status = "freed"]
  /\ end' = [end EXCEPT ![e].outpipe = Head(cmds[e])[2], ![e].out_active = TRUE,
                        ![e].msgs_written = 0]
  /\ Answer(e, <<>>)
  /\ UNCHANGED user

process_pipe_term_ack_Always(e) ==
  /\ Receives(e, "pipe_term_ack")
  /\ ypipe' = [ypipe EXCEPT ![end[e].inpipe].status = "freed"]
  /\ end' = [end EXCEPT ![e].state = "deleted", ![e].inpipe = NULL, ![e].outpipe = NULL]
  /\ Answer(e, <<<<"pipe_term_ack">>>>)
  /\ UNCHANGED user

process_activate_read(e) ==
  /\ Receives(e, "activate_read")
  /\ end' = IF end[e].state \in {"active", "waiting_for_delimiter"}
            THEN [end EXCEPT ![e].in_active = TRUE] ELSE end
  /\ Answer(e, <<>>)
  /\ UNCHANGED <<ypipe, user>>

process_activate_write(e) ==
  /\ Receives(e, "activate_write")
  /\ end' = [end EXCEPT ![e].peers_msgs_read = Head(cmds[e])[2],
                        ![e].out_active = @ \/ end[e].state = "active"]
  /\ Answer(e, <<>>)
  /\ UNCHANGED <<ypipe, user>>

(* The old outpipe, migrated to this thread, is flushed, drained and       *)
(* deleted with what it still holds.                                       *)
process_hiccup(e) ==
  /\ Receives(e, "hiccup")
  /\ LET new == Head(cmds[e])[2]
         drained == Messages(Flushed(Out(e)).avail)
     IN  /\ ypipe' = [ypipe EXCEPT ![end[e].outpipe].status = "freed"]
         /\ end' = [end EXCEPT ![e].outpipe = new, ![e].out_active = TRUE,
                               ![e].msgs_written = @ - drained]
  /\ Answer(e, <<>>)
  /\ UNCHANGED user

process_pipe_hwm(e) ==
  /\ Receives(e, "pipe_hwm")
  /\ end' = [end EXCEPT ![e] = set_hwms(e, @, Head(cmds[e])[2], Head(cmds[e])[3])]
  /\ Answer(e, <<>>)
  /\ UNCHANGED <<ypipe, user>>

process_pipe_term(e) ==
  /\ Receives(e, "pipe_term")
  /\ LET p == end[e]
         ack == /\ end' = [end EXCEPT ![e].outpipe = NULL,
                              ![e].state = IF p.state = "term_req_sent1"
                                           THEN "term_req_sent2" ELSE "term_ack_sent"]
                /\ Answer(e, <<<<"pipe_term_ack">>>>)
     IN  IF p.state = "active" /\ p.delay
         THEN /\ end' = [end EXCEPT ![e].state = "waiting_for_delimiter"]
              /\ Answer(e, <<>>)
         ELSE ack
  /\ UNCHANGED <<ypipe, user>>

(* The end and its inbound ypipe disappear; the user is told. *)
process_pipe_term_ack(e) ==
  /\ Receives(e, "pipe_term_ack")
  /\ ypipe' = [ypipe EXCEPT ![end[e].inpipe].status = "freed"]
  /\ end' = [end EXCEPT ![e].state = "deleted", ![e].inpipe = NULL, ![e].outpipe = NULL]
  /\ Answer(e, IF end[e].state = "term_req_sent1" THEN <<<<"pipe_term_ack">>>> ELSE <<>>)
  /\ UNCHANGED user

Process(e) == \/ process_activate_read(e) \/ process_activate_write(e)
              \/ process_hiccup(e) \/ process_pipe_hwm(e)
              \/ process_pipe_term(e) \/ process_pipe_term_ack(e)

Read(e) == ReadMessage(e) \/ ReadDelimiter(e) \/ ReadEmpty(e)

terminate(e) == \E delay \in BOOLEAN : \/ TerminateIgnored(e, delay)
                                      \/ TerminateRequest(e, delay)
                                      \/ TerminateWaiting(e, delay)

Step(e) ==
  \/ \E kind \in Kind[e] \cup {"data"}, more \in BOOLEAN : Write(e, kind, more)
  \/ WriteFails(e) \/ rollback(e) \/ flush(e)
  \/ Read(e)
  \/ hiccup(e)
  \/ \E in, out \in NewHwm : ChangeHwms(e, in, out)
  \/ terminate(e) \/ TerminateFinish(e)
  \/ Process(e)

Next == \E e \in End : Step(e)

Spec == Init /\ [][Next]_vars

(* Threads process their commands and finish what they call, and users     *)
(* flush what they wrote and read while the pipe lets them: the engine and *)
(* the socket's poller are driven by the events of the pipe.  After        *)
(* terminate nobody has to flush.                                          *)
Fairness == \A e \in End : /\ WF_vars(Process(e) \/ TerminateFinish(e))
                           /\ WF_vars(end[e].state = "active" /\ flush(e))
                           /\ WF_vars(Read(e))

FairSpec == Spec /\ Fairness
-----------------------------------------------------------------------------
Frame == [msg: Nat, part: Nat, more: BOOLEAN,
          kind: {"data", "identity", "credential", "delimiter"}]

Upipe == [held: Seq(Frame), avail: Seq(Frame), asleep: BOOLEAN,
          status: {"unused", "live", "freed"}]

Pipe == [state: State, delay: BOOLEAN, inpipe: Ypipe \cup {NULL}, outpipe: Ypipe \cup {NULL},
         in_active: BOOLEAN, out_active: BOOLEAN, hwm: Int, lwm: Nat,
         msgs_read: Nat, msgs_written: Int, peers_msgs_read: Nat]

TypeOK ==
  /\ ypipe \in [Ypipe -> Upipe]
  /\ end \in [End -> Pipe]
  /\ finishing \in [End -> BOOLEAN]
  /\ used \in [hiccups: 0 .. MaxHiccup, hwms: 0 .. MaxSetHwm, setting: Settings]

(* An end that still runs reads and writes ypipes that exist.  The two     *)
(* ends decide which of them deletes a ypipe, a hiccup passes it on, and   *)
(* neither may be left with a pointer to what the other has deleted.       *)
NoDangling ==
  \A e \in End : end[e].state # "deleted" =>
    /\ end[e].inpipe # NULL /\ In(e).status = "live"
    /\ end[e].outpipe # NULL => Out(e).status = "live"
    /\ finishing[e] => end[e].outpipe # NULL

(* When both ends are gone, so is every ypipe: none is left to nobody.     *)
NoLeak == (\A e \in End : end[e].state = "deleted") =>
             \A y \in Ypipe : ypipe[y].status # "live"

(* No command is on its way to an end that no longer exists.               *)
NoCommandToDeleted == \A e \in End : end[e].state = "deleted" => cmds[e] = <<>>

(* The assertions of process_pipe_term, process_pipe_term_ack and          *)
(* process_hiccup hold when the command arrives, whatever both users do.   *)
AssertionsHold ==
  \A e \in End : Runs(e) /\ cmds[e] # <<>> =>
    LET type == Head(cmds[e])[1]
    IN  /\ type = "pipe_term" =>
             end[e].state \in {"active", "delimiter_received", "term_req_sent1"}
        /\ type = "pipe_term_ack" =>
             end[e].state \in {"term_req_sent1", "term_ack_sent", "term_req_sent2"}
        /\ type = "hiccup" => end[e].outpipe # NULL

(* The handshake meets no end that is gone and no state it does not expect. *)
HandshakeSound == NoCommandToDeleted /\ AssertionsHold

(* The two ends agree on the marks of each ypipe as soon as no change is   *)
(* on its way: the reader reports often enough for a writer at its mark to *)
(* get past it, and reports nothing when there is no mark.                 *)
Fits(writer, reader) == IF writer.hwm <= 0 THEN reader.lwm = 0
                        ELSE reader.lwm \in 1 .. writer.hwm

MarksFit ==
  (\A e \in End : \A i \in DOMAIN cmds[e] : cmds[e][i][1] # "pipe_hwm") =>
    \A e \in End : Fits(end[e], end[peer(e)])

(* The count of free places never wraps around: no hiccup makes an end     *)
(* believe that it wrote less than its peer has read.                      *)
NoUnderflow == \A e \in End : end[e].state = "active" =>
                  end[e].peers_msgs_read <= end[e].msgs_written

(* Hiccups, terminations and their crossing leave every ypipe to exactly   *)
(* one thread, which deletes it once, and the counts of messages right.    *)
HiccupSound == TypeOK /\ NoDangling /\ NoLeak /\ NoUnderflow

(* A passive reader with something to read is going to be told, a reader   *)
(* that has replaced its ypipe included.                                   *)
NoLostActivation ==
  \A e \in End :
    /\ end[e].state \in {"active", "waiting_for_delimiter"}
    /\ ~end[e].in_active
    /\ In(e).avail # <<>>
    => \E i \in DOMAIN cmds[e] : cmds[e][i] = <<"activate_read">>

(* The frames an end is given form whole messages in the order written,    *)
(* none left out whatever is rolled back; only a hiccup skips messages.    *)
InOrder ==
  [][\A e \in End : user'[e].last # user[e].last =>
       LET old == user[e].last
           new == user'[e].last
       IN  IF old.more THEN new.msg = old.msg /\ new.part = old.part + 1
           ELSE /\ new.part = 1 /\ new.msg > old.msg
                /\ used.hiccups = 0 => new.msg = old.msg + 1]_vars

(* An end that agreed to wait for the delimiter is not torn down before    *)
(* its user has read everything the peer has finished writing, unless that *)
(* user gives up by calling terminate itself.                              *)
DelayedUntilRead ==
  [][\A e \in End :
       /\ end[e].state = "waiting_for_delimiter"
       /\ end'[e].state = "term_ack_sent"
       /\ user'[e].terms = user[e].terms
       => user[e].last.msg = user[peer(e)].written /\ ~user[e].last.more]_vars

(* Once a user asks for it, both ends are deallocated. *)
TerminationCompletes ==
  (\E e \in End : user[e].terms > 0) ~> (\A e \in End : end[e].state = "deleted")

(* A writer stopped at the mark is started again and finds a free place,   *)
(* as long as the peer reads.                                              *)
Stopped(e) == end[e].state = "active" /\ ~end[e].out_active

Resumed(e) == end[e].state # "active" \/ (end[e].out_active /\ check_hwm(e))

WriterResumes == \A e \in End : Stopped(e) ~> Resumed(e)

(* The same over at most one change of the marks, which may come before,   *)
(* while or after the writer fills up.  Three changes can stop it for      *)
(* good, and are excepted: one made while it stands at its mark, one it    *)
(* has not heard of when it stops there, and one that took its mark down.  *)
StoppedAtMark(e) == Stopped(e) /\ ~check_hwm(e)

ChangeOnItsWay == \E e \in End : \E i \in DOMAIN cmds[e] : cmds[e][i][1] = "pipe_hwm"

WriterResumesUnlessChanged ==
  \A e \in End :
    /\ StoppedAtMark(e)
    /\ ~ChangeOnItsWay
    /\ end[e].hwm >= Hwm[e] /\ used.hwms <= 1
    ~> Resumed(e) \/ ChangeOnItsWay

(* Without the exception for a mark that was taken down.                   *)
WriterResumesWhenAgreed ==
  \A e \in End : StoppedAtMark(e) /\ ~ChangeOnItsWay ~> Resumed(e) \/ ChangeOnItsWay
-----------------------------------------------------------------------------
(* What the properties above rest on: the inductive invariants.            *)

Command == {<<"activate_read">>, <<"pipe_term">>, <<"pipe_term_ack">>}
             \cup ({"activate_write"} \X Nat) \cup ({"hiccup"} \X Ypipe)
             \cup ({"pipe_hwm"} \X Int \X Int)

User == [written: Nat, parts: Nat, last: [msg: Nat, part: Nat, more: BOOLEAN], terms: Nat]

Typed == TypeOK /\ cmds \in [End -> Seq(Command)] /\ user \in [End -> User]

Has(queue, type) == \E i \in DOMAIN queue : queue[i][1] = type

OnlyMarks(queue) == \A i \in DOMAIN queue : queue[i][1] = "pipe_hwm"

(* The ack is the last thing an end says, but for its marks; it asks once, *)
(* and no hiccup comes after that.                                         *)
Ordered(queue) ==
  \A i, j \in DOMAIN queue : i < j =>
    /\ queue[i][1] = "pipe_term_ack" => queue[j][1] = "pipe_hwm"
    /\ queue[i][1] = "pipe_term" => queue[j][1] \notin {"pipe_term", "hiccup"}

Open == {"active", "delimiter_received"}
Acked == {"term_ack_sent", "term_req_sent2"}
Asked == {"term_req_sent1", "term_req_sent2"}

(* The states the two ends can be in at the same time. *)
Meet(s, t) == \/ s \in Open \cup {"term_req_sent1"} /\ t \in Open
              \/ s \in Open /\ t = "term_req_sent1"
              \/ s \in {"term_req_sent1", "waiting_for_delimiter", "term_ack_sent"}
                   /\ t = "term_req_sent1"
              \/ s = "term_req_sent1" /\ t = "waiting_for_delimiter"
              \/ s = "term_req_sent1" /\ t \in Acked
              \/ s = "term_req_sent2" /\ t \in Asked
              \/ s \in Acked \cup {"deleted"} /\ t = "deleted"
              \/ s = "deleted" /\ t \in Acked

(* The handshake as end e sees it: what is still to come for it follows    *)
(* from the states of the two ends.                                        *)
Handshake(e) ==
  LET s == end[e].state
      t == end[peer(e)].state
  IN  /\ Meet(s, t)
      /\ Has(cmds[e], "pipe_term") <=> t \in Asked /\ s \in Open \cup {"term_req_sent1"}
      /\ Has(cmds[e], "pipe_term_ack") <=> t \in Acked \cup {"deleted"} /\ s # "deleted"
      /\ Has(cmds[e], "hiccup") => s \in Open \cup {"term_req_sent1"}
      /\ Ordered(cmds[e])
      /\ s = "deleted" => OnlyMarks(cmds[e])
      /\ finishing[e] => s \in {"term_req_sent1", "waiting_for_delimiter"}
      /\ end[e].outpipe = NULL <=> s \in Acked \cup {"deleted"}
      /\ end[e].inpipe = NULL <=> s = "deleted"

HandshakeInv == Typed /\ \A e \in End : Handshake(e)

Renewals(queue) == {queue[i][2] : i \in {j \in DOMAIN queue : queue[j][1] = "hiccup"}}

Ascending(queue) ==
  \A i, j \in DOMAIN queue :
    i < j /\ queue[i][1] = "hiccup" /\ queue[j][1] = "hiccup" => queue[i][2] < queue[j][2]

(* The ypipes of the direction in which e writes. *)
Conduit(e) == ({end[e].outpipe, end[peer(e)].inpipe} \cup Renewals(cmds[e])) \ {NULL}

(* The ypipe e writes, those its peer has made since, the one it reads:    *)
(* each is younger than the ones before.                                   *)
Succession(e) ==
  /\ end[e].outpipe # NULL =>
       /\ end[peer(e)].inpipe \in {end[e].outpipe} \cup Renewals(cmds[e])
       /\ \A y \in Renewals(cmds[e]) : end[e].outpipe < y /\ y <= end[peer(e)].inpipe
  /\ Ascending(cmds[e])

(* Every live ypipe belongs to one direction, every other one to none. *)
Ownership ==
  /\ \A e \in End : Succession(e)
  /\ Conduit("session") \cap Conduit("socket") = {}
  /\ \A y \in Ypipe : /\ ypipe[y].status = "live" <=>
                            y \in Conduit("session") \cup Conduit("socket")
                      /\ ypipe[y].status = "unused" <=> y > 2 + used.hiccups

(* The reader of a ypipe that it found empty is told of the next flush.    *)
Activation ==
  /\ \A y \in Ypipe : ypipe[y].asleep => ypipe[y].avail = <<>>
  /\ \A e \in End : /\ end[e].state \in {"active", "waiting_for_delimiter"}
                    /\ ~end[e].in_active
                    => In(e).asleep \/ Has(cmds[e], "activate_read")

(* Messages that count towards the mark. *)
Counted(frame) == ~frame.more /\ frame.kind # "identity"
Weight(frames) == Cardinality({i \in DOMAIN frames : Counted(frames[i])})

(* What was written has been read, is in the ypipe, or was drained with an *)
(* older one; a younger one is empty; the peer hears of what was read.     *)
Counts ==
  \A e \in End :
    /\ end[e].state = "active" =>
         end[peer(e)].msgs_read + Weight(Out(e).avail) + Weight(Out(e).held)
           <= end[e].msgs_written
    /\ \A y \in Renewals(cmds[e]) :
         peer(e) \in MayHiccup /\ ypipe[y].avail = <<>> /\ ypipe[y].held = <<>>
    /\ end[e].peers_msgs_read <= end[peer(e)].msgs_read
    /\ \A i \in DOMAIN cmds[e] : cmds[e][i][1] = "activate_write" =>
                                   cmds[e][i][2] <= end[peer(e)].msgs_read
    /\ end[e].outpipe # NULL /\ peer(e) \in MayHiccup =>
         /\ \A i \in DOMAIN Out(e).avail : Out(e).avail[i].kind # "identity"
         /\ \A i \in DOMAIN Out(e).held : Out(e).held[i].kind # "identity"

(* The order of messages.  What a reader was given last and the frames of  *)
(* the ypipe after it are one sequence, of which a hiccup can cut the      *)
(* beginning and whose end is where the writer stands.                     *)
Frames(q) == q.avail \o q.held

Precedes(f, g) == IF f.more THEN g.msg = f.msg /\ g.part = f.part + 1
                            ELSE g.msg = f.msg + 1 /\ g.part = 1

(* Messages between them went with an older ypipe. *)
Skips(f, g) == ~f.more /\ g.msg > f.msg /\ g.part = 1

(* A message without its last part is the one being written. *)
Placed(frames, i, written) ==
  IF \A j \in i .. Len(frames) : frames[j].more
  THEN frames[i].msg = written + 1
  ELSE frames[i].msg <= written \/ IsDelimiter(frames[i])

Sequel(frames, written, delimited) ==
  /\ \A i \in 1 .. Len(frames) - 1 : Precedes(frames[i], frames[i + 1])
  /\ \A i \in 1 .. Len(frames) :
       /\ Placed(frames, i, written)
       /\ ~IsCredential(frames[i])
       /\ IsDelimiter(frames[i]) => /\ i = Len(frames) /\ delimited
                                    /\ frames[i].msg = written + 1 /\ ~frames[i].more

(* The user u goes on where the last frame ends. *)
GoesOn(f, u) == IF f.more THEN f.part = u.parts
                ELSE u.parts = 0 /\ (f.msg = u.written \/ IsDelimiter(f))

Line(q, last, u, replaced, delimited) ==
  LET frames == Frames(q)
  IN  /\ Sequel(frames, u.written, delimited)
      /\ IF frames = <<>>
         THEN u.parts = 0 /\ (replaced \/ last.msg = u.written)
         ELSE /\ Precedes(last, frames[1]) \/ (replaced /\ Skips(last, frames[1]))
              /\ GoesOn(frames[Len(frames)], u)
      /\ IF q.avail = <<>> THEN ~last.more ELSE ~q.avail[Len(q.avail)].more

Delimited(e) == end[e].state = "term_req_sent1" /\ ~finishing[e]

(* What e has written and its peer, while it reads, has yet to read. *)
Stream(e) ==
  LET last == user[peer(e)].last
  IN  end[peer(e)].state \in {"active", "waiting_for_delimiter"} =>
        /\ last.msg <= user[e].written
        /\ IF end[e].outpipe = end[peer(e)].inpipe
           THEN Line(Out(e), last, user[e], used.hiccups > 0, Delimited(e))
           ELSE ~last.more

(* A hiccup in the middle of a message tears it, and a credential takes a  *)
(* number that no user is given.                                           *)
KeepsOrder(s) == /\ s.MayHiccup # {} => s.MaxPart <= 1
                 /\ \A e \in End : "credential" \notin s.Kind[e]

Orderly ==
  KeepsOrder(setting) =>
    /\ used.hiccups # 0 => MayHiccup # {}
    /\ MayHiccup # {} => \A e \in End : user[e].parts = 0
    /\ used.hiccups = 0 => \A e \in End : Renewals(cmds[e]) = {}
    /\ \A e \in End : Stream(e)

(* A pipe whose marks are changed from one end, and by the same boost at   *)
(* both: that of a connection over a transport, whose session changes none. *)
OneSetter == /\ \A e, f \in MaySetHwm : e = f
             /\ \A e \in End : OutBoost[e] = InBoost[peer(e)]

LastMarks(queue) ==
  {queue[i] : i \in {i \in DOMAIN queue :
                       /\ queue[i][1] = "pipe_hwm"
                       /\ \A j \in DOMAIN queue : j > i => queue[j][1] # "pipe_hwm"}}

(* Only the setter's peer hears of marks; with the last of those under way *)
(* it will fit the setter, and with none it does.                          *)
Settling(e) ==
  /\ peer(e) \notin MaySetHwm => ~Has(cmds[e], "pipe_hwm")
  /\ ~Has(cmds[e], "pipe_hwm") /\ ~Has(cmds[peer(e)], "pipe_hwm") => Fits(end[e], end[peer(e)])
  /\ \A c \in LastMarks(cmds[e]) : LET p == set_hwms(e, end[e], c[2], c[3])
                                   IN  Fits(p, end[peer(e)]) /\ Fits(end[peer(e)], p)

MarksSettle == OneSetter => \A e \in End : Settling(e)
=============================================================================
