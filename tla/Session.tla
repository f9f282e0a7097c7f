------------------------------ MODULE Session ------------------------------
(***************************************************************************)
(* One session_base_t (libzmq/src/session_base.cpp) between the engine of  *)
(* a connection and its socket: connections that come, fail and come back, *)
(* the pipe that outlives them or is replaced with them, and a socket that *)
(* closes or lets the session go at any time.                              *)
(*                                                                         *)
(* The session's thread and the socket's process their commands in order.  *)
(* Both ends of a pipe go through pipe_t's handshake; marks are left out,  *)
(* and PipePair has them.  Every message has two parts.                    *)
(***************************************************************************)
EXTENDS Naturals, Sequences, FiniteSets

CONSTANTS
  Settings,  \* [active, immediate, subscriber, reconnects, linger, traffic]: see Init
  N,         \* bound: pipes
  MaxMsg,    \* bound: messages written
  MaxLost    \* bound: connections lost

ASSUME SessionAssumption ==
  /\ N \in Nat /\ MaxMsg \in Nat /\ MaxLost \in Nat /\ MaxLost < N
  /\ \A x \in Settings : x.linger \in {"none", "finite", "infinite"}

Pipes == 1 .. N    \* in the order they are made
NULL == 0
Side == {"session", "socket"}
Peer(e) == IF e = "session" THEN "socket" ELSE "session"

VARIABLES
  setting,   \* chosen in Init
  ses,       \* the fields of session_base_t and own_t, see Init
  pipes,     \* both ends of every pipe, and what is in it
  mail,      \* commands on their way to each thread
  engine,    \* the connection: parts it was given, and whether it stands
             \* between two parts of what it receives
  sock,      \* the socket: its pipes, whether it owns the session, its acks
  got,       \* parts the socket has read, by pipe
  written, lost, \* messages written and connections lost so far
  aborted    \* an assertion has failed, or freed memory is used

vars == <<setting, ses, pipes, mail, engine, sock, got, written, lost, aborted>>

NoEngine == [on |-> FALSE, given |-> <<>>, inside |-> FALSE]
NewEnd == [st |-> "active", delay |-> TRUE, out |-> TRUE]
Unmade == [session |-> [NewEnd EXCEPT !.st = "gone"], socket |-> [NewEnd EXCEPT !.st = "gone"],
           made |-> FALSE, inq |-> <<>>, asleep |-> FALSE, in_active |-> TRUE,
           open |-> <<>>, outq |-> <<>>]
NewPipe == [Unmade EXCEPT !.session = NewEnd, !.socket = NewEnd, !.made = TRUE]

(* A connecting session has its pipe from the start, unless messages are   *)
(* for complete connections only; an accepted one is given its engine.     *)
Init ==
  /\ setting \in Settings
  /\ LET first == setting.active /\ ~setting.immediate IN
     /\ ses = [live |-> TRUE, terminating |-> FALSE, pending |-> FALSE,
               pipe |-> IF first THEN 1 ELSE NULL, terminating_pipes |-> {},
               incomplete_in |-> FALSE, has_linger_timer |-> FALSE,
               connecting |-> setting.active]
     /\ pipes = [p \in Pipes |-> IF first /\ p = 1 THEN NewPipe ELSE Unmade]
     /\ sock = [pipes |-> IF first THEN {1} ELSE {}, owns |-> TRUE, acks |-> 0,
                terminating |-> FALSE, endpoint |-> TRUE, left |-> FALSE]
  /\ mail = [session |-> IF setting.active THEN <<>> ELSE <<<<"attach">>>>, socket |-> <<>>]
  /\ engine = NoEngine
  /\ got = [p \in Pipes |-> <<>>]
  /\ written = 0 /\ lost = 0 /\ aborted = FALSE
-----------------------------------------------------------------------------
(* A handler is a function of what it works on.  An aborted process does   *)
(* nothing more.                                                           *)

World == [ses |-> ses, pipes |-> pipes, mail |-> mail, engine |-> engine, sock |-> sock,
          aborted |-> aborted]

Becomes(w) ==
  /\ ~aborted
  /\ ses' = w.ses /\ pipes' = w.pipes /\ mail' = w.mail /\ engine' = w.engine
  /\ sock' = w.sock /\ aborted' = w.aborted

Asserted(w, holds) == [w EXCEPT !.aborted = @ \/ ~holds]
Told(w, e, command) == [w EXCEPT !.mail[e] = Append(@, command)]

InMail(w, e, command) == \E i \in DOMAIN w.mail[e] : w.mail[e][i] = command

Readable(x) == x.st \in {"active", "waiting_for_delimiter"}
-----------------------------------------------------------------------------
(* pipe_t, one end of pipe p on side e. *)

(* The socket flushes parts to the session; what it writes to a ypipe that *)
(* a hiccup has replaced is dropped when it processes that hiccup.         *)
Sent(w, p, parts) ==
  IF InMail(w, "socket", <<"hiccup", p>>) THEN w
  ELSE LET x == [w EXCEPT !.pipes[p].inq = @ \o parts, !.pipes[p].asleep = FALSE]
       IN  IF w.pipes[p].asleep THEN Told(x, "session", <<"activate_read", p>>) ELSE x

(* The session flushes the whole messages among what it has written. *)
Flushed(w, p) ==
  LET x == w.pipes[p] IN
  IF x.session.out /\ x.open # <<>> /\ x.open[Len(x.open)] = "last"
  THEN [w EXCEPT !.pipes[p].outq = @ \o x.open, !.pipes[p].open = <<>>]
  ELSE w

RolledBack(w, p) == [w EXCEPT !.pipes[p].open = <<>>]

Delimited(w, p, e) ==
  IF e = "socket" THEN Sent(w, p, <<"delimiter">>)
  ELSE [RolledBack(w, p) EXCEPT !.pipes[p].outq = Append(@, "delimiter")]

terminate(w, p, e, delay) ==
  LET x == w.pipes[p][e]
      asks == x.st \in {"active", "delimiter_received"}
      acks == x.st = "waiting_for_delimiter" /\ ~delay
      waits == x.st = "waiting_for_delimiter" /\ delay
      next(st, out) == [w EXCEPT !.pipes[p][e] = [st |-> st, delay |-> delay, out |-> out]]
  IN  CASE asks -> Delimited(Told(next("term_req_sent1", x.out), Peer(e), <<"pipe_term", p>>), p, e)
        [] acks -> Told(next("term_ack_sent", FALSE), Peer(e), <<"pipe_term_ack", p>>)
        [] waits -> Delimited(next(x.st, x.out), p, e)
        [] OTHER -> Asserted(next(x.st, x.out), x.st # "gone")

process_delimiter(w, p, e) ==
  IF w.pipes[p][e].st = "active" THEN [w EXCEPT !.pipes[p][e].st = "delimiter_received"]
  ELSE Told([w EXCEPT !.pipes[p][e].st = "term_ack_sent", !.pipes[p][e].out = FALSE],
            Peer(e), <<"pipe_term_ack", p>>)

(* check_read of the session's end *)
check_read(w, p) ==
  LET x == w.pipes[p] IN
  CASE ~x.in_active \/ ~Readable(x.session) -> w
    [] x.in_active /\ Readable(x.session) /\ x.inq = <<>> ->
         [w EXCEPT !.pipes[p].in_active = FALSE, !.pipes[p].asleep = TRUE]
    [] x.in_active /\ Readable(x.session) /\ x.inq # <<>> ->
         IF Head(x.inq) = "delimiter"
         THEN process_delimiter([w EXCEPT !.pipes[p].inq = Tail(@)], p, "session") ELSE w

process_pipe_term(w, p, e) ==
  LET x == w.pipes[p][e]
      ack(st) == Told([w EXCEPT !.pipes[p][e].st = st, !.pipes[p][e].out = FALSE],
                      Peer(e), <<"pipe_term_ack", p>>)
  IN  CASE x.st = "active" /\ x.delay -> [w EXCEPT !.pipes[p][e].st = "waiting_for_delimiter"]
        [] x.st = "active" /\ ~x.delay -> ack("term_ack_sent")
        [] x.st = "delimiter_received" -> ack("term_ack_sent")
        [] x.st = "term_req_sent1" -> ack("term_req_sent2")
        [] OTHER -> Asserted(w, FALSE)

(* The rest of process_pipe_term_ack, when the sink was told. *)
Deallocated(w, p, e) ==
  LET x == w.pipes[p][e]
      gone == Asserted([w EXCEPT !.pipes[p][e].st = "gone", !.pipes[p][e].out = FALSE],
                       x.st \in {"term_req_sent1", "term_ack_sent", "term_req_sent2"})
  IN  IF x.st = "term_req_sent1" THEN Told(gone, Peer(e), <<"pipe_term_ack", p>>) ELSE gone

(* The session's end takes a new ypipe to read from. *)
hiccup(w, p) ==
  IF w.pipes[p].session.st = "active"
  THEN Told([w EXCEPT !.pipes[p].inq = <<>>, !.pipes[p].asleep = FALSE,
                      !.pipes[p].in_active = TRUE], "socket", <<"hiccup", p>>)
  ELSE w
-----------------------------------------------------------------------------
(* own_t: the session asks to be terminated, and goes when its connecter   *)
(* is gone and no engine is on its way.                                    *)

RequestsTerm(w) == IF w.ses.terminating THEN w ELSE Told(w, "socket", <<"term_req">>)

check_term_acks(w) ==
  IF w.ses.terminating /\ ~w.ses.connecting /\ ~InMail(w, "session", <<"attach">>)
  THEN Told([Asserted(w, w.ses.pipe = NULL) EXCEPT !.ses.live = FALSE, !.engine = NoEngine],
            "socket", <<"term_ack">>)
  ELSE w

OwnTerm(w) == check_term_acks([w EXCEPT !.ses.terminating = TRUE, !.ses.pending = FALSE])
-----------------------------------------------------------------------------
(* The session's commands. *)

process_attach(w) ==
  LET made == {p \in Pipes : w.pipes[p].made}
      p == Cardinality(made) + 1
      new == w.ses.pipe = NULL /\ ~w.ses.terminating
      x == Asserted([w EXCEPT !.engine = [NoEngine EXCEPT !.on = TRUE]], ~w.engine.on)
  IN  check_term_acks(
        IF new THEN Told([x EXCEPT !.pipes[p] = NewPipe, !.ses.pipe = p], "socket", <<"bind", p>>)
        ELSE x)

(* A faulty variant: what is in the pipe is never waited for. *)
process_term_Undelayed(w) ==
  LET p == w.ses.pipe
      x == [w EXCEPT !.ses.pending = TRUE, !.ses.has_linger_timer = setting.linger = "finite"]
      y == terminate(x, p, "session", FALSE)
  IN  CASE p = NULL /\ w.ses.terminating_pipes = {} -> OwnTerm(w)
        [] p = NULL /\ w.ses.terminating_pipes # {} -> [w EXCEPT !.ses.pending = TRUE]
        [] p # NULL -> IF w.engine.on THEN y ELSE check_read(y, p)

(* A faulty variant: without an engine nobody looks for the delimiter. *)
process_term_NoCheck(w) ==
  LET p == w.ses.pipe
      linger == setting.linger
      x == [w EXCEPT !.ses.pending = TRUE, !.ses.has_linger_timer = linger = "finite"]
  IN  CASE p = NULL /\ w.ses.terminating_pipes = {} -> OwnTerm(w)
        [] p = NULL /\ w.ses.terminating_pipes # {} -> [w EXCEPT !.ses.pending = TRUE]
        [] p # NULL -> terminate(x, p, "session", linger # "none")

process_term(w) ==
  LET p == w.ses.pipe
      linger == setting.linger
      x == [w EXCEPT !.ses.pending = TRUE, !.ses.has_linger_timer = linger = "finite"]
      y == terminate(x, p, "session", linger # "none")
  IN  CASE p = NULL /\ w.ses.terminating_pipes = {} -> OwnTerm(w)
        [] p = NULL /\ w.ses.terminating_pipes # {} -> [w EXCEPT !.ses.pending = TRUE]
        [] p # NULL -> IF w.engine.on THEN y ELSE check_read(y, p)

(* A faulty variant: the linger timer goes on without the pipe. *)
pipe_terminated_KeepsTimer(w, p) ==
  LET x == IF p = w.ses.pipe THEN [w EXCEPT !.ses.pipe = NULL]
           ELSE [Asserted(w, p \in w.ses.terminating_pipes)
                   EXCEPT !.ses.terminating_pipes = @ \ {p}]
  IN  IF x.ses.pending /\ x.ses.pipe = NULL /\ x.ses.terminating_pipes = {}
      THEN OwnTerm(x) ELSE x

pipe_terminated(w, p) ==
  LET x == IF p = w.ses.pipe
           THEN [w EXCEPT !.ses.pipe = NULL, !.ses.has_linger_timer = FALSE]
           ELSE [Asserted(w, p \in w.ses.terminating_pipes)
                   EXCEPT !.ses.terminating_pipes = @ \ {p}]
  IN  IF x.ses.pending /\ x.ses.pipe = NULL /\ x.ses.terminating_pipes = {}
      THEN OwnTerm(x) ELSE x

process_activate_read(w, p) ==
  LET x == w.pipes[p]
      y == [w EXCEPT !.pipes[p].in_active = TRUE]
  IN  CASE x.in_active \/ ~Readable(x.session) -> w
        [] ~x.in_active /\ Readable(x.session) /\ p # w.ses.pipe ->
             Asserted(y, p \in w.ses.terminating_pipes)
        [] ~x.in_active /\ Readable(x.session) /\ p = w.ses.pipe ->
             IF w.engine.on THEN y ELSE check_read(y, p)

SessionDoes(w, c) ==
  CASE c[1] = "attach" -> process_attach(w)
    [] c[1] = "term" -> process_term(Asserted(w, ~w.ses.pending))
    [] c[1] = "activate_read" -> process_activate_read(w, c[2])
    [] c[1] = "pipe_term" -> process_pipe_term(w, c[2], "session")
    [] c[1] = "pipe_term_ack" -> Deallocated(pipe_terminated(w, c[2]), c[2], "session")

(* A command for something that is gone would be handled in freed memory. *)
There(w, e, c) == CASE Len(c) = 2 /\ c[1] # "bind" -> w.pipes[c[2]][e].st # "gone"
                    [] Len(c) = 1 /\ e = "session" -> w.ses.live
                    [] OTHER -> TRUE

ProcessSession ==
  /\ mail.session # <<>>
  /\ LET w == [World EXCEPT !.mail.session = Tail(@)]
         c == Head(mail.session)
     IN  Becomes(IF There(w, "session", c) THEN SessionDoes(w, c) ELSE Asserted(w, FALSE))
  /\ UNCHANGED <<setting, got, written, lost>>

(* The linger period is over. *)
timer_event ==
  /\ ses.live /\ ses.has_linger_timer
  /\ LET w == Asserted([World EXCEPT !.ses.has_linger_timer = FALSE], ses.pipe # NULL)
     IN  Becomes(IF ses.pipe # NULL THEN terminate(w, ses.pipe, "session", FALSE) ELSE w)
  /\ UNCHANGED <<setting, got, written, lost>>
-----------------------------------------------------------------------------
(* The connection. *)

(* A connecter has connected: the engine is attached, the connecter goes. *)
Connect ==
  /\ ses.live /\ ses.connecting
  /\ Becomes(Told([World EXCEPT !.ses.connecting = FALSE], "session", <<"attach">>))
  /\ UNCHANGED <<setting, got, written, lost>>

(* A session that closes closes its connecter. *)
ConnecterStops ==
  /\ ses.live /\ ses.connecting /\ ses.terminating
  /\ Becomes(check_term_acks([World EXCEPT !.ses.connecting = FALSE]))
  /\ UNCHANGED <<setting, got, written, lost>>

(* pull_msg: the engine asks for a part. *)
pull_msg ==
  /\ engine.on /\ ses.pipe # NULL
  /\ LET p == ses.pipe
         x == pipes[p]
         part == Head(x.inq)
     IN  /\ x.in_active /\ Readable(x.session)
         /\ Becomes(IF x.inq = <<>> \/ part = "delimiter" THEN check_read(World, p)
                    ELSE [World EXCEPT !.pipes[p].inq = Tail(@),
                                       !.ses.incomplete_in = part = "first",
                                       !.engine.given = Append(@, part)])
  /\ UNCHANGED <<setting, got, written, lost>>

(* push_msg: the engine has received a part; what is whole is flushed.     *)
push_msg ==
  /\ engine.on /\ ses.pipe # NULL /\ setting.traffic = "in"
  /\ engine.inside \/ written < MaxMsg
  /\ pipes[ses.pipe].session.st = "active"
  /\ LET part == IF engine.inside THEN "last" ELSE "first"
     IN  /\ Becomes(Flushed([World EXCEPT !.pipes[ses.pipe].open = Append(@, part),
                                          !.engine.inside = ~@], ses.pipe))
         /\ written' = IF engine.inside THEN written ELSE written + 1
  /\ UNCHANGED <<setting, got, lost>>

(* clean_pipes: neither side gets a part of a message whose connection is  *)
(* gone.  The rest of one that was being sent is read and dropped; the     *)
(* code asserts that it can be read.                                       *)
CanFinishMessage(w) ==
  LET x == w.pipes[w.ses.pipe]
  IN  x.in_active /\ Readable(x.session) /\ x.inq # <<>>

(* A faulty variant: an unfinished message stays in the pipe. *)
clean_pipes_KeepsParts(w) ==
  LET x == Flushed(w, w.ses.pipe)
  IN  IF ~w.ses.incomplete_in THEN x
      ELSE IF CanFinishMessage(w)
           THEN [x EXCEPT !.pipes[w.ses.pipe].inq = Tail(@), !.ses.incomplete_in = FALSE]
           ELSE Asserted(x, FALSE)

(* A faulty variant: the rest of a message is left to the next connection. *)
clean_pipes_KeepsRest(w) == Flushed(RolledBack(w, w.ses.pipe), w.ses.pipe)

clean_pipes(w) ==
  LET x == Flushed(RolledBack(w, w.ses.pipe), w.ses.pipe)
  IN  IF ~w.ses.incomplete_in THEN x
      ELSE IF CanFinishMessage(w)
           THEN [x EXCEPT !.pipes[w.ses.pipe].inq = Tail(@), !.ses.incomplete_in = FALSE]
           ELSE Asserted(x, FALSE)

reconnect(w) ==
  LET p == w.ses.pipe
      left == [terminate(hiccup(w, p), p, "session", FALSE)
                 EXCEPT !.ses.terminating_pipes = @ \cup {p}, !.ses.pipe = NULL,
                        !.ses.has_linger_timer = FALSE]
      x == IF p # NULL /\ setting.immediate THEN left ELSE w
      y == [x EXCEPT !.ses.connecting = setting.reconnects]
  IN  IF y.ses.pipe # NULL /\ setting.subscriber THEN hiccup(y, y.ses.pipe) ELSE y

(* engine_error: the connection is lost, or its peer broke the protocol.   *)
(* Only a session that connects can connect again.                         *)
engine_error(reason) ==
  /\ engine.on /\ lost < MaxLost
  /\ lost' = lost + 1
  /\ LET w == [World EXCEPT !.engine = NoEngine]
         cleaned == IF ses.pipe # NULL THEN clean_pipes(w) ELSE w
         x == IF reason = "connection" /\ setting.active THEN reconnect(cleaned)
              ELSE RequestsTerm(cleaned)
     IN  Becomes(IF x.ses.pipe # NULL THEN check_read(x, x.ses.pipe) ELSE x)
  /\ UNCHANGED <<setting, got, written>>
-----------------------------------------------------------------------------
(* The socket. *)

Write(p) ==
  /\ setting.traffic = "out" /\ written < MaxMsg
  /\ p \in sock.pipes /\ pipes[p].socket.st = "active"
  /\ written' = written + 1
  /\ Becomes(Sent(World, p, <<"first", "last">>))
  /\ UNCHANGED <<setting, got, lost>>

Read(p) ==
  /\ p \in sock.pipes /\ Readable(pipes[p].socket) /\ pipes[p].outq # <<>>
  /\ LET part == Head(pipes[p].outq)
         w == [World EXCEPT !.pipes[p].outq = Tail(@)]
     IN  /\ got' = IF part = "delimiter" THEN got ELSE [got EXCEPT ![p] = Append(@, part)]
         /\ Becomes(IF part = "delimiter" THEN process_delimiter(w, p, "socket") ELSE w)
  /\ UNCHANGED <<setting, written, lost>>

process_bind(w, p) ==
  LET x == [w EXCEPT !.sock.pipes = @ \cup {p}]
  IN  IF w.sock.terminating THEN terminate([x EXCEPT !.sock.acks = @ + 1], p, "socket", FALSE)
      ELSE x

(* The old ypipe is drained and deleted; the socket is told when the pipe  *)
(* is in use, and ends it if messages are for complete connections only.   *)
process_hiccup(w, p) ==
  LET x == Asserted(w, w.pipes[p].socket.out)
  IN  IF x.pipes[p].socket.st = "active" /\ setting.immediate
      THEN terminate(x, p, "socket", FALSE) ELSE x

unregister_term_ack(w) ==
  Asserted([w EXCEPT !.sock.acks = IF @ > 0 THEN @ - 1 ELSE @], w.sock.acks > 0)

SocketPipeTerminated(w, p) ==
  LET x == [w EXCEPT !.sock.pipes = @ \ {p}]
  IN  IF w.sock.terminating THEN unregister_term_ack(x) ELSE x

term_child(w) ==
  IF w.sock.terminating \/ ~w.sock.owns THEN w
  ELSE Told([w EXCEPT !.sock.owns = FALSE, !.sock.acks = @ + 1], "session", <<"term">>)

SocketDoes(w, c) ==
  CASE c[1] = "bind" -> process_bind(w, c[2])
    [] c[1] = "hiccup" -> process_hiccup(w, c[2])
    [] c[1] = "pipe_term" -> process_pipe_term(w, c[2], "socket")
    [] c[1] = "pipe_term_ack" -> Deallocated(SocketPipeTerminated(w, c[2]), c[2], "socket")
    [] c[1] = "term_req" -> term_child(w)
    [] c[1] = "term_ack" -> unregister_term_ack(w)

ProcessSocket ==
  /\ mail.socket # <<>>
  /\ LET w == [World EXCEPT !.mail.socket = Tail(@)]
         c == Head(mail.socket)
     IN  Becomes(IF There(w, "socket", c) THEN SocketDoes(w, c) ELSE Asserted(w, FALSE))
  /\ UNCHANGED <<setting, got, written, lost>>

(* socket_base_t::process_term: first the pipes, then the session. *)
Ended(w, open) ==
  LET ended[n \in 0 .. N] ==
        IF n = 0 THEN w
        ELSE IF n \in open THEN terminate(ended[n - 1], n, "socket", FALSE) ELSE ended[n - 1]
  IN  [ended[N] EXCEPT !.sock.acks = @ + Cardinality(open)]

Close ==
  /\ ~sock.terminating
  /\ Becomes([term_child(Ended(World, sock.pipes)) EXCEPT !.sock.terminating = TRUE])
  /\ UNCHANGED <<setting, got, written, lost>>

(* term_endpoint: zmq_disconnect, with the pipe that zmq_connect made if   *)
(* it made one; for an accepted session zmq_unbind, through the listener.  *)
(* Whether that pipe is still there, nobody asks.                          *)
Disconnect ==
  LET first == setting.active /\ ~setting.immediate IN
  /\ ~sock.terminating /\ sock.endpoint /\ mail.socket = <<>>
  /\ Becomes([term_child(IF first THEN terminate(World, 1, "socket", FALSE) ELSE World)
                EXCEPT !.sock.endpoint = FALSE, !.sock.left = ~first])
  /\ UNCHANGED <<setting, got, written, lost>>
-----------------------------------------------------------------------------
Next ==
  \/ ProcessSession \/ timer_event \/ Connect \/ ConnecterStops \/ pull_msg \/ push_msg
  \/ \E reason \in {"connection", "protocol"} : engine_error(reason)
  \/ ProcessSocket \/ Close \/ Disconnect
  \/ \E p \in Pipes : Write(p) \/ Read(p)

Spec == Init /\ [][Next]_vars

(* Both threads process their commands, timers go off, a connected engine  *)
(* asks for what there is to send, and a connecter that is told to stops.  *)
Fairness == /\ WF_vars(ProcessSession) /\ WF_vars(ProcessSocket)
            /\ WF_vars(timer_event) /\ WF_vars(pull_msg) /\ WF_vars(ConnecterStops)

FairSpec == Spec /\ Fairness
-----------------------------------------------------------------------------
States == {"active", "delimiter_received", "waiting_for_delimiter", "term_req_sent1",
           "term_req_sent2", "term_ack_sent", "gone"}

TypeOK ==
  /\ ses.pipe \in {NULL} \cup Pipes /\ ses.terminating_pipes \subseteq Pipes
  /\ \A p \in Pipes, e \in Side : pipes[p][e].st \in States
  /\ sock.pipes \subseteq Pipes /\ sock.acks \in Nat

(* The connection is lost inside a message, the rest of which cannot be    *)
(* read: its pipe was ended in the meantime without waiting for it.        *)
RestCannotBeRead ==
  /\ lost' # lost
  /\ ses.pipe # NULL /\ ses.incomplete_in /\ ~Readable(pipes[ses.pipe].session)

(* zmq_disconnect, whose pipe is gone.                                     *)
EndpointIsGone ==
  /\ sock.endpoint /\ ~sock'.endpoint
  /\ setting.active /\ ~setting.immediate /\ pipes[1].socket.st = "gone"

(* The assertions of the session, its pipes and its socket hold, and no    *)
(* command or call reaches what was deallocated, in every step but those.  *)
AssertionsHold == [][~aborted /\ aborted' => RestCannotBeRead \/ EndpointIsGone]_vars

Whole(parts) == \A i \in DOMAIN parts : parts[i] = IF i % 2 = 1 THEN "first" ELSE "last"

(* Whatever connections come and go, each one is given whole messages, the *)
(* last of which it may not have got to the end of, and so is the socket.  *)
WholeMessages == TypeOK /\ Whole(engine.given) /\ \A p \in Pipes : Whole(got[p])

EndsUnread(p) ==
  /\ Readable(pipes[p].session) /\ ~Readable(pipes'[p].session)
  /\ pipes[p].inq # <<>> /\ Head(pipes[p].inq) # "delimiter"
  /\ engine.on /\ engine'.on

(* The session is told to go by a socket that has ended no pipe: zmq_unbind *)
(* or zmq_disconnect with ZMQ_IMMEDIATE.                                   *)
GoesFirst == sock.left /\ mail.session # <<>> /\ Head(mail.session) = <<"term">> /\ ProcessSession

(* A socket that closes leaves nothing unsent: with a connection the       *)
(* session's pipe does not end before the engine has read it all, unless   *)
(* the linger period is zero or it is over in this very step.  A session   *)
(* that goes first ends its pipe at once, whatever the period is.          *)
LingerHonoured ==
  [][\A p \in Pipes : EndsUnread(p) => setting.linger = "none" \/ timer_event \/ GoesFirst]_vars

Gone == /\ ~ses.live /\ sock.acks = 0
        /\ \A p \in Pipes, e \in Side : pipes[p][e].st = "gone"

Unread == LET q == pipes[ses.pipe].inq IN {q[i] : i \in DOMAIN q}

(* With an infinite linger period a session that has messages waits for a  *)
(* connection; and the delimiter it waits for may have been lost with the  *)
(* ypipe that a hiccup replaced.                                           *)
MayWait ==
  /\ setting.linger = "infinite"
  /\ ses.pipe # NULL /\ pipes[ses.pipe].session.st = "waiting_for_delimiter"
  /\ \/ ~engine.on /\ "first" \in Unread
     \/ setting.subscriber /\ "delimiter" \notin Unread

(* When the socket closes, the session and its pipes go. *)
SessionGoes == <>sock.terminating => <>Gone \/ <>[]MayWait \/ <>aborted

(* What the code does not promise, see the README. *)
LingerAlways == [][\A p \in Pipes : EndsUnread(p) => setting.linger = "none" \/ timer_event]_vars

RestCanBeRead == [][~RestCannotBeRead]_vars
EndpointIsThere == [][~EndpointIsGone]_vars

WaitsToConnectOnly == <>sock.terminating => <>Gone \/ <>aborted \/ <>[](MayWait /\ setting.active)
WaitsForMessagesOnly == <>sock.terminating => <>Gone \/ <>aborted \/ <>[](MayWait /\ "first" \in Unread)
=============================================================================
