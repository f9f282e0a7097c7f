-------------------------------- MODULE Ctx --------------------------------
(***************************************************************************)
(* The end of a context: ctx_t::create_socket, terminate, shutdown and     *)
(* destroy_socket (libzmq/src/ctx.cpp), the reaper thread that closes      *)
(* sockets (reaper.cpp), and the inproc connections that wait for their    *)
(* endpoint to be bound.                                                   *)
(*                                                                         *)
(* A step is what its thread does with slot_sync, or endpoints_sync, held. *)
(* What a socket needs to come to its end after it starts reaping is       *)
(* Own's: here it takes any time, and with a pending connection it cannot. *)
(***************************************************************************)
EXTENDS Naturals, Sequences, FiniteSets, SequencesExt

CONSTANTS
  App,           \* sockets of the application, each used by one thread
  Helper,        \* bound: PAIR sockets that terminate may create
  Connector,     \* sockets whose thread connects to an inproc endpoint
  Binder,        \* sockets whose thread binds that endpoint
  NULL,
  MaxSockets,    \* ZMQ_MAX_SOCKETS
  MaxInterrupt   \* bound: interrupted calls of zmq_ctx_term

Socket == App \cup Helper

ASSUME CtxAssumption == /\ App \cap Helper = {} /\ IsFiniteSet(Helper)
                        /\ Connector \subseteq App /\ Binder \subseteq App
                        /\ NULL \notin Socket
                        /\ MaxSockets \in Nat /\ MaxInterrupt \in Nat

VARIABLES
  starting, terminating,
  sockets,       \* ctx_t::sockets
  empty_slots,   \* how many
  st,            \* where each socket is in its life
  stopped,       \* sockets that were sent "stop"
  bound,         \* the socket registered at the endpoint
  pending,       \* sockets in pending_connections
  rbox,          \* the reaper's mailbox
  reaper,        \* reaper_t: its sockets, terminating; running, and in destroy_socket
  done,          \* commands in term_mailbox
  term,          \* the thread in zmq_ctx_term: idle, waiting, returned, aborted
  interrupts

vars == <<starting, terminating, sockets, empty_slots, st, stopped, bound, pending,
          rbox, reaper, done, term, interrupts>>

Init == /\ starting = TRUE /\ terminating = FALSE
        /\ sockets = {} /\ empty_slots = MaxSockets
        /\ st = [s \in Socket |-> "none"]
        /\ stopped = {}
        /\ bound = NULL /\ pending = {}
        /\ rbox = <<>>
        /\ reaper = [sockets |-> 0, terminating |-> FALSE, running |-> TRUE, busy |-> NULL]
        /\ done = 0
        /\ term = "idle"
        /\ interrupts = 0

Alive == term \notin {"returned", "aborted"}

(* A failed assertion ends the process, and every thread of it. *)
Running == term # "aborted"
-----------------------------------------------------------------------------
(* Application threads. *)

(* A faulty variant: sockets can be created while the context terminates. *)
create_socket_Late(s) ==
  /\ Alive
  /\ st[s] = "none"
  /\ empty_slots > 0
  /\ starting' = FALSE
  /\ empty_slots' = empty_slots - 1
  /\ sockets' = sockets \cup {s}
  /\ st' = [st EXCEPT ![s] = "open"]
  /\ UNCHANGED <<terminating, stopped, bound, pending, rbox, reaper, done, term, interrupts>>

create_socket(s) ==
  /\ Alive
  /\ st[s] = "none"
  /\ ~terminating
  /\ empty_slots > 0
  /\ starting' = FALSE
  /\ empty_slots' = empty_slots - 1
  /\ sockets' = sockets \cup {s}
  /\ st' = [st EXCEPT ![s] = "open"]
  /\ UNCHANGED <<terminating, stopped, bound, pending, rbox, reaper, done, term, interrupts>>

(* A call on a socket processes its commands first, "stop" among them, and *)
(* fails with ETERM from then on; close does not.                          *)
Usable(s) == Alive /\ st[s] = "open" /\ s \notin stopped

(* bind: register_endpoint and connect_pending. *)
Bind(s) ==
  /\ Usable(s) /\ s \in Binder
  /\ bound = NULL
  /\ bound' = s
  /\ pending' = {}
  /\ UNCHANGED <<starting, terminating, sockets, empty_slots, st, stopped, rbox,
                 reaper, done, term, interrupts>>

(* connect, when find_endpoint finds nothing ... *)
ConnectFind(s) ==
  /\ Usable(s) /\ s \in Connector
  /\ bound = NULL
  /\ s \notin pending
  /\ st' = [st EXCEPT ![s] = "connecting"]
  /\ UNCHANGED <<starting, terminating, sockets, empty_slots, stopped, bound, pending,
                 rbox, reaper, done, term, interrupts>>

(* ... and, a pipe pair later, pend_connection looks again. *)
pend_connection(s) ==
  /\ Running
  /\ st[s] = "connecting"
  /\ pending' = IF bound = NULL THEN pending \cup {s} ELSE pending
  /\ st' = [st EXCEPT ![s] = "open"]
  /\ UNCHANGED <<starting, terminating, sockets, empty_slots, stopped, bound, rbox,
                 reaper, done, term, interrupts>>

close(s) ==
  /\ Running
  /\ st[s] = "open" /\ s \in App
  /\ st' = [st EXCEPT ![s] = "closed"]
  /\ rbox' = Append(rbox, <<"reap", s>>)
  /\ UNCHANGED <<starting, terminating, sockets, empty_slots, stopped, bound, pending,
                 reaper, done, term, interrupts>>
-----------------------------------------------------------------------------
(* terminate and shutdown. *)

(* "stop" for the sockets or, if there are none, for the reaper. *)
StopAll(open, box) ==
  /\ stopped' = stopped \cup open
  /\ rbox' = IF open = {} THEN Append(box, <<"stop">>) ELSE box

(* The PAIR sockets that terminate creates, binds and closes, one for each *)
(* pending connection, while it holds slot_sync.  The first is bound.      *)
ForPending(p) == p \in SUBSET {h \in Helper : st[h] = "none"}
                 /\ Cardinality(p) = Cardinality(pending)
Pairs == CHOOSE p \in SUBSET Helper : ForPending(p)

Reaps(closing) == [i \in DOMAIN closing |-> <<"reap", closing[i]>>]

(* terminate up to its wait; a restarted call stops nothing again. *)
terminate ==
  /\ term = "idle" /\ ~starting
  /\ Cardinality(pending) <= empty_slots
  /\ \E p \in SUBSET Helper : ForPending(p)     \* bound: Helper has enough
  /\ LET closing == SetToSeq(Pairs)
     IN  /\ sockets' = sockets \cup Pairs
         /\ empty_slots' = empty_slots - Cardinality(Pairs)
         /\ st' = [s \in Socket |-> IF s \in Pairs THEN "closed" ELSE st[s]]
         /\ bound' = IF closing = <<>> THEN bound ELSE Head(closing)
         /\ pending' = {}
         /\ IF terminating
            THEN /\ rbox' = rbox \o Reaps(closing)
                 /\ UNCHANGED stopped
            ELSE StopAll(sockets', rbox \o Reaps(closing))
  /\ terminating' = TRUE
  /\ term' = "waiting"
  /\ UNCHANGED <<starting, reaper, done, interrupts>>

(* There is no slot for such a PAIR socket: its assertion fails. *)
TerminateAborts ==
  /\ term = "idle" /\ ~starting
  /\ Cardinality(pending) > empty_slots
  /\ term' = "aborted"
  /\ UNCHANGED <<starting, terminating, sockets, empty_slots, st, stopped, bound,
                 pending, rbox, reaper, done, interrupts>>

(* A context that never had a socket is deleted at once. *)
TerminateUnused ==
  /\ term = "idle" /\ starting
  /\ term' = "returned"
  /\ UNCHANGED <<starting, terminating, sockets, empty_slots, st, stopped, bound,
                 pending, rbox, reaper, done, interrupts>>

(* term_mailbox.recv returns "done": the context is deleted. *)
TerminateReturns ==
  /\ term = "waiting" /\ done > 0
  /\ done' = done - 1
  /\ term' = "returned"
  /\ UNCHANGED <<starting, terminating, sockets, empty_slots, st, stopped, bound,
                 pending, rbox, reaper, interrupts>>

(* recv is interrupted; the application calls zmq_ctx_term again. *)
TerminateInterrupted ==
  /\ term = "waiting" /\ done = 0
  /\ interrupts < MaxInterrupt
  /\ interrupts' = interrupts + 1
  /\ term' = "idle"
  /\ UNCHANGED <<starting, terminating, sockets, empty_slots, st, stopped, bound,
                 pending, rbox, reaper, done>>

shutdown ==
  /\ Alive
  /\ ~starting /\ ~terminating
  /\ terminating' = TRUE
  /\ StopAll(sockets, rbox)
  /\ UNCHANGED <<starting, sockets, empty_slots, st, bound, pending, reaper, done,
                 term, interrupts>>
-----------------------------------------------------------------------------
(* The reaper's thread. *)

Reaper(command) == /\ Running
                   /\ reaper.running /\ reaper.busy = NULL
                   /\ rbox # <<>>
                   /\ Head(rbox) = command

(* start_reaping: the socket terminates and its endpoint is unregistered.  *)
process_reap(s) ==
  /\ Reaper(<<"reap", s>>)
  /\ rbox' = Tail(rbox)
  /\ reaper' = [reaper EXCEPT !.sockets = @ + 1]
  /\ st' = [st EXCEPT ![s] = "reaping"]
  /\ bound' = IF bound = s THEN NULL ELSE bound
  /\ UNCHANGED <<starting, terminating, sockets, empty_slots, stopped, pending, done,
                 term, interrupts>>

(* A faulty variant: nobody tells the reaper to stop.                      *)
destroy_socket_NoStop(s) ==
  /\ Running
  /\ reaper.running /\ reaper.busy = NULL
  /\ st[s] = "reaping" /\ s \notin pending
  /\ empty_slots' = empty_slots + 1
  /\ sockets' = sockets \ {s}
  /\ st' = [st EXCEPT ![s] = "gone"]
  /\ reaper' = [reaper EXCEPT !.busy = s]
  /\ UNCHANGED <<starting, terminating, stopped, bound, pending, rbox, done, term, interrupts>>

(* check_destroy: a socket that waits for nothing leaves the context; the  *)
(* last one lets the reaper stop.                                          *)
destroy_socket(s) ==
  /\ Running
  /\ reaper.running /\ reaper.busy = NULL
  /\ st[s] = "reaping" /\ s \notin pending
  /\ empty_slots' = empty_slots + 1
  /\ sockets' = sockets \ {s}
  /\ st' = [st EXCEPT ![s] = "gone"]
  /\ reaper' = [reaper EXCEPT !.busy = s]
  /\ rbox' = IF terminating /\ sockets' = {} THEN Append(rbox, <<"stop">>) ELSE rbox
  /\ UNCHANGED <<starting, terminating, stopped, bound, pending, done, term, interrupts>>

(* send_reaped, the last thing the socket does. *)
SendReaped ==
  /\ Running
  /\ reaper.busy # NULL
  /\ reaper' = [reaper EXCEPT !.busy = NULL]
  /\ rbox' = Append(rbox, <<"reaped">>)
  /\ UNCHANGED <<starting, terminating, sockets, empty_slots, st, stopped, bound,
                 pending, done, term, interrupts>>

(* send_done, and the thread ends. *)
Finish(r) == IF r.terminating /\ r.sockets = 0
             THEN /\ done' = done + 1
                  /\ reaper' = [r EXCEPT !.running = FALSE]
             ELSE /\ reaper' = r
                  /\ UNCHANGED done

process_reaped ==
  /\ Reaper(<<"reaped">>)
  /\ rbox' = Tail(rbox)
  /\ Finish([reaper EXCEPT !.sockets = @ - 1])
  /\ UNCHANGED <<starting, terminating, sockets, empty_slots, st, stopped, bound,
                 pending, term, interrupts>>

(* A faulty variant: stop does not wait for the sockets that are reaped.   *)
process_stop_AtOnce ==
  /\ Reaper(<<"stop">>)
  /\ rbox' = Tail(rbox)
  /\ done' = done + 1
  /\ reaper' = [reaper EXCEPT !.running = FALSE, !.terminating = TRUE]
  /\ UNCHANGED <<starting, terminating, sockets, empty_slots, st, stopped, bound,
                 pending, term, interrupts>>

process_stop ==
  /\ Reaper(<<"stop">>)
  /\ rbox' = Tail(rbox)
  /\ Finish([reaper EXCEPT !.terminating = TRUE])
  /\ UNCHANGED <<starting, terminating, sockets, empty_slots, st, stopped, bound,
                 pending, term, interrupts>>

ReaperStep == \/ \E s \in Socket : process_reap(s) \/ destroy_socket(s)
              \/ SendReaped \/ process_reaped \/ process_stop

Next == \/ \E s \in App : \/ create_socket(s) \/ Bind(s) \/ ConnectFind(s)
                         \/ pend_connection(s) \/ close(s)
        \/ terminate \/ TerminateAborts \/ TerminateUnused
        \/ TerminateReturns \/ TerminateInterrupted \/ shutdown
        \/ ReaperStep

Spec == Init /\ [][Next]_vars

(* Threads run; an application whose socket returns ETERM closes it, and   *)
(* calls zmq_ctx_term again when it was interrupted.                       *)
Fairness == /\ \A s \in Socket : WF_vars(process_reap(s)) /\ WF_vars(destroy_socket(s))
            /\ WF_vars(SendReaped) /\ WF_vars(process_reaped) /\ WF_vars(process_stop)
            /\ \A s \in App : /\ WF_vars(pend_connection(s))
                             /\ WF_vars(s \in stopped /\ close(s))
            /\ WF_vars(terminating /\ (terminate \/ TerminateReturns))

FairSpec == Spec /\ Fairness
-----------------------------------------------------------------------------
Commands == {<<"stop">>, <<"reaped">>} \cup ({"reap"} \X Socket)

TypeOK ==
  /\ {starting, terminating} \subseteq BOOLEAN
  /\ sockets \subseteq Socket /\ stopped \subseteq Socket /\ pending \subseteq Socket
  /\ empty_slots \in 0 .. MaxSockets
  /\ st \in [Socket -> {"none", "open", "connecting", "closed", "reaping", "gone"}]
  /\ bound \in Socket \cup {NULL}
  /\ rbox \in Seq(Commands)
  /\ reaper \in [sockets: Nat, terminating: BOOLEAN, running: BOOLEAN, busy: Socket \cup {NULL}]
  /\ done \in Nat /\ interrupts \in 0 .. MaxInterrupt
  /\ term \in {"idle", "waiting", "returned", "aborted"}

(* The reaper stops once and last: nothing is left in its mailbox that     *)
(* nobody will process, no socket is left in the context or in the         *)
(* reaper's poller, and the assertion that terminate makes on "done"       *)
(* holds.                                                                  *)
ReaperStopsLast ==
  /\ TypeOK
  /\ ~reaper.running => /\ rbox = <<>> /\ sockets = {} /\ pending = {}
                        /\ reaper.sockets = 0 /\ reaper.busy = NULL
                        /\ terminating

(* When zmq_ctx_term has deleted a context that was used, no thread of it  *)
(* and no call of the application on a socket is still inside it.          *)
DeletedUnused ==
  term = "returned" /\ ~starting =>
    /\ ~reaper.running /\ done = 0
    /\ \A s \in Socket : st[s] \in {"none", "gone"}

(* The strengthening from which the two are proved: the slots are the      *)
(* context's sockets, and what is in the reaper's mailbox agrees with what *)
(* it has counted and with what was asked of it.                           *)
Inside == {s \in Socket : st[s] \in {"open", "connecting", "closed", "reaping"}}
Reaping == {s \in Socket : st[s] = "reaping"}

One(p) == IF p THEN 1 ELSE 0
Count(box, command) == Cardinality({i \in DOMAIN box : box[i] = command})

Slots ==
  /\ sockets = Inside /\ pending \subseteq sockets
  /\ IsFiniteSet(sockets) /\ empty_slots = MaxSockets - Cardinality(sockets)

(* Each closed socket's reap is on its way once, stop comes once and when  *)
(* no socket is left, and reaped for every socket that is still counted.   *)
Mailed ==
  /\ \A s \in Socket : Count(rbox, <<"reap", s>>) = One(st[s] = "closed")
  /\ Count(rbox, <<"stop">>) + One(reaper.terminating) = One(terminating /\ sockets = {})
  /\ reaper.sockets = Cardinality(Reaping) + Count(rbox, <<"reaped">>) + One(reaper.busy # NULL)

Ended ==
  /\ ~reaper.running => rbox = <<>> /\ reaper.terminating /\ reaper.sockets = 0
  /\ done = One(~reaper.running /\ term # "returned")
  /\ starting => ~terminating
  /\ term = "returned" /\ reaper.running => starting

IInv == TypeOK /\ Slots /\ Mailed /\ Ended

(* zmq_ctx_term returns when the application has closed its sockets,       *)
(* whatever was interrupted, shut down or connected before; the exception  *)
(* is a connection that was made pending after terminate had looked.       *)
TermReturnsUnlessPending == terminating /\ term = "waiting"
                              ~> ~Alive \/ (term = "waiting" /\ pending # {})

(* The documented promise, without the exception. *)
TermReturns == term = "waiting" ~> ~Alive

(* The assertion on create_socket in terminate. *)
NeverAborts == term # "aborted"
=============================================================================
