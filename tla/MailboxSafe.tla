---------------------------- MODULE MailboxSafe ----------------------------
(***************************************************************************)
(* A thread-safe socket: mailbox_safe_t (libzmq/src/mailbox_safe.cpp) and  *)
(* condition_variable_t under the socket's mutex sync, with the calls of   *)
(* socket_base_t that receive, the socket_poller_t's that wait, and the    *)
(* reaper that closes the socket.                                          *)
(*                                                                         *)
(* All the threads read commands from one pipe, as the owner of an         *)
(* ordinary mailbox does alone; whoever reads a command processes it       *)
(* before it gives up the mutex, and it gives up the mutex in every call   *)
(* of recv that finds nothing, a call with timeout 0 included.             *)
(***************************************************************************)
EXTENDS Naturals, Sequences

CONSTANTS
  Threads,   \* application threads that call zmq_recv
  Pollers,   \* threads that call zmq_poller_wait, each with its own signaler
  MaxMsgs,   \* bound: messages the peer sends
  Crews,     \* which of them use the socket: a behaviour has one of these sets
  Inproc     \* the peer is a thread-safe socket as well, with its own mutex

ASSUME MailboxSafeAssumption ==
  /\ MaxMsgs \in Nat /\ Inproc \in BOOLEAN
  /\ Threads \cap Pollers = {} /\ \A c \in Crews : c \subseteq Threads \cup Pollers
  /\ (Threads \cup Pollers) \cap {"reaper", "peer", "ctx", "nobody"} = {}

Users == Threads \cup Pollers
Readers == Users \cup {"reaper"}       \* they call process_commands
Senders == {"peer", "ctx"}             \* they call mailbox_safe_t::send
Owners == Pollers \cup {"reaper"}      \* they have a signaler
Nobody == "nobody"
Kinds == {"recv", "timed", "dontwait", "send", "events", "in_event", "none"}

VARIABLES
  crew,        \* chosen in Init
  sync,        \* holder of the socket's mutex
  peer_sync,   \* holder of the peer's mutex, when it has one
  pc,          \* where each thread is
  kind, limit, \* a reader's call, and whether its next wait may last
  cmds,        \* commands in cpipe
  passive,     \* a read of cpipe has failed: the next flush returns false
  cmd,         \* the command a sender is sending
  signalers, signals,  \* mailbox_safe_t::signalers, and the eventfds
  inbox,       \* messages in the data pipe
  rpassive,    \* a read of the data pipe has failed
  in_active,   \* pipe_t::in_active, and the pipe's place in fq_t
  written,     \* messages the peer has written
  stopped,     \* the context has been terminated
  terminated,  \* ctx_terminated: the socket knows
  state        \* of the socket

call == <<kind, limit>>
pipe == <<cmds, passive>>
waking == <<signalers, signals>>
data == <<inbox, rpassive, in_active>>
outside == <<crew, peer_sync, cmd, written, stopped>>
vars == <<crew, sync, peer_sync, pc, kind, limit, cmds, passive, cmd, signalers, signals,
          inbox, rpassive, in_active, written, stopped, terminated, state>>

Commands == {"activate_read", "stop", "last"}

(* Where a thread may be. *)
Places == {"idle", "try", "retry", "commands", "asleep", "notified", "expired", "reread",
           "processed", "telling", "polled", "polling", "check", "sending", "signalling"}

Shape ==
  /\ pc \in [Readers \cup Senders -> Places]
  /\ limit \in [Readers -> {"zero", "some"}]
  /\ cmds \in Seq(Commands) /\ cmd \in [Senders -> Commands]
  /\ inbox \in Nat

TypeOK ==
  /\ Shape
  /\ crew \in Crews
  /\ sync \in Readers \cup Senders \cup {Nobody}
  /\ peer_sync \in {"peer", Nobody}
  /\ kind \in [Readers -> Kinds]
  /\ signalers \in SUBSET Owners /\ signals \in [Owners -> Nat]
  /\ written \in 0 .. MaxMsgs
  /\ {passive, rpassive, in_active, stopped, terminated} \subseteq BOOLEAN
  /\ state \in {"open", "closing", "reaping", "ended", "destroyed", "gone"}

(* A new pipe is active and unread. *)
Init ==
  /\ crew \in Crews
  /\ sync = Nobody /\ peer_sync = Nobody
  /\ pc = [t \in Readers \cup Senders |-> "idle"]
  /\ kind = [t \in Readers |-> CASE t \in Threads -> "none"
                               [] t \in Pollers -> "events"
                               [] t = "reaper" -> "in_event"]
  /\ limit = [t \in Readers |-> "zero"]
  /\ cmds = <<>> /\ passive = TRUE
  /\ cmd = [s \in Senders |-> "stop"]
  /\ signalers = {} /\ signals = [t \in Owners |-> 0]
  /\ inbox = 0 /\ rpassive = FALSE /\ in_active = TRUE
  /\ written = 0 /\ stopped = FALSE /\ terminated = FALSE /\ state = "open"
-----------------------------------------------------------------------------
(* Senders. *)

(* A faulty variant: only one of the threads that wait is woken. *)
Broadcast_One(p) ==
  LET asleep == {t \in Readers : p[t] = "asleep"}
  IN  IF asleep = {} THEN p ELSE [p EXCEPT ![CHOOSE t \in asleep : TRUE] = "notified"]

(* condition_variable_t::broadcast *)
Broadcast(p) ==
  [t \in DOMAIN p |-> IF t \in Readers /\ p[t] = "asleep" THEN "notified" ELSE p[t]]

(* The peer writes a message and flushes; if the reader is asleep it has a *)
(* command to send.                                                        *)
Write ==
  /\ pc["peer"] = "idle" /\ written < MaxMsgs /\ state \in {"open", "closing", "reaping"}
  /\ written' = written + 1 /\ inbox' = inbox + 1
  /\ rpassive' = FALSE
  /\ IF rpassive
     THEN /\ pc' = [pc EXCEPT !["peer"] = "sending"]
          /\ cmd' = [cmd EXCEPT !["peer"] = "activate_read"]
          /\ peer_sync' = IF Inproc THEN "peer" ELSE Nobody
     ELSE UNCHANGED <<pc, cmd, peer_sync>>
  /\ UNCHANGED <<crew, sync, call, pipe, waking, in_active, stopped, terminated, state>>

(* The peer acknowledges the end of the pipe: its last command. *)
End ==
  /\ pc["peer"] = "idle" /\ state = "reaping"
  /\ state' = "ended"
  /\ pc' = [pc EXCEPT !["peer"] = "sending"]
  /\ cmd' = [cmd EXCEPT !["peer"] = "last"]
  /\ UNCHANGED <<crew, sync, peer_sync, call, pipe, waking, data, written, stopped, terminated>>

(* ctx_t::terminate, under slot_sync *)
Stop ==
  /\ ~stopped /\ state # "gone"
  /\ stopped' = TRUE
  /\ pc' = [pc EXCEPT !["ctx"] = "sending"]
  /\ UNCHANGED <<crew, sync, peer_sync, call, pipe, waking, cmd, data, written, terminated, state>>

(* A faulty variant: signals outside the lock, as the comment in           *)
(* remove_signaler proposes.                                               *)
Post_Unlocks(s) ==
  /\ pc[s] = "sending" /\ sync = Nobody
  /\ cmds' = Append(cmds, cmd[s])
  /\ passive' = FALSE
  /\ pc' = IF passive THEN [Broadcast(pc) EXCEPT ![s] = "signalling"]
                      ELSE [pc EXCEPT ![s] = "idle"]
  /\ UNCHANGED sync

(* mailbox_safe_t::send: when the flush finds the reader asleep the sender *)
(* keeps the mutex until it has signalled as well.                         *)
Post(s) ==
  /\ pc[s] = "sending" /\ sync = Nobody
  /\ cmds' = Append(cmds, cmd[s])
  /\ passive' = FALSE
  /\ IF passive
     THEN sync' = s /\ pc' = [Broadcast(pc) EXCEPT ![s] = "signalling"]
     ELSE sync' = sync /\ pc' = [pc EXCEPT ![s] = "idle"]

Posted(s) ==
  /\ Post(s)
  /\ peer_sync' = IF s = "peer" /\ ~passive THEN Nobody ELSE peer_sync
  /\ UNCHANGED <<crew, call, waking, cmd, data, written, stopped, terminated, state>>

Signal(s) ==
  /\ pc[s] = "signalling"
  /\ signals' = [t \in Owners |-> IF t \in signalers THEN signals[t] + 1 ELSE signals[t]]
  /\ sync' = IF sync = s THEN Nobody ELSE sync
  /\ peer_sync' = IF s = "peer" THEN Nobody ELSE peer_sync
  /\ pc' = [pc EXCEPT ![s] = "idle"]
  /\ UNCHANGED <<crew, call, pipe, cmd, signalers, data, written, stopped, terminated, state>>
-----------------------------------------------------------------------------
(* process_commands and mailbox_safe_t::recv, called with the mutex held. *)

At(t, where) == pc' = [pc EXCEPT ![t] = where]
Unlock(t, where) == sync' = Nobody /\ At(t, where)

(* A command is read and processed at once; what follows does not wait. *)
Process(t) ==
  /\ pc[t] \in {"commands", "reread"} /\ cmds # <<>>
  /\ cmds' = Tail(cmds)
  /\ in_active' = (in_active \/ Head(cmds) = "activate_read")
  /\ terminated' = (terminated \/ Head(cmds) = "stop")
  /\ state' = IF Head(cmds) = "last" THEN "destroyed" ELSE state
  /\ limit' = [limit EXCEPT ![t] = "zero"]
  /\ At(t, "commands")
  /\ UNCHANGED <<sync, outside, kind, passive, waking, inbox, rpassive>>

(* A faulty variant: with timeout 0 recv does not look into the pipe. *)
Wait_Unread(t) ==
  /\ pc[t] = "commands" /\ (cmds = <<>> \/ limit[t] = "zero")
  /\ passive' = (passive \/ cmds = <<>>)
  /\ Unlock(t, "asleep")

(* Nothing to read: cond_var.wait gives up the mutex. *)
Wait(t) ==
  /\ pc[t] = "commands" /\ cmds = <<>>
  /\ passive' = TRUE
  /\ Unlock(t, "asleep")

Slept(t) ==
  /\ Wait(t)
  /\ UNCHANGED <<outside, call, cmds, waking, data, terminated, state>>

(* pthread_cond_wait may return for no reason. *)
Spurious(t) ==
  /\ pc[t] = "asleep"
  /\ At(t, "notified")
  /\ UNCHANGED <<sync, outside, call, pipe, waking, data, terminated, state>>

TimeOut(t) ==
  /\ pc[t] = "asleep" /\ (limit[t] = "zero" \/ kind[t] = "timed")
  /\ At(t, "expired")
  /\ UNCHANGED <<sync, outside, call, pipe, waking, data, terminated, state>>

(* The wait returns with the mutex; after a timeout recv does not read again. *)
Wake(t) ==
  /\ pc[t] \in {"notified", "expired"} /\ sync = Nobody
  /\ sync' = t
  /\ At(t, IF pc[t] = "notified" THEN "reread" ELSE "processed")
  /\ UNCHANGED <<outside, call, pipe, waking, data, terminated, state>>

(* Another thread has fetched the command. *)
Missed(t) ==
  /\ pc[t] = "reread" /\ cmds = <<>>
  /\ passive' = TRUE
  /\ At(t, "processed")
  /\ UNCHANGED <<sync, outside, call, cmds, waking, data, terminated, state>>
-----------------------------------------------------------------------------
(* socket_base_t::recv: forever, for a while, or not waiting at all.       *)
(* Whether it first waits depends on how long ago commands were processed. *)
Recv(t, k) ==
  /\ t \in crew /\ pc[t] = "idle" /\ state = "open" /\ ~terminated /\ sync = Nobody
  /\ sync' = t
  /\ At(t, "try")
  /\ kind' = [kind EXCEPT ![t] = k]
  /\ \E l \in {"zero", "some"} : /\ k = "dontwait" => l = "zero"
                                 /\ limit' = [limit EXCEPT ![t] = l]
  /\ UNCHANGED <<outside, pipe, waking, data, terminated, state>>

Return(t) ==
  /\ Unlock(t, "idle")
  /\ kind' = [kind EXCEPT ![t] = "none"] /\ limit' = [limit EXCEPT ![t] = "zero"]

(* socket_base_t::send reads the commands first, or has just done so. *)
SendCall(t) ==
  /\ t \in crew /\ pc[t] = "idle" /\ state = "open" /\ ~terminated /\ sync = Nobody
  /\ sync' = t
  /\ At(t, "commands") \/ At(t, "processed")
  /\ kind' = [kind EXCEPT ![t] = "send"]
  /\ UNCHANGED <<outside, limit, pipe, waking, data, terminated, state>>

(* xsend finds room; a reader that is asleep has to be told. *)
Sent(t) ==
  /\ pc[t] = "processed" /\ kind[t] = "send"
  /\ (~terminated /\ At(t, "telling") /\ UNCHANGED <<sync, call>>) \/ Return(t)
  /\ UNCHANGED <<outside, pipe, waking, data, terminated, state>>

Available == in_active /\ inbox > 0

(* pipe_t::read of an empty pipe; fq_t takes it from the active ones. *)
Deactivate ==
  /\ in_active' = FALSE
  /\ rpassive' = (rpassive \/ in_active)
  /\ UNCHANGED inbox

(* xrecv; when enough has been read the peer is told to go on writing. *)
Take(t) ==
  /\ pc[t] \in {"try", "retry"} /\ Available
  /\ inbox' = inbox - 1
  /\ (At(t, "telling") /\ UNCHANGED <<sync, call>>) \/ Return(t)
  /\ UNCHANGED <<outside, pipe, waking, rpassive, in_active, terminated, state>>

TakeNothing(t) ==
  /\ pc[t] \in {"try", "retry"} /\ ~Available
  /\ Deactivate
  /\ \/ /\ pc[t] = "try" \/ kind[t] # "dontwait"
        /\ At(t, "commands") /\ UNCHANGED <<sync, call>>
     \/ pc[t] = "retry" /\ kind[t] # "recv" /\ Return(t)
  /\ UNCHANGED <<outside, pipe, waking, terminated, state>>

(* send_activate_read or send_activate_write: the mailbox of a thread-safe *)
(* peer has a mutex of its own.                                            *)
Tell(t) ==
  /\ pc[t] = "telling" /\ peer_sync = Nobody
  /\ Return(t)
  /\ UNCHANGED <<outside, pipe, waking, data, terminated, state>>

(* What follows process_commands in recv. *)
Again(t) ==
  /\ pc[t] = "processed" /\ kind[t] \in {"recv", "timed", "dontwait"}
  /\ IF terminated THEN Return(t)
     ELSE At(t, "retry") /\ limit' = [limit EXCEPT ![t] = "some"] /\ UNCHANGED <<sync, kind>>
  /\ UNCHANGED <<outside, pipe, waking, data, terminated, state>>
-----------------------------------------------------------------------------
(* socket_poller_t *)

add_signaler(p) ==
  /\ p \in crew /\ pc[p] = "idle" /\ state = "open" /\ sync = Nobody /\ p \notin signalers
  /\ signalers' = signalers \cup {p}
  /\ UNCHANGED <<sync, pc, outside, call, pipe, signals, data, terminated, state>>

remove_signaler(p) ==
  /\ pc[p] = "idle" /\ state = "open" /\ sync = Nobody /\ p \in signalers
  /\ signalers' = signalers \ {p}
  /\ UNCHANGED <<sync, pc, outside, call, pipe, signals, data, terminated, state>>

(* signaler_t::recv leaves the other signals in the eventfd. *)
Polled(p) ==
  /\ signals' = [signals EXCEPT ![p] = IF @ > 0 THEN @ - 1 ELSE @]
  /\ At(p, "polled")
  /\ UNCHANGED <<sync, outside, call, pipe, signalers, data, terminated, state>>

(* The first pass of wait does not wait; the others do. *)
FirstPass(p) == pc[p] = "idle" /\ state = "open" /\ p \in signalers /\ Polled(p)
NextPass(p) == pc[p] = "polling" /\ signals[p] > 0 /\ Polled(p)

(* getsockopt (ZMQ_EVENTS) *)
Events(p) ==
  /\ pc[p] = "polled" /\ sync = Nobody
  /\ IF terminated THEN At(p, "idle") /\ UNCHANGED sync
     ELSE sync' = p /\ At(p, "commands")
  /\ UNCHANGED <<outside, call, pipe, waking, data, terminated, state>>

HasIn(p) ==
  /\ pc[p] = "processed" /\ kind[p] = "events"
  /\ IF terminated \/ Available THEN Unlock(p, "idle") /\ UNCHANGED data
     ELSE Unlock(p, "polling") /\ Deactivate
  /\ UNCHANGED <<outside, call, pipe, waking, terminated, state>>
-----------------------------------------------------------------------------
(* close, and the reaper's part *)

close ==
  /\ state = "open" /\ sync = Nobody /\ \A t \in Users : pc[t] = "idle"
  /\ signalers' = {}
  /\ state' = "closing"
  /\ UNCHANGED <<sync, pc, outside, call, pipe, signals, data, terminated>>

(* A faulty variant: the commands that are there already are not handled. *)
start_reaping_NoSignal ==
  /\ state = "closing" /\ sync = Nobody
  /\ signalers' = signalers \cup {"reaper"}
  /\ state' = "reaping"
  /\ UNCHANGED <<sync, pc, outside, call, pipe, signals, data, terminated>>

start_reaping ==
  /\ state = "closing" /\ sync = Nobody
  /\ signalers' = signalers \cup {"reaper"}
  /\ signals' = [signals EXCEPT !["reaper"] = 1]
  /\ state' = "reaping"
  /\ UNCHANGED <<sync, pc, outside, call, pipe, data, terminated>>

in_event ==
  /\ pc["reaper"] = "idle" /\ signals["reaper"] > 0 /\ sync = Nobody /\ state # "gone"
  /\ signals' = [signals EXCEPT !["reaper"] = @ - 1]
  /\ sync' = "reaper"
  /\ At("reaper", "commands")
  /\ UNCHANGED <<outside, call, pipe, signalers, data, terminated, state>>

Checked ==
  /\ pc["reaper"] = "processed"
  /\ Unlock("reaper", "check")
  /\ UNCHANGED <<outside, call, pipe, waking, data, terminated, state>>

(* A socket to destroy leaves the context first, which takes slot_sync;    *)
(* the mailbox's destructor takes the mutex.                               *)
check_destroy ==
  /\ pc["reaper"] = "check"
  /\ state = "destroyed" => pc["ctx"] = "idle" /\ sync = Nobody
  /\ state' = IF state = "destroyed" THEN "gone" ELSE state
  /\ At("reaper", "idle")
  /\ UNCHANGED <<sync, outside, call, pipe, waking, data, terminated>>
-----------------------------------------------------------------------------
Send(s) == Posted(s) \/ Signal(s)

Reading(t) == Process(t) \/ Slept(t) \/ Wake(t) \/ Missed(t)

Calling(t) == Take(t) \/ TakeNothing(t) \/ Tell(t) \/ Again(t) \/ Sent(t)

Polling(p) == NextPass(p) \/ Events(p) \/ HasIn(p)

Reaping == start_reaping \/ in_event \/ Checked \/ check_destroy

Next ==
  \/ Write \/ End \/ Stop
  \/ \E s \in Senders : Send(s)
  \/ \E t \in Readers : Reading(t) \/ Spurious(t) \/ TimeOut(t)
  \/ \E t \in Threads : Calling(t) \/ SendCall(t)
                          \/ \E k \in {"recv", "timed", "dontwait"} : Recv(t, k)
  \/ \E p \in Pollers : Polling(p) \/ FirstPass(p) \/ add_signaler(p) \/ remove_signaler(p)
  \/ close \/ Reaping

Spec == Init /\ [][Next]_vars

(* What a thread in a call does next, and what it does when it gets the    *)
(* mutex it waits for.                                                     *)
Runs(t) ==
  \/ Process(t) \/ Slept(t) \/ Missed(t) \/ TimeOut(t)
  \/ (t \in Threads /\ Calling(t))
  \/ (t \in Pollers /\ (NextPass(t) \/ HasIn(t)))

Enters(t) == Wake(t) \/ (t \in Pollers /\ Events(t))

(* Threads run, a wait with a timeout ends, and who asks for a mutex again *)
(* and again gets it.                                                      *)
Fairness ==
  /\ \A s \in Senders : SF_vars(Send(s))
  /\ \A t \in Users : WF_vars(Runs(t)) /\ SF_vars(Enters(t))

FairSpec == Spec /\ Fairness
-----------------------------------------------------------------------------
(* A sender has written and not yet signalled. *)
Signalling == \E s \in Senders : pc[s] = "signalling"

(* The peer has written a message and not yet sent the command that says so. *)
Telling == pc["peer"] = "sending" /\ cmd["peer"] = "activate_read"

(* A thread that sleeps, though others read the commands it waits for,     *)
(* misses nothing: no command is unread, and if its call may last there is *)
(* no message it could take and no termination it should report.           *)
SleepersMissNothing ==
  \A t \in Readers : pc[t] = "asleep" =>
    /\ passive /\ cmds = <<>>
    /\ limit[t] = "some" => ~terminated /\ ~in_active /\ (inbox > 0 => Telling)

(* Who waits for its signaler is signalled when there is something to do:  *)
(* a poller for a message or the termination, the reaper for a command.    *)
SignalledWhenNeeded ==
  /\ TypeOK
  /\ \A t \in signalers : signals[t] = 0 /\ ~Signalling =>
       /\ pc[t] = "polling" => /\ cmds = <<>> /\ ~terminated
                               /\ Available \/ inbox > 0 => Telling
       /\ t = "reaper" /\ pc[t] = "idle" => cmds = <<>>

(* When the socket is gone nobody is in its mailbox, and nobody is left to *)
(* signal the signaler that went with it.                                  *)
SafeDestruction ==
  state = "gone" => sync = Nobody /\ \A t \in Readers \cup Senders : pc[t] = "idle"

(* The strengthening from which the two are proved.  Who is inside the     *)
(* mutex holds it; who sleeps is known to be asleep.                       *)
Inside == {"try", "retry", "commands", "reread", "processed", "telling"}

Mutex ==
  /\ \A t \in Readers : pc[t] \in Inside <=> sync = t
  /\ \A t \in Readers : pc[t] \notin {"sending", "signalling"}
  /\ \A s \in Senders : pc[s] = "signalling" <=> sync = s
  /\ \A s \in Senders : pc[s] \in {"idle", "sending", "signalling"}
  /\ ~stopped => pc["ctx"] = "idle"

Asleep == \A t \in Readers : pc[t] = "asleep" => passive /\ cmds = <<>>

(* A call that may wait has looked for a message and for the termination.  *)
Looked ==
  \A t \in Readers :
    /\ pc[t] \in {"try", "retry"} => ~terminated
    /\ limit[t] = "some" => t \in Threads /\ pc[t] # "idle"
    /\ limit[t] = "some" /\ pc[t] \in {"commands", "asleep"} => ~terminated /\ ~in_active

(* While the pipe is inactive, its last read has failed or one activation  *)
(* is on its way.                                                          *)
OnItsWay == \E i \in DOMAIN cmds : cmds[i] = "activate_read"

Activation ==
  /\ rpassive => ~in_active /\ inbox = 0
  /\ Telling \/ OnItsWay => ~in_active /\ ~rpassive
  /\ ~in_active => rpassive \/ Telling \/ OnItsWay
  /\ Telling => ~OnItsWay
  /\ \A i, j \in DOMAIN cmds : cmds[i] = "activate_read" /\ cmds[j] = "activate_read" => i = j

(* The peer's last command is its last, and finds the users gone.          *)
LastCommand ==
  /\ state # "open" => \A t \in Users : pc[t] = "idle"
  /\ cmd["ctx"] = "stop"
  /\ pc["peer"] = "sending" /\ cmd["peer"] = "last" => state = "ended"
  /\ state \in {"destroyed", "gone"} => pc["peer"] # "sending"
  /\ \A i \in DOMAIN cmds : cmds[i] = "last" => state = "ended" /\ pc["peer"] # "sending"
  /\ \A i, j \in DOMAIN cmds : cmds[i] = "last" /\ cmds[j] = "last" => i = j

(* Who has read until nothing was left will be signalled for what comes    *)
(* next, and a poller has found neither a message nor the termination.     *)
Settled(t) == \/ pc[t] \in {"asleep", "notified", "expired", "reread", "processed", "polling", "check"}
              \/ t = "reaper" /\ pc[t] = "idle"

Signalled ==
  \A t \in signalers : signals[t] = 0 /\ ~Signalling =>
    /\ Settled(t) => passive /\ cmds = <<>>
    /\ pc[t] = "polling" => ~in_active /\ ~terminated

IInv == Shape /\ Mutex /\ Asleep /\ Looked /\ Activation /\ LastCommand /\ SafeDestruction

(* Calls return when the context ends, and a call that waits when there is *)
(* a message.                                                              *)
CallsReturn ==
  /\ stopped ~> \A t \in Users : pc[t] = "idle"
  /\ \A t \in Threads : pc[t] # "idle" /\ inbox > 0 ~> pc[t] = "idle" \/ inbox = 0

(* Two connected sockets, each used by a thread of its own, do not wait    *)
(* for each other for ever.                                                *)
NoDeadlock ==
  ~ /\ pc["peer"] = "sending" /\ peer_sync = "peer"
    /\ \E t \in Threads : sync = t /\ pc[t] = "telling"
=============================================================================
