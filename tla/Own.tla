-------------------------------- MODULE Own --------------------------------
(***************************************************************************)
(* own_t (libzmq/src/own.cpp): the tree of socket, listeners, sessions and *)
(* connecters, which live in different threads, and its shutdown.  An      *)
(* object is deleted when its children have acknowledged their own end and *)
(* it has processed every command that was announced to it.                *)
(*                                                                         *)
(* mbox[o] is what is on its way to o, in order (Mailbox).  Commands of    *)
(* pipes are PipePair's.  A deleted object's address can be allocated      *)
(* again.                                                                  *)
(***************************************************************************)
EXTENDS Naturals, Sequences, FiniteSets

CONSTANTS
  Object,    \* addresses of objects
  Root,      \* the socket
  NULL,
  MaxLaunch, \* bound: children launched in all
  MaxReq,    \* bound: calls of terminate by one child
  MaxSent    \* bound: engines and pipes handed to other objects

ASSUME OwnAssumption == /\ Root \in Object
                        /\ NULL \notin Object
                        /\ {MaxLaunch, MaxReq, MaxSent} \subseteq Nat

VARIABLES
  own,       \* the own_t objects
  mbox,      \* commands on their way to each
  finding,   \* connecting threads between find_endpoint and send_bind
  launched, handed   \* what the bounds count

vars == <<own, mbox, finding, launched, handed>>

Fresh(parent) == [status |-> "live", owner |-> parent, owned |-> {},
                  terminating |-> FALSE, pending |-> FALSE,
                  sent_seqnum |-> 0, processed_seqnum |-> 0, term_acks |-> 0,
                  pipes |-> 0, launching |-> NULL, plugged |-> FALSE, reqs |-> 0]

Init == /\ own = [o \in Object |-> IF o = Root
                    THEN [Fresh(NULL) EXCEPT !.plugged = TRUE]
                    ELSE [Fresh(NULL) EXCEPT !.status = "free"]]
        /\ mbox = [o \in Object |-> <<>>]
        /\ finding = 0
        /\ launched = 0
        /\ handed = 0
-----------------------------------------------------------------------------
NoCommands == [o \in Object |-> <<>>]

(* A faulty variant: children do not hold an object. *)
CanFinish_IgnoresAcks(p) == p.terminating /\ p.processed_seqnum = p.sent_seqnum

(* The condition of check_term_acks. *)
CanFinish(p) == /\ p.terminating
                /\ p.processed_seqnum = p.sent_seqnum
                /\ p.term_acks = 0

(* o becomes p, its mailbox becomes rest, commands are sent; and           *)
(* check_term_acks: when p can finish it acknowledges and is deleted.      *)
Become(o, p, rest, commands) ==
  /\ own' = [own EXCEPT ![o] = IF CanFinish(p) THEN [p EXCEPT !.status = "free"] ELSE p]
  /\ mbox' = [x \in Object |->
                (IF x = o THEN rest ELSE mbox[x]) \o commands[x]
                \o (IF CanFinish(p) /\ x = p.owner THEN <<<<"term_ack">>>> ELSE <<>>)]

(* o's thread may run a handler. *)
Runs(o) == own[o].status = "live" /\ own[o].launching = NULL

(* send_term to some children *)
Terms(children) == [x \in Object |-> IF x \in children THEN <<<<"term">>>> ELSE <<>>]

(* process_term: the children are asked, and with a socket its pipes are.  *)
Terminating(p) == [p EXCEPT !.term_acks = @ + Cardinality(p.owned) + p.pipes,
                            !.owned = {}, !.terminating = TRUE, !.pending = FALSE]
-----------------------------------------------------------------------------
(* launch_child: set_owner and send_plug, then send_own to itself.  The    *)
(* child's thread may run in between.  A socket that closes launches       *)
(* nothing more; a session that is lingering may reconnect and launch a    *)
(* connecter though it terminates.                                         *)

LaunchPlug(o, c) ==
  /\ Runs(o) /\ own[o].plugged
  /\ own[o].terminating => o # Root
  /\ own[c].status = "free"
  /\ launched < MaxLaunch
  /\ launched' = launched + 1
  /\ own' = [own EXCEPT ![c] = [Fresh(o) EXCEPT !.sent_seqnum = 1],
                        ![o].launching = c]
  /\ mbox' = [mbox EXCEPT ![c] = Append(@, <<"plug">>)]
  /\ UNCHANGED <<finding, handed>>

LaunchOwn(o) ==
  /\ own[o].status = "live"
  /\ own[o].launching # NULL
  /\ own' = [own EXCEPT ![o].launching = NULL, ![o].sent_seqnum = @ + 1]
  /\ mbox' = [mbox EXCEPT ![o] = Append(@, <<"own", own[o].launching>>)]
  /\ UNCHANGED <<finding, launched, handed>>
-----------------------------------------------------------------------------
(* Ways in which a tree starts to end. *)

(* terminate, by the object itself: the root starts, a child asks its      *)
(* owner.  A second call while nothing has happened asks a second time.    *)
terminate(o) ==
  /\ Runs(o) /\ own[o].plugged
  /\ ~own[o].terminating
  /\ IF o = Root
     THEN Become(o, Terminating(own[o]), mbox[o], Terms(own[o].owned))
     ELSE /\ own[o].reqs < MaxReq
          /\ own' = [own EXCEPT ![o].reqs = @ + 1]
          /\ mbox' = [mbox EXCEPT ![own[o].owner] = Append(@, <<"term_req", o>>)]
  /\ UNCHANGED <<finding, launched, handed>>

(* process_term_req, which term_child calls too. *)
TermChild(o, c, rest) ==
  IF ~own[o].terminating /\ c \in own[o].owned
  THEN Become(o, [own[o] EXCEPT !.owned = @ \ {c}, !.term_acks = @ + 1],
              rest, Terms({c}))
  ELSE Become(o, own[o], rest, NoCommands)

term_child(o, c) ==
  /\ Runs(o) /\ own[o].plugged
  /\ c \in own[o].owned
  /\ TermChild(o, c, mbox[o])
  /\ UNCHANGED <<finding, launched, handed>>
-----------------------------------------------------------------------------
(* Announced commands from others. *)

(* A child hands an engine to the session, or a session a pipe to the      *)
(* socket, that is above it in the tree: inc_seqnum and send.              *)
HandUp(o, d) ==
  /\ Runs(o) /\ own[o].plugged
  /\ ~own[o].terminating
  /\ d \in {own[o].owner, IF own[o].owner = NULL THEN NULL ELSE own[own[o].owner].owner}
  /\ d # NULL
  /\ handed < MaxSent
  /\ handed' = handed + 1
  /\ own' = [own EXCEPT ![d].sent_seqnum = @ + 1]
  /\ mbox' = [mbox EXCEPT ![d] = Append(@, IF d = Root THEN <<"bind">> ELSE <<"attach">>)]
  /\ UNCHANGED <<finding, launched>>

(* A faulty variant: an inproc connection that announces its bind late.    *)
find_endpoint_NoSeqnum ==
  /\ own[Root].status = "live"
  /\ ~own[Root].terminating
  /\ handed < MaxSent
  /\ handed' = handed + 1
  /\ finding' = finding + 1
  /\ UNCHANGED <<own, mbox, launched>>

(* Another thread connects to the socket's inproc endpoint: it finds the   *)
(* socket and increments its counter under the lock under which            *)
(* process_term removes the endpoint ...                                   *)
find_endpoint ==
  /\ own[Root].status = "live"
  /\ ~own[Root].terminating
  /\ handed < MaxSent
  /\ handed' = handed + 1
  /\ finding' = finding + 1
  /\ own' = [own EXCEPT ![Root].sent_seqnum = @ + 1]
  /\ UNCHANGED <<mbox, launched>>

(* ... and sends the bind later. *)
SendBind ==
  /\ finding > 0
  /\ finding' = finding - 1
  /\ mbox' = [mbox EXCEPT ![Root] = Append(@, <<"bind">>)]
  /\ UNCHANGED <<own, launched, handed>>
-----------------------------------------------------------------------------
(* Commands that o processes. *)

Receives(o, type) == /\ Runs(o)
                     /\ mbox[o] # <<>>
                     /\ Head(mbox[o])[1] = type
                     /\ UNCHANGED <<finding, launched, handed>>

(* process_seqnum *)
Counted(p) == [p EXCEPT !.processed_seqnum = @ + 1]

process_plug(o) ==
  /\ Receives(o, "plug")
  /\ Become(o, Counted([own[o] EXCEPT !.plugged = TRUE]), Tail(mbox[o]), NoCommands)

(* A faulty variant: a late child is taken in. *)
process_own_Late(o) ==
  /\ Receives(o, "own")
  /\ Become(o, Counted([own[o] EXCEPT !.owned = @ \cup {Head(mbox[o])[2]}]),
            Tail(mbox[o]), NoCommands)

(* A child that arrives late is sent away at once. *)
process_own(o) ==
  /\ Receives(o, "own")
  /\ LET c == Head(mbox[o])[2]
     IN  IF own[o].terminating
         THEN Become(o, Counted([own[o] EXCEPT !.term_acks = @ + 1]), Tail(mbox[o]), Terms({c}))
         ELSE Become(o, Counted([own[o] EXCEPT !.owned = @ \cup {c}]), Tail(mbox[o]), NoCommands)

process_attach(o) ==
  /\ Receives(o, "attach")
  /\ Become(o, Counted(own[o]), Tail(mbox[o]), NoCommands)

(* socket_base_t::attach_pipe: a socket that is closing waits for the new  *)
(* pipe as well.                                                           *)
process_bind(o) ==
  /\ Receives(o, "bind")
  /\ Become(o, Counted([own[o] EXCEPT !.pipes = @ + 1,
                                      !.term_acks = IF own[o].terminating THEN @ + 1 ELSE @]),
            Tail(mbox[o]), NoCommands)

(* A faulty variant: an ack is expected for a child nobody asked again.    *)
process_term_req_Twice(o) ==
  /\ Receives(o, "term_req")
  /\ LET c == Head(mbox[o])[2]
     IN  IF own[o].terminating THEN Become(o, own[o], Tail(mbox[o]), NoCommands)
         ELSE Become(o, [own[o] EXCEPT !.owned = @ \ {c}, !.term_acks = @ + 1],
                     Tail(mbox[o]), Terms({c}))

process_term_req(o) ==
  /\ Receives(o, "term_req")
  /\ TermChild(o, Head(mbox[o])[2], Tail(mbox[o]))

(* A session waits for its pipes first, and goes on with PipesGone. *)
process_term(o) ==
  /\ Receives(o, "term")
  /\ \/ Become(o, Terminating(own[o]), Tail(mbox[o]), Terms(own[o].owned))
     \/ Become(o, [own[o] EXCEPT !.pending = TRUE], Tail(mbox[o]), NoCommands)

PipesGone(o) ==
  /\ Runs(o)
  /\ own[o].pending
  /\ Become(o, Terminating(own[o]), mbox[o], Terms(own[o].owned))
  /\ UNCHANGED <<finding, launched, handed>>

process_term_ack(o) ==
  /\ Receives(o, "term_ack")
  /\ Become(o, [own[o] EXCEPT !.term_acks = @ - 1], Tail(mbox[o]), NoCommands)

(* socket_base_t::pipe_terminated *)
pipe_terminated(o) ==
  /\ Runs(o)
  /\ own[o].pipes > 0
  /\ Become(o, [own[o] EXCEPT !.pipes = @ - 1,
                              !.term_acks = IF own[o].terminating THEN @ - 1 ELSE @],
            mbox[o], NoCommands)
  /\ UNCHANGED <<finding, launched, handed>>

Process(o) == \/ process_plug(o) \/ process_own(o) \/ process_attach(o) \/ process_bind(o)
              \/ process_term_req(o) \/ process_term(o) \/ process_term_ack(o)

Next == \/ \E o \in Object : \/ LaunchOwn(o) \/ terminate(o) \/ Process(o)
                            \/ PipesGone(o) \/ pipe_terminated(o)
        \/ \E o, c \in Object : LaunchPlug(o, c) \/ term_child(o, c) \/ HandUp(o, c)
        \/ find_endpoint \/ SendBind

Spec == Init /\ [][Next]_vars

(* Threads finish their handlers and process their mailboxes, pipes        *)
(* terminate once they are asked (PipePair), a connecting thread goes on.  *)
Fairness == /\ \A o \in Object : /\ WF_vars(Process(o))
                                 /\ WF_vars(LaunchOwn(o))
                                 /\ WF_vars(PipesGone(o))
                                 /\ WF_vars(own[o].terminating /\ pipe_terminated(o))
            /\ WF_vars(SendBind)

FairSpec == Spec /\ Fairness
-----------------------------------------------------------------------------
Commands == {<<"plug">>, <<"attach">>, <<"bind">>, <<"term">>, <<"term_ack">>}
              \cup ({"own", "term_req"} \X Object)

Records == [status: {"free", "live"}, owner: Object \cup {NULL},
            owned: SUBSET Object, terminating: BOOLEAN, pending: BOOLEAN,
            sent_seqnum: Nat, processed_seqnum: Nat, term_acks: Nat,
            pipes: Nat, launching: Object \cup {NULL}, plugged: BOOLEAN, reqs: Nat]

TypeOK ==
  /\ own \in [Object -> Records]
  /\ mbox \in [Object -> Seq(Commands)]
  /\ {finding, launched, handed} \subseteq Nat

(* Nothing is on its way to an object that is gone, not even to one whose  *)
(* address will be used again; no thread has found a socket that is gone.  *)
NoCommandToDeleted ==
  /\ \A o \in Object : own[o].status = "free" => mbox[o] = <<>>
  /\ own[Root].status = "free" => finding = 0

(* An owner outlives what it owns, what it has launched and what it has    *)
(* asked to terminate.                                                     *)
OwnerOutlives ==
  \A o \in Object \ {Root} : own[o].status = "live" => own[own[o].owner].status = "live"

(* The assertions of own.cpp when a command arrives: no object is asked to *)
(* terminate twice, no ack comes that is not waited for, and nothing is    *)
(* owned by an object that is deleted.                                     *)
AssertionsHold ==
  \A o \in Object :
    /\ own[o].status = "live" /\ mbox[o] # <<>> =>
         /\ Head(mbox[o])[1] = "term" => ~own[o].terminating /\ ~own[o].pending
         /\ Head(mbox[o])[1] = "term_ack" => own[o].term_acks > 0
    /\ own[o].status = "free" => own[o].owned = {}

Live == {o \in Object : own[o].status = "live"}
Children(o) == {c \in Live : own[c].owner = o}

Has(box, e) == \E i \in DOMAIN box : box[i] = e
Once(box, e) == \A i, j \in DOMAIN box : box[i] = e /\ box[j] = e => i = j

(* o is launching c, is about to be told of it, or owns it. *)
Claims(o, c) == own[o].launching = c \/ Has(mbox[o], <<"own", c>>) \/ c \in own[o].owned

(* Commands of some types in a mailbox. *)
Places(box, types) == {i \in DOMAIN box : box[i][1] \in types}
Count(box, types) == Cardinality(Places(box, types))

(* An object waits for exactly the acks that will come: of children it has *)
(* asked, of late children, and of its pipes.                              *)
AcksMatch ==
  \A o \in Live :
    own[o].term_acks = Cardinality({c \in Children(o) : ~Claims(o, c)})
                         + Count(mbox[o], {"term_ack"})
                         + (IF own[o].terminating THEN own[o].pipes ELSE 0)

(* Nothing meets an object that is gone: no command, no finding thread, no *)
(* child; every command arrives in a state that expects it; and the acks   *)
(* that an object waits for are those that will come.                      *)
Lifetimes == TypeOK /\ NoCommandToDeleted /\ OwnerOutlives /\ AssertionsHold /\ AcksMatch

(* The strengthening from which Lifetimes is proved. *)

Announced == {"plug", "own", "attach", "bind"}

(* The tree: every object but the socket has an owner that is there, and   *)
(* hangs from the socket: no other set of objects is closed under owner.   *)
Parents ==
  /\ own[Root].owner = NULL
  /\ \A o \in Live \ {Root} : own[o].owner \in Live
  /\ \A S \in SUBSET Live : S # {} /\ (\A o \in S \ {Root} : own[o].owner \in S) => Root \in S
  /\ IsFiniteSet(Live)

(* An object that is gone has left nothing behind. *)
Gone == /\ NoCommandToDeleted
        /\ \A o \in Object \ Live : own[o].launching = NULL /\ own[o].owned = {}

(* c has been asked to terminate. *)
Terminal(c) == own[c].terminating \/ own[c].pending \/ Has(mbox[c], <<"term">>)

(* Until its owner has asked it, a child is claimed in one way; then it is *)
(* asked once.                                                             *)
Claimed ==
  \A o, c \in Object :
    /\ Claims(o, c) => c \in Children(o) /\ ~Terminal(c)
    /\ own[o].launching = c => ~Has(mbox[o], <<"own", c>>) /\ c \notin own[o].owned
    /\ Has(mbox[o], <<"own", c>>) => c \notin own[o].owned
    /\ Once(mbox[o], <<"own", c>>)

Asked ==
  /\ \A o \in Object :
       /\ own[o].terminating => ~own[o].pending /\ own[o].owned = {}
       /\ own[o].terminating \/ own[o].pending => ~Has(mbox[o], <<"term">>)
       /\ Once(mbox[o], <<"term">>)
  /\ ~Has(mbox[Root], <<"term">>)

(* What was announced to an object and not processed is on its way. *)
Seqnums ==
  \A o \in Live : own[o].sent_seqnum = own[o].processed_seqnum + Count(mbox[o], Announced)
                                         + (IF o = Root THEN finding ELSE 0)

(* Requests come from children that are there or whose ack follows. *)
Answered(box) ==
  \A i \in DOMAIN box : box[i][1] = "term_req" =>
    \E j \in DOMAIN box : j > i /\ box[j][1] = "term_ack"

Requests == \A o \in Object : Children(o) = {} => Answered(mbox[o])

IInv == TypeOK /\ Parents /\ Gone /\ Claimed /\ Asked /\ Seqnums /\ AcksMatch /\ Requests

(* When the socket starts to close, the whole tree goes. *)
TreeGoes == own[Root].terminating ~> \A o \in Object : own[o].status = "free"

(* A term_req for an object its owner does not have means that the owner   *)
(* has asked it already.                                                   *)
NotFoundMeansAsked ==
  \A o \in Object : Runs(o) /\ mbox[o] # <<>> /\ Head(mbox[o])[1] = "term_req" =>
    LET c == Head(mbox[o])[2]
    IN  \/ own[o].terminating
        \/ c \in own[o].owned
        \/ own[c].status = "free" \/ own[c].pending \/ own[c].terminating
        \/ Has(mbox[c], <<"term">>)
=============================================================================
