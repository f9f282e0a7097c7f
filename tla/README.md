# TLA+ models of libzmq

This directory keeps the formal models of the part of the repository that has
logic of its own: **libzmq** (`libzmq/src`), the message library on which the
others do not depend. The rest of the repository is a collection of vendored
libraries for OMCompiler (numerical solvers, parsers, a collector, a database);
they are listed below with the reason why they are left aside.

* [The system and its parts](#the-system-and-its-parts)
* [Modules and code](#modules-and-code)
* [Runs](#runs)
* [Fairness](#fairness)
* [Proofs](#proofs)
* [Disagreements with the code's documentation](#disagreements-with-the-codes-documentation)
* [Abstractions and limits](#abstractions-and-limits)
* [Not modelled](#not-modelled)
* [Plan](#plan)

## The system and its parts

A libzmq context runs *I/O threads*, a *reaper* thread and the application's
threads. Objects live in one thread each. They talk through *commands*, which a
thread receives in its *mailbox*, and through *pipes*, pairs of lock-free
queues that carry messages. Nothing else is shared but the context's tables.

| part | state | operations | hard because | correct when |
|---|---|---|---|---|
| `ypipe_t` | pointers `w r f c` into a queue | write, unwrite, flush, check_read, read | two threads, one atomic pointer, a plain store after a failed swap | whole messages, no lost wake-up, everything flushed is read |
| `yqueue_t` | chunks, links, `spare_chunk` | push, unpush, pop, destructor | the spare passes between threads | one address per live cell, nothing freed is used, nothing leaks |
| `mailbox_t`, `signaler_t` | a ypipe, a mutex, an eventfd, `active` | send, recv, destructor | the signal is sent outside the lock | a signal means a command, no signal is lost, destruction is safe |
| `mailbox_safe_t`, `condition_variable_t` | a ypipe, a shared mutex, signalers | send, recv | broadcast against wait, several receivers | a command is not left behind a sleeping receiver |
| `ypipe_conflate_t`, `dbuffer_t` | two buffers, `has_msg` | write (try_lock), check_read, read | the writer never waits for the lock | newer messages only, the last one is kept |
| `pipe_t` | state, counts, marks, two ypipes | write, rollback, flush, read, hiccup, terminate, set_hwms, six commands | two users, commands that cross, a ypipe replaced under its writer | whole messages, a stopped writer goes on, both ends are deallocated once |
| `own_t` | owner, owned, sequence numbers, acks | launch_child, terminate, term_child, five commands | objects launched while their owner closes | nothing is sent to a deleted object, the tree goes |
| `ctx_t`, `reaper_t` | sockets, slots, endpoints, pending connections | create, destroy, terminate, shutdown, bind, connect | terminate, close and the reaper race; restarts after EINTR | the reaper stops last, `zmq_ctx_term` returns |
| `session_base_t` | a pipe, an engine, pipes terminating | attach, detach, reconnect, timers | reconnection against termination | every pipe is terminated, no half message reaches the engine |
| `stream_engine_t`, mechanisms | handshake states | in/out events, handshake commands | restarts, errors in every state | no message before the handshake, no unfinished message handed on |
| `lb_t fq_t dist_t` | active and matching partitions | attach, activate, send/recv, pipe_terminated | a pipe ends or blocks in the middle of a message | a message goes to one pipe as a whole |
| socket patterns (`req rep router xpub xsub ...`) | protocol states, identities, subscriptions | xsend, xrecv, pipe events | routes that vanish | replies go to their requesters, subscriptions are forwarded once |
| `trie_t mtrie_t` | counted prefix trees | add, rm, match | compaction of nodes | the set of subscriptions |
| `msg_t` | kind, reference count | init, copy, move, close | shared content in several threads | freed once |
| pollers, `io_thread_t` | registered descriptors, timers | add, rm, loop | descriptors retired while iterating | no event to a removed handler |
| `timers_t`, `socket_poller_t`, `proxy` | timers, items | add, cancel, execute, wait | handlers that change the list | as documented |
| transports, options, addresses, C API | sockets, options | I/O, parsing | mostly system calls | - |

How they interact: `ypipe_t` stores in `yqueue_t`; `mailbox_t` and `pipe_t` are
built on `ypipe_t`; commands of pipes, of the ownership tree and of the context
are delivered by mailboxes; sockets and sessions own pipes; the context's
termination waits for its sockets, a socket for its tree and its pipes, an end
of a pipe for its peer.

## Modules and code

| module | models | extends or instantiates |
|---|---|---|
| `FlushStream` | what a pipe promises, without pointers (abstract) | |
| `YPipe` | `ypipe.hpp`, every access to `c` a step | `FlushStream` by refinement |
| `YQueue`, `MCYQueue` | `yqueue.hpp`, every exchange of the spare a step | |
| `Mailbox` | `mailbox.cpp`, `signaler.cpp` (eventfd) | |
| `MailboxSafe` | `mailbox_safe.cpp`, `condition_variable.hpp`, with the calls of a thread-safe `socket_base_t`, `socket_poller_t::wait` and the reaper around them | |
| `PipePair`, `MCPipePair` | `pipe.cpp`: two `pipe_t` and their users | |
| `PipeArray` | `array.hpp` | |
| `Dealer` | `dealer.cpp` over `lb.cpp` and `fq.cpp` | `PipeArray` |
| `Dist` | `dist.cpp` | `PipeArray` |
| `Tries` | `trie.cpp`, `mtrie.cpp` | |
| `PubSub`, `MCPubSub` | `xpub.cpp` and `xsub.cpp` over connections that are lost | `Tries`, `Dist` |
| `Session`, `MCSession` | `session_base.cpp` with its engine, its pipes, its connecter and its socket | |
| `Conflate` | `ypipe_conflate.hpp`, `dbuffer.hpp` with `pipe_t`'s use of them | |
| `Own` | `own.cpp` with `socket_base_t`'s and `session_base_t`'s overrides | |
| `Ctx` | `ctx.cpp`, `reaper.cpp`, inproc endpoints | |
| `YPipeProofs` (with the theorems of `Conflate`), `YQueueProofs`, `MailboxProofs`, `MailboxSafeProofs`, `PipePairProofs`, `OwnProofs`, `CtxProofs`, `DealerProofs` | theorems | their module |

Names follow the code: an operator `process_hiccup`, `check_hwm` or
`find_endpoint` is the function of that name; where one function is several
steps, the steps have names of their own (`FlushSwap`, `FlushFail`, `FlushStore`)
and a comment says which part they are. `map` in `PROJECT.json` gives the lines
of each. Operators whose name ends in `_Something` after a comment "A faulty variant"
are mutations: they appear in no specification, and each is shown to break the
property named in `mutants`.

**YPipe.** A pointer is the position of the cell it points to, `NULL` is -1.
`write`, `unwrite`, `check_read` and `read` touch `c` at most once and are one
step. `flush` is one step when its compare-and-swap succeeds; when it fails, the
store `c.set (f)` is a later step (`wpc`). `waiting` and `wakes` are the caller's
side of the contract: who was told "empty" or `false`. `Polling` tells a reader
that may ask again before it is woken from one that waits.

**YQueue.** Chunks are model values with `next` and `prev`; `spare_chunk` is
exchanged atomically and what a thread does before and after the exchange are
steps (`wpc`, `sc`, `rpc`, `o`). `flushed` bounds what the reader may pop and
the writer may unpush, which is how `ypipe_t` uses the queue.

**Mailbox.** The lock, the write with its flush, the unlock and the signal are
separate steps of a sender; the wait, the taking of the signal and the read are
separate steps of the receiver. The mailbox's owner destroys it as soon as it
has received the last command.

**MailboxSafe.** `sync` is the socket's mutex, `pc` the place of each thread: what
a thread does between taking and giving up the mutex is one step, and
`Recv`/`Wait`/`Slept`/`Wake` are the points at which `mailbox_safe_t::recv` and
`condition_variable_t::wait` give it up. Several application threads call
`zmq_recv` and `zmq_send` (`Users`), threads in `zmq_poller_wait` have a signaler of
their own (`Pollers`), the reaper has one once `start_reaping` has added it. The
data pipe is what a command is about: `inbox`, `in_active` and whether its last
read failed (`rpassive`), as `FlushStream` promises. `Crews` are the sets of threads
that use the socket; a behaviour has one of them.

**PipePair.** Both ends are records with the fields of `pipe_t`. A ypipe is a
pair of sequences (`held`, `avail`) with a flag, as `FlushStream` promises.
`cmds[e]` is the peer's commands on their way to `e`. `terminate` is two steps,
since the peer may act on `pipe_term` before the delimiter is written. `user`
counts what was written and given, for the properties. A *setting* says what the
user of each end does: identities and credentials, hiccups, changes of marks; it
is chosen in `Init` among the run's `Settings`.

**PipeArray, Dealer.** An array of pipes is a sequence, `Place` its index, and
`Swap`, `Erase` are `array_t`'s. `lb` and `fq` are records with the fields of `lb_t`
and `fq_t` (`pipes`, `active`, `current`, `more`, and `lb`'s `dropping`). Of a pipe
they see its end's state, whether it may be read or written, and the parts in
it; a command on its way to the end is the freedom to process it later.
The code tears messages in three ways, none of which a guard keeps out: a
message *jumps* when it is in progress on the last active pipe and an earlier one,
not the first, ends; an application that gets `EAGAIN` for a later part may repeat
the part (a blocking `zmq_send` does); and a pipe may be terminated while a
message is read from it. `torn`, `astray` and `half` record the messages concerned,
`misplaced` that a full pipe was left in the active part after a jump, and `fate`
whether an assertion has aborted the process or an array was read past its end.

**Tries, Dist, PubSub.** A tree maps each node's path to its table (`min`, `count`,
`live`); `Grow` is `add`, `Shrink` and `Cut` are the two removals, of which `mtrie_t`
and `trie_t` trim differently (`kind`). `Dist` has `dist_t`'s three nested parts of
one array. `PubSub` puts one `xpub_t` and several `xsub_t` round them: requests travel
upstream through `subq`, are lost with the connection and sent again over the
next one (`xattach_pipe`, `xhiccuped`); parts of messages go to the pipes that
`dist_t` has matched. A *scenario* names the topics, users, calls, losses, and
whether messages flow and the match is inverted.

**Session.** The state of a session, its pipes' both ends, the mailboxes of its
thread and of its socket, the engine and the socket are records gathered in
`World`; a handler is a function of it, so that a handler that calls others
(`detach` calls `reconnect`, `clean_pipes`, `pipe_t::terminate`) is their
composition and one step, as it is in its thread. `mail` is ordered. Of an engine there
is what it has been given and whether it stands inside a message. A *setting*
is the kind of session: active or accepted, `ZMQ_IMMEDIATE`, a subscriber's (whose
pipe is hiccuped), whether it connects again (`reconnect_ivl` other than -1), the
linger period, and the direction of messages. `aborted` records that an
assertion has failed or something deallocated was used.

**Conflate.** The reader's lock is held over a step, so that `try_lock` can fail.

**Own.** `mbox[o]` is ordered. `Become` ends every handler with the
`check_term_acks` that the code calls at its end: when the counts match, the
object acknowledges and is freed, and its address may be used again.
`find_endpoint`/`SendBind` are a connecting thread of another socket.

**Ctx.** A step is what is done under `slot_sync` or `endpoints_sync`. The
sockets' own shutdown (module `Own`) is any delay, except that a socket with a
pending connection cannot finish.

How the models compose: `MailboxSafe`, `PipePair` and `Session` use of a ypipe what
`FlushStream` promises, and `YPipe` is proved to promise it; `Own`, `PipePair` and
`Session` use of a mailbox what `Mailbox` keeps (commands of one sender in order,
none lost); `PubSub` runs `Tries` and `Dist`, `Dealer` and `Dist` run `PipeArray`.

## Runs

| run | configuration and bounds | shows |
|---|---|---|
| `ypipe_polling` | 2 payloads, 5 cells, a reader that asks at any time | the inductive invariant (no wake-up lost among it), whole messages, refinement of `FlushStream`, all flushed frames read |
| `yqueue_chunks` | 6 chunks of 2 cells, 5 cells in use and popped | addresses unique, nothing freed followed, no leak |
| `mailbox_safety` | 3 senders, 2 commands each | assertion of `recv`, safe destruction, each sender's order, every command received |
| `mailbox_threads` | 2 threads, or a thread and a poller; the reaper; 2 messages | no sleeper misses a message or the termination, whoever needs a signal gets one, safe destruction, calls return |
| `pipe_term` | four settings: a message of up to 2 parts each way with both users terminating twice, any delay; an identity and 3 messages of up to 2 parts against a mark of 3; 7 messages against a mark of 3, raised to 5 or lowered to 1 at any time; marks changed twice, among them to no mark | assertions, atomic messages, delay honoured, no command to a freed end, both deallocated, a stopped writer resumes unless a change meets it there or has lowered its mark, marks agree |
| `pipe_hiccup` | marks of 1, up to 2 messages, 2 hiccups, both terminate | who frees a ypipe, counts, activation |
| `dealer_pipes` | 3 pipes, mark 1, messages of 2 parts, each direction by itself | whole messages to one pipe and from one pipe but for the three kinds, the arrays' active parts agree with the pipes but for the misplaced one, everyone's turn comes after N - 1 others at most, and N - 1 more for each pipe that ends |
| `pubsub_subscribers` | 4 topics that are siblings or a child, 5 calls of one user; 2 users, 2 topics, 3 calls, 2 losses; 3 users or 2 with inverted matching, messages of 2 parts, 1 loss | trees and tables, both sides' view of the subscriptions, notices, whole messages to all who want them |
| `session_connections` | 36 settings, 2 pipes, 2 messages of 2 parts, 1 connection lost | assertions but for two at named steps, whole messages to each connection and to the socket, linger, the end of everything |
| `own_safety` | 3 addresses, 2 launches, 2 requests a child, one engine or pipe handed up, one address used again | counts of acks, owners outlive, the tree goes |
| `ctx_safety` | 3 sockets, 2 connecting, 1 binding, 4 slots, one interrupted call | reaper last, deleted when unused, `zmq_ctx_term` returns |
| `conflate_safety` | 5 messages | newer only, invariant, delivery of what was swapped in |

*Why the bounds are enough.* In `YPipe` the reader has one of three relations to
the writer (prefetched, about to look, asleep), and a message of two frames with
one before and one after it visits all of them; the same invariant is proved for
every bound. A chunk of two cells has both kinds of position (last and not
last), and five cells make front and back cross chunks while the spare is taken
in the middle. Three senders are one that holds the lock, one that is about to
signal and one that overtakes both. In `MailboxSafe` two users are one that takes
what the other was woken for, and two messages are one that is taken and one
that comes between a look and a wait; its safety is proved for every number of
threads. A pipe has at most one command of each kind of the handshake on its
way, so that two calls of `terminate` by each user reach every state of the
seven. Two hiccups make a second replacement meet the first. A mark of 3 has a
low mark that is neither 1 nor the mark. Three pipes have a first, a last
and one in between, which is what the swaps of an array distinguish, and a mark
of 1 stops a pipe in the middle of a two-part message. Topics with the
characters 0, 1 and 3 extend a table to both sides, leave a gap, and trim it at
both ends and in the middle. Two connections of a session are one that is lost
and one that comes after it, and the second message is the one that may be torn
or left unsent. A tree of three has an object with
both an owner and a child, and siblings. `CHECK_DEADLOCK FALSE` is set because
every model stops when its bounds are reached or its objects are gone.

## Fairness

* Every step that a thread has begun is finished: threads are scheduled.
* Commands are processed: each thread loops over its mailbox
  (`io_thread_t::in_event`, `reaper_t::in_event`, `socket_base_t::process_commands`).
* A reader reads until it is told that nothing is there, because `mailbox_t::recv`
  and `pipe_t`'s users loop until then.
* `PipePair`: the writing user flushes what it wrote while the pipe is active,
  and nobody has to flush after `terminate`; users are not assumed to write, to
  terminate or to reconnect.
* `Mailbox`: `SF(WaitReady)`: a wait that times out or is interrupted each time is
  called again, and not all of them fail while a signal is pending.
* `MailboxSafe`: weak fairness of what a thread does inside the mutex, strong
  fairness of what takes it (`Enters`, and the senders' `Send`): a mutex that is
  given up again and again is got in the end. Callers need not call.
* `Session`: weak fairness of both mailboxes, of the linger timer, of a connecter
  that was told to stop, and of the peer that reads while a connection stands. Neither a
  connection nor its loss is assumed, nor any call of the user.
* `Ctx`: an application whose calls return `ETERM` closes the socket and calls
  `zmq_ctx_term` again after `EINTR`, as the manual requires of it. Nothing else is
  assumed of the application.

## Proofs

`tlapm` checks these for every value of the constants.

* `YPipeProofs`. The invariant `IInv` joins `DisjointCells` (front <= r <= w <= f <=
  back, and `c` is `w` or NULL), `Sleep` (c is NULL only when the reader has caught
  up, and a waiting reader with a c that is not NULL has a wake-up coming),
  `Boundaries` (w, f and r stand at ends of messages, beyond f there are only
  unfinished frames) and `Received`. `NoLostWakeup` alone is not inductive: it is
  the relation of `c`, `waiting` and `wakes` in `Sleep` that each step keeps.
  `YPipeImplementsStream` is the step simulation under the mapping in `YPipe`
  (held is what lies beyond w, avail what lies between front and w).
* `YQueueProofs`. `MemorySafe`, for any set of chunks, any number of cells in a chunk
  and any bound. It speaks of `next` and `prev` only where a thread is about to follow them,
  which is not enough to know where they lead a step later. `IInv` says it of all
  live cells: each is followed by the next of its chunk, or by the first of the chunk
  that `next` names and whose `prev` leads back (`Chain`); `end` follows the last one
  (`AtBack`); between the halves of `pop`, `begin` stands behind a chunk that has none
  left (`AtFront`); a chunk is in the list, the spare or in one thread's hands (`Held`).
  The cells of a chunk lie together and in order, so a link that `unpush` cuts or that
  `pop` resets is no other cell's. For the destructor the place of the last cell of a chunk
  is found by well-foundedness of the numbers. TLC has checked `IInv` with chunks of
  one, two and three cells.
* `MailboxProofs`. `IInv` adds `Mutex`, `OneSignal` (at most one signal owed or
  pending), `Passive` (a signal is under way exactly when the receiver is passive and
  was told nothing of the commands in its pipe), `InTransit` and `Finishing`. From it
  follow the assertion of `recv`, that no signal is lost, that nobody is inside `send`
  when the mailbox is freed, and each sender's order, for any set of senders.
* `MailboxSafeProofs`. Nobody sleeps on the condition variable while there is a
  command, a message it could take or a termination it should report; and the
  destructor meets nobody. The first is not inductive: a thread is asleep long after it
  looked, and the message that comes meanwhile is announced by a command
  that somebody else may take. `IInv` joins `Shape`, `Mutex` (who is inside holds the
  mutex), `Asleep` (while anybody sleeps the command pipe is empty
  and its reader passive),
  `Looked` (a call that may wait has found the data pipe inactive after its last
  commands), `Activation` (the last read of an inactive data pipe has
  failed, or exactly one activation is on its way), `LastCommand` and `SafeDestruction`.
  `SignalledWhenNeeded` needs one more conjunct, `Signalled`: who has a signaler with no
  signal in it, and is not being signalled at this moment, knows the command pipe empty
  as soon as it has processed its commands; a poller in its wait has found neither a
  message nor the termination besides. It is inductive relative to `IInv`, as are the
  types (`MailboxSafeTyped`). `CallsReturn` of the same run is left to TLC.
* `PipePairProofs`, for any setting, any number of messages, hiccups, changes of marks and
  calls of `terminate`, six invariants, each inductive relative to those before it.
  `HandshakeInv` says what the states of the two ends allow each other and which
  commands can then be on their way, in which order: an end that waits for the delimiter has
  been sent `pipe_term` and has not answered; a `pipe_term_ack` is the last command that
  an end is sent and finds it in a state that expects it. From it: `AssertionsHold`. That no command
  reaches a deleted end (`HandshakeSound`) is proved under `[][MarksInTime]_vars`: nobody changes
  the marks of an end that has already given its ack. Without that premise it is false
  in the code (`PipePair_hwm_to_deleted`). `Ownership` splits the ypipes: those
  of one direction (`Conduit`) are what its reader reads, and in the order of the hiccups under way
  what its writer has not moved on to; so every ypipe that exists is deleted by one thread, once
  (`NoDangling`, `NoLeak`). `Activation` is the wake-up across a hiccup; from it `NoLostActivation`.
  `Counts` is bookkeeping over all the ypipes of a direction and the `activate_write` and
  `hiccup` commands under way; from it `NoUnderflow`, so that `HiccupSound` is proved as a whole.
  `MarksAgree` proves `MarksFit` where one end changes the marks and the boosts match
  (`OneSetter`: connections over a transport). Inproc connections violate it, see
  `PipePair_inproc_marks`.
  `MessagesInOrder` and `ReadBeforeTeardown` prove the action properties `InOrder` and
  `DelayedUntilRead`. Both compare what a reader is given with what its peer has written, while the frames
  between them are flushed, rolled back, cut by the delimiter or dropped with an old
  ypipe. `Orderly` relates the three: the last frame the reader was given, the frames of its
  ypipe and the place where the writer stands are one sequence (`Line`), in which a
  message without its last part can only be the last, the delimiter can only be the last
  frame, and a gap can only be at the front, after a hiccup; while the writer has not learned of the
  reader's new ypipe, the reader is at the end of a message (`Stream`). The premise `KeepsOrder`
  leaves out hiccups between the parts of a message, with which `InOrder` is false in the code
  (`PipePair_split_message`), and credentials, which the model numbers as messages that no user
  reads. `ReadBeforeTeardown` leaves out hiccups: a message that was drained with an old ypipe is written
  and never read.
* `OwnProofs`. `Lifetimes`, for any set of addresses, which may be used again, and
  any number of launches, requests, engines and connections. An object is deleted when two counters agree
  and a third is zero; that nothing can meet it afterwards has to follow from
  what the counters mean. `IInv` says it: `Claimed` (a child that its owner has not asked to
  terminate is claimed in exactly one way: it is being launched, its `own` command is on its way, or it is in
  `owned`; once asked it is claimed no more, and is asked once), `Seqnums` (what was announced and is not
  processed is in the mailbox, or in a thread between `find_endpoint` and `send_bind`), `AcksMatch` (the acks
  waited for are those of unclaimed children, those in the mailbox and those of pipes) and
  `Requests`. So an object that can finish has no child and an empty mailbox. `Parents`
  has to exclude cycles of owners, which would be trees without a socket; induction
  along `owner` is beyond the provers, so it says that no other set of objects is
  closed under `owner`, which is as strong and needs none. All handlers end in
  `check_term_acks`, so one lemma (`Handled`) treats every handler by what it does to
  the counts, in its two outcomes (`Stays`, `Finishes`); `Sends` treats the others. TLC has checked `IInv`
  on the run's instance and with four addresses (4 million states).
* `CtxProofs`. `ReaperStopsLast` and `DeletedUnused`, for any sockets, slots and
  interruptions, with `TypeOK`. Neither is inductive, since the reaper decides by a
  counter and a flag of its own. `IInv` joins `Slots` (the context's sockets are those
  that live, and the free slots are the others), `Mailed` (counting commands in
  the reaper's mailbox: a closed socket's `reap` once, `stop` or the reaper's flag
  exactly when the context terminates and has no socket, and the reaper's counter
  the sum of the sockets that reap, that are in `destroy_socket`, and of `reaped`
  commands on their way) and `Ended`. When the reaper stops, each count is zero,
  and lemmas about counting under `Append`, `Tail` and the commands of `terminate`
  give that the mailbox is empty. TLC has checked `IInv` on `ctx_safety`'s instance.
* `DealerProofs`. `Partitions`, `WholeMessages` and `FairShare`, for any number of
  pipes, any mark and messages of any length, wherever in a message pipes end and
  whatever the application does with a part that failed. The arrays are reordered by every pipe
  that comes, blocks or ends, and the code keeps the place of
  the message's pipe as an index into them; so what has to be shown is that each reordering but
  one, the jump, leaves the pipe under that index. `IInv` joins `Arrays` (no pipe twice,
  the current one active, the array holds the socket's pipes), `Flags` (a pipe is in the active
  part exactly while its own flag says so, up to `misplaced`), `Reading` (the parts of a message that
  is being read were flushed together), `Writing` (what is written and not flushed is
  the beginning of the message that is sent, in the current pipe, which has room, unless that
  pipe is `torn` or ends) and `Turning`. The exceptions of `WholeMessages` are single
  messages: `torn` holds the two pipes of a jump and the pipe that is given the repeated part, each until
  its next message is complete, and nothing else ever enters it.
  The first lemmas say what `Swap`, `Erase` and the moves made of them do to an array: who is in it,
  who is in its active part, which place nobody else touches. The loop of `Settle` ends at a ready pipe
  or with none active, which is found by well-foundedness of the rounds. For
  `Turning` a waiting pipe's turns that have gone by are added to the places between `current`
  and it (`Rank`), and each step keeps the sum under `Turns`.
  `DealerFairShare` is about one direction at a time, as `Traffic` of the run:
  with both, `waits` would count two things; the other three have no premise.
  The proof has corrected the property. `FairShare` used to say that at most N others are served, which
  TLC confirms for three pipes and four: but a pipe that ends gives its place to the last active one,
  which may lose a round so, and from five pipes on that is more than N. The bound
  now counts the pipes that have ended.
* The end of `YPipeProofs` has the theorems of `Conflate`, whose buffer stands in for a ypipe, over an
  instance of that module. `IInv` adds the lock's holder and that what waits in the back
  buffer is newer than all the reader has seen; then the reader is given newer
  messages only, for any number of messages.

The assumptions are those on the constants (`YPipeAssumption`, `YQueueAssumption`,
`MailboxAssumption`, `MailboxSafeAssumption`, `PipePairAssumption`, `OwnAssumption`,
`CtxAssumption`, `DealerAssumption`), which TLC evaluates on each run; that on `Conflate`'s bound is a
premise of its theorems. That of
`PipePair` says of the users what the code does: only a session's pipe is hiccuped, and a
socket writes its session no identity.

Model-checked only: liveness (`TerminationCompletes`, `TreeGoes`, `CallsReturn` and the like), which
the provers do not reach; what recursive data computes (`Tries`, `Dist`); and `PubSub` and `Session`.

## Disagreements with the code's documentation

No run of the project expects a violation. What the code does not do is
reproduced by the configurations below, which are kept beside the runs; each
violates the property named. The runs of `Dealer`, `Session` and `PipePair` contain the same
steps, and their properties say what holds besides. Only `PubSub` has a
constant, `Wild`, for what its run leaves out and the two configurations put in.
A configuration with several properties (`_unpromised`) violates each of them: TLC
shows all with `-continue`.

| configuration | property | what happens |
|---|---|---|
| `Ctx_late_connect` | `TermReturns` | a connection that becomes pending after `terminate` has looked (`ctx.cpp:152`) keeps `zmq_ctx_term` waiting |
| `Ctx_no_slot` | `NeverAborts` | no slot for the socket that `terminate` creates: an assertion aborts the process, `ctx.cpp:155` |
| `Conflate_last` | `LastDelivered` | `try_lock` fails on the last message, which then is never delivered, `doc/zmq_setsockopt.txt:101` |
| `Dealer_unpromised` | `NeverTorn` | a blocking `zmq_send` repeats the part that rolled its message back (`socket_base.cpp:1151`), which becomes a message without its beginning, against `doc/zmq_send.txt:39-41` |
| `Dealer_unpromised` | `RestFollows` | a pipe ends while a message is in progress on the last active one: that pipe moves to the free place, `current` to 0 (`lb.cpp:66-70`), and the rest goes to another peer |
| `Dealer_unpromised` | `NeverPastTheEnd` | the pipe a message has jumped to is full: the part is rolled back with `EAGAIN` and the pipe, no longer `out_active`, stays in the active part (`lb.cpp:114-119`); its `activate_write` activates it once more (`lb.cpp:75-80`), with all pipes active past the end of the array. `Partitions` says that nothing else does this |
| `Dealer_unpromised` | `RestIsThere` | a pipe ended without delay between two parts that are read: the assertion in `fq.cpp:118` |
| `MailboxSafe_inproc` | `NoDeadlock` | two thread-safe sockets connected over inproc send each other commands, each inside its mutex |
| `Own_request` | `NotFoundMeansAsked` | a child that is faster than its owner's `own` command has its request dropped, `own.cpp:108` |
| `PipePair_credential` | `WriterResumesUnlessChanged` | a credential counts as written and never as read; with a mark of 1 the writer never gets past it |
| `PipePair_hwm_raised` | `WriterResumes` | marks raised while the writer is stopped: nobody starts it |
| `PipePair_hwm_lowered` | `WriterResumesWhenAgreed` | marks lowered before the writer comes up against them: the reader has read everything, since its last report too little for the old low mark, and the writer is stopped at the new mark by messages that were read long ago |
| `PipePair_hwm_to_deleted` | `NoCommandToDeleted` | `send_hwms_to_peer` (`pipe.cpp:542`) does not look at the state and reaches a peer that is gone |
| `PipePair_inproc_marks` | `MarksFit` | the boosts of an inproc connection stay as they were: a low mark above the high one |
| `PipePair_lost_delimiter` | `TerminationCompletes` | a hiccup drains the delimiter that `terminate` wrote to the old ypipe, and the session's end waits for it for ever |
| `PipePair_split_message` | `InOrder` | a hiccup in the middle of a message deletes its first parts; the rest is delivered as a message, against `doc/zmq_msg_send.txt:49` |
| `PubSub_lost_request` | `NoticesAgree` | a subscription that a full pipe dropped is followed by its unsubscription: the publisher's assertion, `mtrie.cpp:297` |
| `PubSub_nodrop` | `GoesToAllWhoWant` | with `ZMQ_XPUB_NODROP` a call that fails keeps the pipes it matched (`xpub.cpp:246`) |
| `Session_unpromised` | `RestCanBeRead` | the connection is lost inside a message whose rest can no longer be read: the assertion in `clean_pipes`, `session_base.cpp:209` |
| `Session_unpromised` | `EndpointIsThere` | `zmq_disconnect` ends the pipe that was recorded for the endpoint, which is gone: `socket_base.cpp:1083` |
| `Session_unpromised` | `LingerAlways` | `zmq_unbind`, and `zmq_disconnect` with `ZMQ_IMMEDIATE`, end an active pipe at once whatever the linger period, against the comment before `session_base.cpp:478` and `doc/zmq_disconnect.txt:20-24` |
| `Session_orphan` | `WaitsToConnectOnly` | an accepted session whose connection is lost waits for ever with an infinite linger period, though nothing will connect again |
| `Session_lost_delimiter` | `WaitsForMessagesOnly` | a subscriber closes while it reconnects: the delimiter goes with the old ypipe, and `zmq_ctx_term` waits although the connection stands |

`ypipe.hpp:108-110` obliges the caller of `flush` to wake the reader up before it uses
the pipe again. Senders of a `Mailbox` do not: one writes before another has signalled.
The theorems of `MailboxProofs` show that nothing depends on it.

## Abstractions and limits

* Memory order: an operation of `atomic_ptr_t` or of a mutex is one step, and
  steps are sequentially consistent. The code's plain accesses are to cells one
  thread owns, which is what `DisjointCells` and `CellIdentity` say. The
  unsynchronised `reader_awake` of `ypipe_conflate_t` is written with the same value
  always and read as that.
* Message contents are numbers or their part of a message; frames have only what
  a property tells apart. Sizes and the batching by `inbound_poll_rate` are left out.
* `signaler_t` is an eventfd; the socketpair variant, forked processes
  (`pid`) and the creation of descriptors are left out. `Mailbox` has one queue for
  `cpipe`, whose correctness is `YPipe`'s.
* `MailboxSafe`: a timeout ends a wait at any moment; the clock is left out. One
  condition variable, spurious wake-ups included. The peer is an I/O thread
  except under `Inproc`.
* `Dealer`: identities, credentials and the probe are left out. Both directions share the
  pipes' coming and going and nothing else, and are explored one at a time. What
  happens after an array was read past its end is not defined: the model stops there, as
  it does after an abort.
* `PubSub`: one publisher. A topic is a sequence of characters, and the trees are
  exact; a subscriber's own filter, its buffered message, manual and verbose
  modes and the welcome message are left out. Requests upstream are not
  lost to a full pipe except under `Wild`.
* `Session`: marks, and the activations of ypipes that a hiccup has replaced, are
  left out (`PipePair` has both). The listener that stands between an accepted session and
  its socket is left out: the session is the socket's. The socket reads until the
  delimiter, as a DEALER does; a PUSH socket ends its pipes without delay. All
  messages have two parts, the least that can be torn.
* `Own`: linger is a delay; pipes of a socket count as acks in one number; a
  listener's `send_attach` to the session it has just launched is left out (it
  takes the same sequence numbers as the attach of `HandUp`).
* `Ctx`: options and the choice of an I/O thread are left out; the slot table is a
  count, so that the reuse of a slot by a late command is not covered. `Helper` bounds the
  sockets that `terminate` may create.
* Every bound (`MaxItems`, `MaxCells`, `MaxSend`, `MaxMsgs`, `MaxMsg`, `MaxPart`,
  `MaxHiccup`, `MaxSetHwm`, `MaxTerminate`, `MaxLost`, `MaxLaunch`, `MaxReq`, `MaxSent`,
  `MaxInterrupt`, `MaxWrite`, the number of pipes `N`, a scenario's `ops` and `losses`)
  only limits how often something is done and is named in its module.

## Not modelled

The repository is a collection of vendored libraries with about 1.4 million
lines, of which libzmq's are a few per cent. The others are left aside: cppzmq
(a wrapper), CMinpack, Cdaskr, SUNDIALS, SuiteSparse, lis, primme, metis, dgesv
(sequential floating-point code, whose correctness is a matter of numerical error and
not of states), FMIL, libffi, SQLite, zlib, regex, ryu, antlr, flex, moo, the
Boehm collector, TBB and open62541 (vendored projects with suites of their own).
`PROJECT.json` lists each. The share of the repository that the models map is
therefore tiny and will stay so; what they map is the part that is concurrent.

Of libzmq: transports, pollers and the signal handling of the operating systems
are mostly system calls; options and addresses are parsing; encoders, decoders
and cryptography are transformations of data. The engine's handshake, REQ, REP
and ROUTER, `timers_t`, `msg_t`, `proxy` and the marks of inproc connections have
state worth modelling and are in the plan.

## Plan

In order of what matters most for the system:

1. *Done*: the modules above and the proofs listed.
2. Components: `Slots` (the slot table read without its lock); `InprocConnect`
   (marks and identities exchanged); `ReqRep` (`req`, `rep` and `router` with identities
   that vanish); `Engine` (the mechanisms' handshakes under restarts and errors);
   `Timers` (handlers that change the map); `Msg` (reference counts); a
   conflating pipe pair, whose delimiter can be the message lost; ZAP pipes,
   raw sockets and REQ in `Session`.
3. Compositions: a hiccup under `Dealer`'s arrays (`pipe.cpp:296`); several publishers
   over one `xsub_t`.
4. Algorithms as functions, checked against a reference: `compute_lwm` and the marks of
   a connection.
5. Refinements: one direction of `PipePair` implements `FlushStream`; `YPipe` over
   `YQueue` addresses; `Mailbox` implements a bag of per-sender sequences.
6. Proofs: the handshakes of `Session`, the arrays of `Dist`.

Later runs take small bounds as here (three actors, two items each). A run whose
question another one answers at the same cost is merged into it.
