------------------------------- MODULE PubSub -------------------------------
(***************************************************************************)
(* One publisher, xpub_t, and its subscribers, xsub_t (libzmq/src/xpub.cpp *)
(* and xsub.cpp), over connections that are lost and made again.           *)
(*                                                                         *)
(* Upstream go the subscriptions: a subscriber counts them in its trie and *)
(* sends a request when one begins or ends; the publisher keeps who wants  *)
(* what in its mtrie and tells its user of each topic that somebody begins *)
(* to want or nobody wants any longer.  Downstream go messages, part by    *)
(* part, to the pipes that dist_t has matched.                             *)
(***************************************************************************)
EXTENDS Tries, Dist, FiniteSets

CONSTANTS
  Subs,       \* the subscribers
  Scenarios,  \* what a behaviour explores, see Init
  N,          \* bound: pipes the publisher ever has
  Hwm,        \* high water mark of the publisher's pipes
  MaxPart,    \* bound: parts of a message
  Wild        \* what the code does not survive, see the guards that name it

ASSUME PubSubAssumption ==
  /\ Hwm \in Nat \ {0} /\ MaxPart \in Nat \ {0} /\ N \in Nat
  /\ Wild \subseteq {"loss", "nodrop"}

Pipes == 1 .. N    \* the publisher's ends, in the order they are made
None == 0

VARIABLES
  scenario,   \* [topics, users, ops, losses, data, invert]: chosen in Init
  ops,        \* calls of subscribe and unsubscribe so far
  refs, trie, \* xsub_t::subscriptions: reference counts and tree
  conn,       \* the publisher's end of each subscriber's connection
  subq,       \* requests on their way to the publisher
  st,         \* state of the publisher's end of each pipe
  wants, mtrie,  \* xpub_t::subscriptions: pipes per topic, and the tree
  known,      \* the topics the publisher's user has been told of
  aborted,    \* the assertion in mtrie_t::rm_helper has failed
  dist,
  out, open, used, out_active,
  next        \* number of the part the publisher sends next

upstream == <<ops, refs, trie, conn, subq>>
pipes == <<out, open, used, out_active>>
vars == <<scenario, upstream, st, wants, mtrie, known, aborted, dist, pipes, next>>

Part == [no : 1 .. MaxPart, more : BOOLEAN]
Topics == scenario.topics
Held(f, none) == {t \in DOMAIN f : f[t] # none}

Init ==
  /\ scenario \in Scenarios
  /\ ops = 0
  /\ \E begun \in SUBSET scenario.users : \E t \in Topics :
       /\ begun # {} => scenario.data
       /\ refs = [s \in Subs |-> [u \in Topics |-> IF s \in begun /\ u = t THEN 1 ELSE 0]]
       /\ trie = [s \in Subs |-> IF s \in begun THEN Grow(NewTree, t) ELSE NewTree]
  /\ conn = [s \in Subs |-> None]
  /\ subq = [p \in Pipes |-> <<>>]
  /\ st = [p \in Pipes |-> "new"]
  /\ wants = [t \in Topics |-> {}] /\ mtrie = NewTree
  /\ known = {}
  /\ aborted = FALSE
  /\ dist = NoPipes
  /\ out = [p \in Pipes |-> <<>>] /\ open = [p \in Pipes |-> <<>>]
  /\ used = [p \in Pipes |-> 0] /\ out_active = [p \in Pipes |-> TRUE]
  /\ next = 1
-----------------------------------------------------------------------------
(* The subscribers. *)

Request(on, t) == [on |-> on, topic |-> t]
Delimiter == [on |-> FALSE, topic |-> <<-1>>]

(* dist_t::send_to_all on the one pipe of s.  Over its high water mark a   *)
(* pipe takes nothing and the request is lost; never, unless Wild.         *)
Sent(s, request) ==
  \E lost \in {FALSE} \cup (IF "loss" \in Wild THEN {TRUE} ELSE {}) :
    subq' = IF conn[s] = None \/ lost THEN subq
            ELSE [subq EXCEPT ![conn[s]] = Append(@, request)]

subscribe(s, t) ==
  /\ s \in scenario.users /\ ops < scenario.ops
  /\ ops' = ops + 1
  /\ refs' = [refs EXCEPT ![s][t] = @ + 1]
  /\ trie' = [trie EXCEPT ![s] = Grow(@, t)]
  /\ Sent(s, Request(TRUE, t))
  /\ UNCHANGED <<scenario, conn, st, wants, mtrie, known, aborted, dist, pipes, next>>

Unsubscribed(s, t) ==
  /\ refs' = [refs EXCEPT ![s][t] = @ - 1]
  /\ trie' = [trie EXCEPT ![s] = Shrink(@, t, Held(refs'[s], 0), "trie")]

(* A faulty variant: every call is passed on. *)
Final_Always(s, t) == TRUE

(* trie_t::rm returns true: the last reference is gone. *)
Final(s, t) == refs[s][t] = 1

unsubscribe(s, t) ==
  /\ s \in scenario.users /\ ops < scenario.ops
  /\ IF t \in Found(trie[s], t, Held(refs[s], 0))
     THEN /\ ops' = ops + 1
          /\ Unsubscribed(s, t)
          /\ IF Final(s, t) THEN Sent(s, Request(FALSE, t)) ELSE UNCHANGED subq
     ELSE UNCHANGED <<ops, refs, trie, subq>>
  /\ UNCHANGED <<scenario, conn, st, wants, mtrie, known, aborted, dist, pipes, next>>

Lost == {p \in Pipes : st[p] # "new" /\ \A s \in Subs : conn[s] # p}

(* The connection breaks: some of the requests on their way arrive.        *)
(* Until it is made again the subscriber writes to a pipe that hiccups.    *)
Disconnect(s) ==
  /\ conn[s] # None /\ Cardinality(Lost) < scenario.losses
  /\ conn' = [conn EXCEPT ![s] = None]
  /\ \E n \in 0 .. Len(subq[conn[s]]) :
       subq' = [subq EXCEPT ![conn[s]] = Append(SubSeq(@, 1, n), Delimiter)]
  /\ UNCHANGED <<scenario, ops, refs, trie, st, wants, mtrie, known, aborted, dist, pipes, next>>

(* trie_t::apply with send_subscription. *)
Applied(s) == [i \in 1 .. Cardinality(Held(refs[s], 0)) |->
                 Request(TRUE, SetToSeq(Held(refs[s], 0))[i])]

(* xattach_pipe of the first connection, xhiccuped of a later one. *)
Connect(s) ==
  /\ s \in scenario.users /\ conn[s] = None
  /\ \E p \in Pipes :
       /\ st[p] = "new" /\ \A q \in 1 .. p - 1 : st[q] # "new"
       /\ conn' = [conn EXCEPT ![s] = p]
       /\ subq' = [subq EXCEPT ![p] = Applied(s)]
       /\ st' = [st EXCEPT ![p] = "connecting"]
  /\ UNCHANGED <<scenario, ops, refs, trie, wants, mtrie, known, aborted, dist, pipes, next>>
-----------------------------------------------------------------------------
(* The publisher: requests. *)

(* mtrie_t::add and rm, and what the user is told; x is the state so far.  *)
Begun(x, p, t) ==
  [x EXCEPT !.wants[t] = @ \cup {p}, !.mtrie = Grow(@, t),
            !.known = IF x.wants[t] = {} THEN @ \cup {t} ELSE @]

Over(x, p, t) ==
  LET left == [x.wants EXCEPT ![t] = @ \ {p}]
  IN  IF Len(t) \notin Reached(x.mtrie, t) THEN x
      ELSE [x EXCEPT !.aborted = x.wants[t] # {} /\ p \notin x.wants[t],
                     !.wants = left,
                     !.mtrie = Shrink(@, t, Held(left, {}), "mtrie"),
                     !.known = IF left[t] = {} THEN @ \ {t} ELSE @]

Processed(p, requests) ==
  LET x0 == [wants |-> wants, mtrie |-> mtrie, known |-> known,
             aborted |-> FALSE, closed |-> FALSE]
      one(x, r) == IF x.aborted \/ x.closed THEN x
                   ELSE IF r = Delimiter THEN [x EXCEPT !.closed = TRUE]
                   ELSE IF r.on THEN Begun(x, p, r.topic) ELSE Over(x, p, r.topic)
  IN  FoldLeft(one, x0, requests)

(* Reads all there is on pipe p. *)
Read(p) ==
  LET x == Processed(p, subq[p])
  IN  /\ wants' = x.wants /\ mtrie' = x.mtrie
      /\ known' = x.known /\ aborted' = x.aborted
      /\ st' = [st EXCEPT ![p] = IF x.closed THEN "closed" ELSE "active"]
      /\ subq' = [subq EXCEPT ![p] = <<>>]

xattach_pipe(p) ==
  /\ ~aborted /\ st[p] = "connecting"
  /\ dist' = Attach(dist, p)
  /\ Read(p)
  /\ UNCHANGED <<scenario, ops, refs, trie, conn, pipes, next>>

xread_activated(p) ==
  /\ ~aborted /\ st[p] = "active" /\ subq[p] # <<>>
  /\ Read(p)
  /\ UNCHANGED <<scenario, ops, refs, trie, conn, dist, pipes, next>>

(* A faulty variant: the user is not told. *)
Unwanted_Never(left) == {}

(* send_unsubscription: topics that nobody is interested in any more. *)
Unwanted(left) == {t \in Topics : wants[t] # {} /\ left[t] = {}}

xpipe_terminated(p) ==
  /\ ~aborted /\ st[p] = "closed"
  /\ st' = [st EXCEPT ![p] = "gone"]
  /\ LET left == [t \in Topics |-> wants[t] \ {p}]
     IN  /\ wants' = left
         /\ mtrie' = Pruned(mtrie, Held(left, {}))
         /\ known' = known \ Unwanted(left)
  /\ dist' = Terminated(dist, p)
  /\ out' = [out EXCEPT ![p] = <<>>] /\ open' = [open EXCEPT ![p] = <<>>]
  /\ used' = [used EXCEPT ![p] = 0]
  /\ out_active' = [out_active EXCEPT ![p] = FALSE]
  /\ UNCHANGED <<scenario, upstream, aborted, next>>
-----------------------------------------------------------------------------
(* The publisher: messages. *)

Messages(parts) == Cardinality({i \in DOMAIN parts : ~parts[i].more})

(* The subscriber's side reads one message. *)
PeerRead(p) ==
  /\ \E s \in Subs : conn[s] = p
  /\ out[p] # <<>>
  /\ \E n \in DOMAIN out[p] :
       /\ ~out[p][n].more /\ \A i \in 1 .. n - 1 : out[p][i].more
       /\ out' = [out EXCEPT ![p] = SubSeq(@, n + 1, Len(@))]
  /\ UNCHANGED <<scenario, upstream, st, wants, mtrie, known, aborted, dist,
                 open, used, out_active, next>>

(* process_activate_write, with xwrite_activated when the pipe was full *)
xwrite_activated(p) ==
  /\ ~aborted /\ st[p] = "active" /\ used[p] > Messages(out[p])
  /\ used' = [used EXCEPT ![p] = Messages(out[p])]
  /\ out_active' = [out_active EXCEPT ![p] = TRUE]
  /\ dist' = IF out_active[p] THEN dist ELSE Activated(dist, p)
  /\ UNCHANGED <<scenario, upstream, st, wants, mtrie, known, aborted, out, open, next>>

Full(p) == used[p] >= Hwm
HasRoom == {p \in Pipes : out_active[p] /\ st[p] = "active" /\ ~Full(p)}

(* mtrie_t::match: prefixes from the shortest, each with its pipes. *)
Takers(data) == UNION {wants[t] : t \in Found(mtrie, data, Held(wants, {}))}

Matched(data) ==
  LET marked == FoldLeft(Match, dist, SetToSeq(Takers(data)))
  IN  IF scenario.invert THEN reverse_match(marked) ELSE marked

(* One part to the pipes matched in d. *)
Distribute(d, more) ==
  LET e == Distributed(d, HasRoom)
      to == Matching(e)
      part == [no |-> next, more |-> more]
  IN  /\ open' = [p \in Pipes |-> IF p \notin to THEN open[p]
                                  ELSE IF more THEN Append(open[p], part) ELSE <<>>]
      /\ out' = [p \in Pipes |-> IF p \in to /\ ~more THEN out[p] \o Append(open[p], part)
                                                      ELSE out[p]]
      /\ used' = [p \in Pipes |-> IF p \in to /\ ~more THEN used[p] + 1 ELSE used[p]]
      /\ out_active' = [p \in Pipes |->
           out_active[p] /\ ~(p \in Matching(d) \ to /\ st[p] = "active" /\ Full(p))]
      /\ dist' = IF more THEN Ended(e, more) ELSE Unmatch(Ended(e, more))
      /\ next' = IF more THEN next + 1 ELSE 1

sent == <<scenario, upstream, st, wants, mtrie, known, aborted>>

(* With ZMQ_XPUB_NODROP a full pipe makes the call fail after matching. *)
SendFirst(data, more) ==
  /\ ~aborted /\ scenario.data /\ ~dist.more
  /\ more => MaxPart > 1
  /\ LET d == Matched(data)
     IN  IF "nodrop" \in Wild /\ \E p \in Matching(d) : Full(p)
         THEN dist' = d /\ UNCHANGED <<pipes, next>>
         ELSE Distribute(d, more)
  /\ UNCHANGED sent

SendNext(more) ==
  /\ ~aborted /\ dist.more
  /\ more => next < MaxPart
  /\ Distribute(dist, more)
  /\ UNCHANGED sent
-----------------------------------------------------------------------------
Data == {<<1, 0>>, <<2>>}

Next ==
  \/ \E s \in Subs : \/ \E t \in Topics : subscribe(s, t) \/ unsubscribe(s, t)
                     \/ Disconnect(s) \/ Connect(s)
  \/ \E p \in Pipes : \/ xattach_pipe(p) \/ xread_activated(p) \/ xpipe_terminated(p)
                      \/ PeerRead(p) \/ xwrite_activated(p)
  \/ \E more \in BOOLEAN : \/ \E data \in Data : SendFirst(data, more)
                           \/ SendNext(more)

Spec == Init /\ [][Next]_vars
-----------------------------------------------------------------------------
(* The tables of both trees are trimmed (on which the assertions in        *)
(* trie.cpp and mtrie.cpp rest), and a walk finds each prefix that is      *)
(* subscribed: so check and match answer as the set of subscriptions does. *)
TreesSound ==
  /\ \A s \in Subs : Compact(trie[s]) /\ Minimal(trie[s], Held(refs[s], 0))
  /\ Compact(mtrie) /\ Minimal(mtrie, Held(wants, {}))
  /\ \A s \in Subs : \A t \in Held(refs[s], 0) : Len(t) \in Reached(trie[s], t)
  /\ \A t \in Held(wants, {}) : Len(t) \in Reached(mtrie, t)

(* What the publisher has for a connection, with the requests on their     *)
(* way, is what the subscriber wants, through repeated subscriptions, lost *)
(* connections and requests that arrive late.                              *)
SubscriptionsAgree ==
  \A s \in Subs : conn[s] # None =>
    LET p == conn[s]
        here == {t \in Topics : p \in wants[t]}
        one(T, r) == IF r.on THEN T \cup {r.topic} ELSE T \ {r.topic}
    IN  FoldLeft(one, here, subq[p]) = Held(refs[s], 0)

(* The publisher's user, applying what it is told, knows the topics that   *)
(* somebody wants; the assertion in mtrie_t::rm_helper holds; no pipe that *)
(* is gone is wanted or written to.                                        *)
NoticesAgree ==
  /\ ~aborted
  /\ known = Held(wants, {})
  /\ \A t \in Topics : \A p \in wants[t] : st[p] \in {"active", "closed"}
  /\ Attached(dist) = {p \in Pipes : st[p] \in {"active", "closed"}}

TypeOK ==
  /\ ops \in 0 .. scenario.ops
  /\ refs \in [Subs -> [Topics -> Nat]]
  /\ conn \in [Subs -> Pipes \cup {None}]
  /\ st \in [Pipes -> {"new", "connecting", "active", "closed", "gone"}]
  /\ wants \in [Topics -> SUBSET Pipes] /\ known \subseteq Topics
  /\ out \in [Pipes -> Seq(Part)] /\ open \in [Pipes -> Seq(Part)]
  /\ used \in [Pipes -> 0 .. Hwm] /\ out_active \in [Pipes -> BOOLEAN]
  /\ next \in 1 .. MaxPart

(* A subscriber gets whole messages, whatever connects, blocks, comes back *)
(* or goes between two parts.                                              *)
Follows(parts, i) == parts[i].no = IF i = 1 \/ ~parts[i - 1].more THEN 1 ELSE parts[i - 1].no + 1

WholeMessages ==
  /\ TypeOK /\ Nested(dist)
  /\ \A p \in Pipes :
       /\ \A i \in DOMAIN out[p] : Follows(out[p], i)
       /\ out[p] # <<>> => ~out[p][Len(out[p])].more
       /\ \A i \in DOMAIN open[p] : open[p][i] = [no |-> i, more |-> TRUE]

(* A message that begins goes to the pipes that want it, all of those that *)
(* have room and no other.                                                 *)
Wanting(data) ==
  LET takers == UNION {wants[t] : t \in {u \in Topics : IsPrefix(u, data)}}
  IN  IF scenario.invert THEN Attached(dist) \ takers ELSE takers

GoesToAllWhoWant ==
  [][\A data \in Data, more \in BOOLEAN :
       SendFirst(data, more) =>
         {p \in Pipes : out'[p] # out[p] \/ open'[p] # open[p]} = Wanting(data) \cap HasRoom]_vars
=============================================================================
