------------------------------- MODULE Tries -------------------------------
(***************************************************************************)
(* The prefix trees of subscriptions, trie_t and mtrie_t (libzmq/src/      *)
(* trie.cpp, mtrie.cpp).  A tree maps the path of every node that exists   *)
(* to its table of children: count entries from the character min on, of   *)
(* which live are not null.  What a node holds for its own prefix, a       *)
(* reference count or a set of pipes, is kept beside the tree: held is the *)
(* set of prefixes for which it is not empty.                              *)
(***************************************************************************)
EXTENDS Integers, Sequences, SequencesExt, FiniteSetsExt

Leaf == [min |-> 0, count |-> 0, live |-> 0]
NewTree == [path \in {<<>>} |-> Leaf]

Table(node) == node.min .. node.min + node.count - 1
TableEnd(node) == node.min + node.count - 1
Upto(s, k) == SubSeq(s, 1, k)

(* The characters whose entry in the table is not null. *)
Entries(t, path) == {c \in Table(t[path]) : Append(path, c) \in DOMAIN t}
-----------------------------------------------------------------------------
(* add: the nodes on the way to s, created where there are none. *)

(* A faulty variant: the table grows to the left and keeps its length. *)
Extended_Short(node, c) ==
  CASE c \in Table(node) -> node
    [] c \notin Table(node) /\ node.count = 0 -> [node EXCEPT !.min = c, !.count = 1]
    [] node.count > 0 /\ c > TableEnd(node) -> [node EXCEPT !.count = c - node.min + 1]
    [] node.count > 0 /\ c < node.min -> [node EXCEPT !.min = c, !.count = node.min - c + 1]

Extended(node, c) ==
  CASE c \in Table(node) -> node
    [] c \notin Table(node) /\ node.count = 0 -> [node EXCEPT !.min = c, !.count = 1]
    [] node.count > 0 /\ c > TableEnd(node) -> [node EXCEPT !.count = c - node.min + 1]
    [] node.count > 0 /\ c < node.min -> [node EXCEPT !.min = c,
                                                      !.count = node.min + node.count - c]

Grow(t, s) ==
  LET way == {Upto(s, k) : k \in 0 .. Len(s)}
      old(path) == IF path \in DOMAIN t THEN t[path] ELSE Leaf
      child(path) == Upto(s, Len(path) + 1)
      passed(path) == LET node == Extended(old(path), s[Len(path) + 1])
                      IN  IF child(path) \in DOMAIN t THEN node
                          ELSE [node EXCEPT !.live = @ + 1]
  IN  [path \in DOMAIN t \cup way |-> IF path \in way \ {s} THEN passed(path) ELSE old(path)]
-----------------------------------------------------------------------------
(* rm of one prefix: its nodes that have become redundant, from the end.   *)

(* The one child that is left: trie_t takes the other end of the table,    *)
(* mtrie_t looks for the entry.                                            *)
OtherEnd(node, c) == IF c = node.min THEN TableEnd(node) ELSE node.min
FirstEntry(kids) == Min(kids)

(* The child c of path is deleted and the table of tree kind compacted.    *)
Cut(t, path, c, kind) ==
  LET n == t[path]
      kids == Entries(t, path) \ {c}
      node == CASE n.count = 1 -> [n EXCEPT !.count = 0]
                [] n.count > 1 /\ n.live = 2 ->
                     [n EXCEPT !.count = 1, !.min = IF kind = "trie" THEN OtherEnd(n, c)
                                                             ELSE FirstEntry(kids)]
                [] n.count > 1 /\ n.live # 2 /\ c = n.min ->
                     [n EXCEPT !.min = Min(kids), !.count = @ - (Min(kids) - n.min)]
                [] n.count > 1 /\ n.live # 2 /\ c = TableEnd(n) ->
                     [n EXCEPT !.count = Max(kids) - n.min + 1]
                [] OTHER -> n
  IN  [p \in DOMAIN t \ {Append(path, c)} |->
         IF p = path THEN [node EXCEPT !.live = @ - 1] ELSE t[p]]

Shrink(t, s, held, kind) ==
  LET cut[k \in 0 .. Len(s)] ==
        IF k = 0 THEN t
        ELSE LET u == cut[k - 1]
                 child == Upto(s, Len(s) - k + 1)
             IN  IF child \in held \/ u[child].live # 0 THEN u
                 ELSE Cut(u, Upto(s, Len(s) - k), s[Len(s) - k + 1], kind)
  IN  cut[Len(s)]

(* mtrie_t::rm of one pipe: one walk over the whole tree that deletes what *)
(* has become redundant and trims each table to the entries that are left. *)
Pruned(t, held) ==
  LET kept == {path \in DOMAIN t : path = <<>> \/ \E h \in held : IsPrefix(path, h)}
      kids(path) == {c \in Entries(t, path) : Append(path, c) \in kept}
  IN  [path \in kept |->
         LET n == t[path] IN
         [min |-> IF kids(path) = {} THEN n.min ELSE Min(kids(path)),
          count |-> IF kids(path) = {} THEN 0 ELSE Max(kids(path)) - Min(kids(path)) + 1,
          live |-> n.live - Cardinality(Entries(t, path) \ kids(path))]]
-----------------------------------------------------------------------------
(* check and match: how far the walk along s comes. *)
Reached(t, s) ==
  {k \in 0 .. Len(s) :
     \A j \in 1 .. k : /\ Upto(s, j) \in DOMAIN t
                       /\ Upto(s, j - 1) \in DOMAIN t
                       /\ s[j] \in Table(t[Upto(s, j - 1)])}

(* The prefixes of s that the walk finds subscribed. *)
Found(t, s, held) == {Upto(s, k) : k \in Reached(t, s)} \cap held
-----------------------------------------------------------------------------
(* What the code keeps of a table: its ends are live, live counts the      *)
(* entries, a table of one entry holds the one child.                      *)
Compact(t) ==
  \A path \in DOMAIN t :
    /\ t[path].live = Cardinality(Entries(t, path))
    /\ t[path].count > 0 => /\ t[path].min \in Entries(t, path)
                            /\ TableEnd(t[path]) \in Entries(t, path)

(* No node is redundant, and every node that exists is found. *)
Minimal(t, held) ==
  \A path \in DOMAIN t : /\ Len(path) \in Reached(t, path)
                         /\ path = <<>> \/ \E h \in held : IsPrefix(path, h)
=============================================================================
