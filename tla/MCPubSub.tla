------------------------------ MODULE MCPubSub ------------------------------
(* PubSub for TLC: what its behaviours explore. *)
EXTENDS PubSub, TLC

Scenario(topics, users, calls, losses, data, invert) ==
  [topics |-> topics, users |-> users, ops |-> calls, losses |-> losses,
   data |-> data, invert |-> invert]

Some(n) == {users \in SUBSET Subs : Cardinality(users) = n}

(* Siblings with a gap and a child: every way to extend and trim a table. *)
Siblings == {<<0>>, <<1>>, <<3>>, <<1, 0>>}

Alone == {Scenario(Siblings, users, 5, 0, FALSE, FALSE) : users \in Some(1)}
Together == {Scenario({<<1>>, <<1, 0>>}, users, 3, 2, FALSE, FALSE) : users \in Some(2)}
Messaging == {Scenario({<<1>>}, users, 0, 1, TRUE, FALSE) : users \in Some(3)}
Inverted == {Scenario({<<1>>}, users, 0, 1, TRUE, TRUE) : users \in Some(2)}

Everything == Alone \cup Together \cup Messaging \cup Inverted
Renamings == Permutations(Subs)
=============================================================================
