----------------------------- MODULE MCSession -----------------------------
(* Session for TLC: the kinds of session its runs explore. *)
EXTENDS Session

Setting(active, immediate, subscriber, reconnects, linger, traffic) ==
  [active |-> active, immediate |-> immediate, subscriber |-> subscriber,
   reconnects |-> reconnects, linger |-> linger, traffic |-> traffic]

Everything ==
  {Setting(k[1], k[2], k[3], k[4], l, t) :
     k \in {<<TRUE, FALSE, FALSE, TRUE>>, <<TRUE, FALSE, TRUE, TRUE>>,
            <<TRUE, TRUE, FALSE, TRUE>>, <<TRUE, TRUE, FALSE, FALSE>>,
            <<TRUE, FALSE, FALSE, FALSE>>, <<FALSE, FALSE, FALSE, TRUE>>},
     l \in {"none", "finite", "infinite"}, t \in {"in", "out"}}
=============================================================================
