-------------------------------- MODULE MCMq --------------------------------
(* Instance of Mq for TLC: the kinds of message.                           *)
EXTENDS Mq

K(name, prio, rank, size, drop, check) ==
    [name |-> name, prio |-> prio, rank |-> rank, size |-> size,
     drop |-> drop, check |-> check]

\* Ranks are the weights of gmsg_init() and vmsg_weight_map.
Query == K("query", 0, 2, 2, TRUE, TRUE)
Pong  == K("pong", 0, 3, 1, TRUE, FALSE)
Hit   == K("hit", 0, 4, 2, FALSE, FALSE)
Alive == K("control pong", 1, 3, 1, TRUE, FALSE)
SomeKinds == {Query, Pong, Hit, Alive}

Hops0   == K("hops-flow 0", 1, 8, 1, FALSE, FALSE)
Hops255 == K("hops-flow 255", 1, 8, 1, FALSE, FALSE)
ByeKind == K("bye", 0, 9, 1, FALSE, FALSE)

\* gmsg_mq_queries() drops the relayed queries; gmsg_mq_qhits() then drops
\* what is below the hits, and the hits.
SwiftTemplates == <<<<3>>, <<4, 5>>>>
=============================================================================
