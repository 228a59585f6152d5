---------------------------- MODULE MCConnections ----------------------------
\* One connection at a time besides the one awaited.  Two threads take completions;
\* the second also looks after the link, as the one thread of single mode does, and
\* broadcasts as the RedisSubscriber's does.
EXTENDS Connections

CONSTANTS c1, c2, l1, l2, w1, w2

MCClients == {c1, c2}
MCLinks == {l1, l2}
MCWorkers == {w1, w2}
=============================================================================
