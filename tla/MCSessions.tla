----------------------------- MODULE MCSessions -----------------------------
(* Small instances of Sessions. *)
EXTENDS Sessions

CONSTANTS k1, k2, c1, c2

\* k1 falls into the last slot of this node, k2 into the first of the other.
Table == INSTANCE Cluster WITH KeyHash <- [k \in {k1, k2} |-> IF k = k1 THEN 5 ELSE 6]
MCServed == Table!ServedKeys

MCString == 0..1
MCScore == {0}
Rq(op, k, s) == [op |-> op, key |-> k, arg |-> s]

MCSet == Rq("SET", k1, 1)

\* Writers and removers of one key; a writer and readers of a key of another node.
MCRequest == {Rq("SADD", k1, 1), Rq("DEL", k1, 0), Rq("PEXPIRE", k1, 1),
              Rq("EVAL", k1, 1), Rq("LPUSH", k1, 1), Rq("LPOP", k1, 0), Rq("SET", k2, 1),
              Rq("EXISTS", k2, 0), Rq("GET", k2, 0)}
MCSetDel == {MCSet, Rq("DEL", k1, 0)}
MCScript == {Rq("EVAL", k1, 1)}
=============================================================================
